---------------------------- MODULE EvidenceProofs ----------------------------
(***************************************************************************)
(* What a verdict and a ranking are worth, whatever records lie in the     *)
(* store: any number of them, of any subject, from any source, whenever    *)
(* they were written.                                                      *)
(***************************************************************************)
EXTENDS Evidence, WellFoundedInduction, TLAPS

Entry == [origin : Subject, target : Subject]
Typed ==
  /\ now \in Nat /\ installed \in Versions
  /\ store \subseteq Record
  /\ catalog \in [impl : Impls, changed : Nat \cup {Nothing}, offers : SUBSET Protocols, serving : BOOLEAN]
  /\ job # Nothing => job \in Job /\ (job.found # Nothing => job.entry \in Entry)

(* A record is known by its id, and none is from the future.               *)
Filed == \A r, q \in store : r.at <= now /\ (r.id = q.id => r = q)

-----------------------------------------------------------------------------
(* A set of naturals has a least member.                                   *)
LEMMA LeastNat ==
  ASSUME NEW S, S \subseteq Nat, S # {}
  PROVE  \E m \in S : \A n \in S : m <= n
<1> DEFINE R == {ss \in Nat \X Nat : ss[1] < ss[2]}
<1>1. IsWellFoundedOn(R, Nat)
  BY NatLessThanWellFounded, Zenon DEF OpToRel
<1>2. PICK m \in S : \A n \in S : <<n, m>> \notin R
  <2> HIDE DEF R
  <2> QED BY <1>1, WFMin
<1>3. \A n \in S : ~(n < m)
  BY <1>2
<1> QED BY <1>3

(* A bounded set of naturals has a greatest member.                        *)
LEMMA GreatestNat ==
  ASSUME NEW S, S \subseteq Nat, S # {}, NEW b \in Nat, \A n \in S : n <= b
  PROVE  \E m \in S : \A n \in S : n <= m
<1> DEFINE T == {b - n : n \in S}
<1>1. T \subseteq Nat /\ T # {}
  <2>1. \A n \in S : b - n \in Nat
    OBVIOUS
  <2>2. PICK n \in S : TRUE
    OBVIOUS
  <2>3. b - n \in T
    BY <2>2
  <2> QED BY <2>1, <2>3
<1>2. PICK t \in T : \A u \in T : t <= u
  <2> HIDE DEF T
  <2> QED BY <1>1, LeastNat
<1>3. PICK m \in S : t = b - m
  BY <1>2
<1>4. \A n \in S : b - m <= b - n
  BY <1>2, <1>3
<1> QED BY <1>3, <1>4

-----------------------------------------------------------------------------
(* Of the records that are weighed one beats all the others, and only one. *)
LEMMA NewestIs ==
  ASSUME Typed, Filed, NEW S, S \subseteq store, S # {}, NEW c
  PROVE  /\ Newest(S, c) \in S /\ \A q \in S : Beats(Newest(S, c), q, c)
         /\ \A r \in S : (\A q \in S : Beats(r, q, c)) => r = Newest(S, c)
<1> DEFINE live == {r \in S : Live(r, c)}
           L == IF live # {} THEN live ELSE S
           late == {r \in L : \A q \in L : q.at <= r.at}
<1>1. \A r \in S : r.at \in Nat /\ r.at <= now /\ r.id \in Nat /\ r.id <= MaxRecords
  BY EvidenceAssumption DEF Typed, Filed, Record
<1>2. L \subseteq S /\ L # {} /\ \A r, q \in L : Live(r, c) = Live(q, c)
  BY DEF Live
<1>3. \A r \in L, q \in S : Live(r, c) \/ ~Live(q, c)
  BY DEF Live
<1>4. \A r \in L, q \in S \ L : Live(r, c) /\ ~Live(q, c)
  BY DEF Live
<1> HIDE DEF L
<1>5. late # {}
  <2> DEFINE ats == {r.at : r \in L}
  <2>1. ats \subseteq Nat /\ ats # {} /\ \A n \in ats : n <= now
    BY <1>1, <1>2
  <2>2. now \in Nat
    BY DEF Typed
  <2> HIDE DEF ats
  <2>3. PICK m \in ats : \A n \in ats : n <= m
    BY <2>1, <2>2, GreatestNat
  <2> QED BY <2>3 DEF ats
<1>6. PICK r \in late : \A q \in late : q.id <= r.id
  <2> DEFINE ids == {r.id : r \in late}
  <2>1. ids \subseteq Nat /\ ids # {} /\ \A n \in ids : n <= MaxRecords
    BY <1>1, <1>2, <1>5
  <2>2. MaxRecords \in Nat
    BY EvidenceAssumption
  <2> HIDE DEF ids
  <2>3. PICK m \in ids : \A n \in ids : n <= m
    BY <2>1, <2>2, GreatestNat
  <2> QED BY <2>3 DEF ids
<1>7. r \in L /\ \A q \in L : q.at <= r.at
  BY <1>6
<1>8. \A q \in L : BeatsByTime(r, q, c)
  <2> SUFFICES ASSUME NEW q \in L PROVE BeatsByTime(r, q, c)
    OBVIOUS
  <2>1. CASE q.at = r.at
    <3>1. q \in late
      BY <1>7, <2>1
    <3> QED BY <1>1, <1>2, <1>6, <1>7, <2>1, <3>1 DEF BeatsByTime
  <2>2. CASE q.at # r.at
    BY <1>1, <1>2, <1>7, <2>2 DEF BeatsByTime
  <2> QED BY <2>1, <2>2
<1>9. r \in S /\ \A q \in S : Beats(r, q, c)
  BY <1>2, <1>4, <1>7, <1>8 DEF Beats
<1>10. Newest(S, c) \in S /\ \A q \in S : Beats(Newest(S, c), q, c)
  BY <1>9 DEF Newest
<1>11. ASSUME NEW x \in S, NEW y \in S, Beats(x, y, c), Beats(y, x, c) PROVE x = y
  <2>1. x.at = y.at /\ x.id = y.id
    BY <1>1, <1>11 DEF Beats, BeatsByTime
  <2> QED BY <2>1 DEF Filed
<1> QED BY <1>10, <1>11

-----------------------------------------------------------------------------
(* What a verdict rests on.                                                *)
LEMMA ObservationIs ==
  ASSUME Typed, Filed, NEW s \in Subject, NEW c \in Caps, Observed(s, c)
  PROVE  /\ Observation(s, c) \in store /\ Observation(s, c) \in Observations(s)
         /\ Observation(s, c).found[c] \in Support
         /\ Live(Observation(s, c), c) => Stands(Observation(s, c), s, c)
<1> DEFINE o == Observation(s, c)
<1>1. Observations(s) \subseteq store /\ Observations(s) # {}
  BY DEF Observed, Observations, Counting, Candidates
<1>2. o \in Observations(s)
  BY <1>1, NewestIs DEF Observation
<1>3. o \in Record
  BY <1>1, <1>2 DEF Typed
<1> HIDE DEF o
<1>4. o.found[c] \in Support
  BY <1>3, EvidenceAssumption DEF Record
<1>5. ASSUME Live(o, c) PROVE Stands(o, s, c)
  <2>1. o.source = "maintainer-test"
    BY <1>2, <1>3 DEF Observations, Record
  <2>2. o.subject = s /\ \A q \in store : q.subject = s => q.supersedes # o.id
    BY <1>2 DEF Observations, Counting, Candidates
  <2>3. o.at \in Nat /\ TTL[c] \in Nat /\ now \in Nat
    BY <1>3, EvidenceAssumption DEF Record, Typed
  <2> QED BY <1>5, <2>1, <2>2, <2>3 DEF Stands, Live, ExpiresAt
<1> QED BY <1>1, <1>2, <1>4, <1>5 DEF o

(* A test that stands is among what is weighed, and is live.               *)
LEMMA StandingIsHeard ==
  ASSUME Typed, NEW s \in Subject, NEW c \in Caps, NEW r \in store, Stands(r, s, c)
  PROVE  r \in Observations(s) /\ Live(r, c)
<1>1. r.at \in Nat /\ TTL[c] \in Nat /\ now \in Nat
  BY EvidenceAssumption DEF Record, Typed
<1> QED BY <1>1 DEF Stands, Observations, Counting, Candidates, Live, ExpiresAt

(* While the latest standing test of a required capability failed, it is   *)
(* the observation.                                                        *)
LEMMA LatestIsObserved ==
  ASSUME Typed, Filed, NEW s \in Subject, NEW c \in Caps, NEW r \in store, Stands(r, s, c),
         \A q \in store : Stands(q, s, c) => q.at < r.at \/ q = r
  PROVE  Observed(s, c) /\ Observation(s, c) = r /\ Live(r, c)
<1> DEFINE o == Observation(s, c)
<1>1. r \in Observations(s) /\ Live(r, c) /\ Observed(s, c)
  BY StandingIsHeard DEF Observed
<1>2. Observations(s) \subseteq store
  BY DEF Observations, Counting, Candidates
<1>3. o \in Observations(s) /\ Beats(o, r, c)
  BY <1>1, <1>2, NewestIs DEF Observation
<1>4. o \in store /\ Live(o, c) /\ BeatsByTime(o, r, c)
  BY <1>1, <1>2, <1>3 DEF Beats, Live
<1>5. Stands(o, s, c)
  BY <1>1, <1>4, ObservationIs
<1>6. o.at < r.at \/ o = r
  BY <1>4, <1>5
<1>7. o.at \in Nat /\ r.at \in Nat
  BY <1>4 DEF Typed, Record
<1> HIDE DEF o
<1>8. o = r
  BY <1>4, <1>6, <1>7 DEF BeatsByTime
<1> QED BY <1>1, <1>8 DEF o

-----------------------------------------------------------------------------
(* The records are well formed and filed under ids of their own.           *)
LEMMA FiledInitially == Init => Typed /\ Filed
BY DEF Init, Typed, Filed

(* A planned subject is one of today, and so is the target of a job.       *)
LEMMA JobsKeep ==
  ASSUME Typed, StartRun \/ StartRefresh \/ Probe
  PROVE  Typed' /\ UNCHANGED <<now, store>>
<1>1. \A p \in Protocols : Current(p) \in Subject
  BY DEF Typed, Current, Subject
<1>2. CASE StartRun
  <2>1. PICK p \in catalog.offers :
          job' = [cmd |-> "run", todo |-> {[origin |-> Current(p), target |-> Current(p)]},
                  entry |-> Nothing, found |-> Nothing]
    BY <1>2 DEF StartRun
  <2>2. Current(p) \in Subject
    BY <1>1 DEF Typed
  <2>3. job' \in Job /\ job'.found = Nothing
    BY <2>1, <2>2 DEF Job
  <2> QED BY <1>2, <2>3 DEF StartRun, Typed
<1>3. CASE StartRefresh
  <2>1. \A s \in MatrixSubjects : s \in Subject /\ s.proto \in Protocols
    BY DEF MatrixSubjects, Typed, Record, Subject
  <2>2. Plan \subseteq Entry
    BY <1>1, <2>1 DEF Plan, PlanEntry, Entry
  <2>3. job' \in Job /\ job'.found = Nothing
    BY <1>3, <2>2 DEF StartRefresh, Job, Entry
  <2> QED BY <1>3, <2>3 DEF StartRefresh, Typed
<1>4. CASE Probe
  <2>1. job \in Job /\ job.todo \subseteq Entry
    BY <1>4 DEF Typed, Probe, Job, Entry
  <2>2. PICK e \in job.todo : (\E f \in Findings : job' = [job EXCEPT !.entry = e, !.found = f]) \/ job' = Drop(e)
    BY <1>4 DEF Probe
  <2>3. job' # Nothing => job' \in Job /\ (job'.found # Nothing => job'.entry \in Entry)
    <3>1. CASE \E f \in Findings : job' = [job EXCEPT !.entry = e, !.found = f]
      BY <2>1, <2>2, <3>1 DEF Job, Entry
    <3>2. CASE job' = Drop(e)
      BY <2>1, <2>2, <3>2 DEF Job, Entry, Drop
    <3> QED BY <2>2, <3>1, <3>2
  <2> QED BY <1>4, <2>3 DEF Probe, Typed
<1> QED BY <1>2, <1>3, <1>4

(* What is kept or placed is a record under a free id; it has today's date.*)
LEMMA AddingKeeps ==
  ASSUME Typed, Filed, NEW r \in Record, r.id \in FreeIds, r.at = now
  PROVE  /\ store \cup {r} \subseteq Record
         /\ \A x, y \in store \cup {r} : x.at <= now /\ (x.id = y.id => x = y)
<1>1. now \in Nat /\ now <= now
  BY DEF Typed
<1>2. \A x \in store : x.id # r.id
  BY DEF FreeIds
<1> QED BY <1>1, <1>2 DEF Typed, Filed

(* The record of a finished run.                                           *)
LEMMA KeepKeeps ==
  ASSUME Typed, Filed, Keep
  PROVE  Typed' /\ Filed'
<1>1. /\ job # Nothing /\ job.found # Nothing
      /\ job \in Job /\ job.entry \in Entry /\ job.found \in Findings
  BY DEF Keep, Typed, Job
<1>2. PICK i \in 1..MaxRecords :
        LET r == [id |-> i, subject |-> job.entry.target, at |-> now, found |-> job.found,
                  source |-> "maintainer-test", suite |-> "current", supersedes |-> NoId]
        IN store' = store \/ (i \in FreeIds /\ store' = store \cup {r})
  BY DEF Keep
<1> DEFINE r == [id |-> i, subject |-> job.entry.target, at |-> now, found |-> job.found,
                 source |-> "maintainer-test", suite |-> "current", supersedes |-> NoId]
<1>3. r \in Record /\ r.id = i /\ r.at = now
  <2>1. job.entry.target \in Subject
    BY <1>1 DEF Entry
  <2>2. NoId \in 0..MaxRecords
    BY EvidenceAssumption DEF NoId
  <2>3. now \in Nat
    BY DEF Typed
  <2>4. job.found \in Findings \cup Claims
    BY <1>1
  <2> QED BY <2>1, <2>2, <2>3, <2>4 DEF Record
<1>4. store' = store \/ (r.id \in FreeIds /\ store' = store \cup {r})
  BY <1>2, <1>3
<1> HIDE DEF r
<1>5. store' \subseteq Record /\ \A x, y \in store' : x.at <= now /\ (x.id = y.id => x = y)
  BY <1>3, <1>4, AddingKeeps DEF Typed, Filed
<1>6. job' # Nothing => job' \in Job /\ job'.found = Nothing
  BY <1>1 DEF Keep, Drop, Job
<1> QED BY <1>5, <1>6 DEF Keep, Typed, Filed

(* A record another build or a person placed.                              *)
LEMMA PlaceKeeps ==
  ASSUME Typed, Filed, Place
  PROVE  Typed' /\ Filed'
<1>1. PICK i \in FreeIds, p \in Protocols, back \in {NoId} \cup {r.id : r \in store} :
       \/ \E f \in Claims :
            store' = store \cup {[id |-> i, subject |-> Current(p), at |-> now, found |-> f,
              source |-> "provider-claim", suite |-> "current", supersedes |-> back]}
       \/ \E f \in Findings, t \in {"current", "retired"} :
            store' = store \cup {[id |-> i, subject |-> Current(p), at |-> now, found |-> f,
                 source |-> "maintainer-test", suite |-> t, supersedes |-> back]}
  BY DEF Place
<1>2. i \in 1..MaxRecords /\ Current(p) \in Subject /\ now \in Nat /\ back \in 0..MaxRecords
  <2>1. back \in 0..MaxRecords
    BY EvidenceAssumption DEF Typed, Record, NoId
  <2> QED BY <2>1 DEF FreeIds, Typed, Current, Subject
<1>3. \E r \in Record : r.id = i /\ r.at = now /\ store' = store \cup {r}
  <2>1. CASE \E f \in Claims :
            store' = store \cup {[id |-> i, subject |-> Current(p), at |-> now, found |-> f,
              source |-> "provider-claim", suite |-> "current", supersedes |-> back]}
    BY <1>2, <2>1 DEF Record
  <2>2. CASE \E f \in Findings, t \in {"current", "retired"} :
            store' = store \cup {[id |-> i, subject |-> Current(p), at |-> now, found |-> f,
                 source |-> "maintainer-test", suite |-> t, supersedes |-> back]}
    BY <1>2, <2>2 DEF Record
  <2> QED BY <1>1, <2>1, <2>2
<1>4. store' \subseteq Record /\ \A x, y \in store' : x.at <= now /\ (x.id = y.id => x = y)
  BY <1>3, AddingKeeps
<1> QED BY <1>4 DEF Place, Typed, Filed

(* The clock, the agent and the catalog move on.                           *)
LEMMA EnvironmentKeeps ==
  ASSUME Typed, Filed, Recommend \/ Tick \/ Update \/ Reimplement \/ Offer \/ UNCHANGED vars
  PROVE  Typed' /\ Filed'
<1>1. now' \in Nat /\ now <= now' /\ UNCHANGED <<store, job>>
  <2>1. now \in Nat /\ (now' = now \/ now' = now + 1)
    BY DEF Typed, Recommend, Tick, Update, Reimplement, Offer, vars
  <2>2. UNCHANGED <<store, job>>
    BY DEF Recommend, Tick, Update, Reimplement, Offer, vars
  <2> QED BY <2>1, <2>2
<1>2. installed' \in Versions
  BY DEF Typed, Recommend, Tick, Update, Reimplement, Offer, vars
<1>3. catalog' \in [impl : Impls, changed : Nat \cup {Nothing}, offers : SUBSET Protocols, serving : BOOLEAN]
  <2>1. CASE Reimplement
    BY <2>1 DEF Typed, Reimplement
  <2>2. CASE Offer
    BY <2>2 DEF Typed, Offer
  <2>3. CASE UNCHANGED catalog
    BY <2>3 DEF Typed
  <2> QED BY <2>1, <2>2, <2>3 DEF Recommend, Tick, Update, vars
<1>4. \A r \in store : r.at <= now'
  BY <1>1 DEF Typed, Filed, Record
<1> QED BY <1>1, <1>2, <1>3, <1>4 DEF Typed, Filed

(* Every record is well formed, filed under an id of its own and not from  *)
(* the future.                                                             *)
THEOREM RecordsFiled == Spec => [](Typed /\ Filed)
<1>1. Typed /\ Filed /\ [Next]_vars => (Typed /\ Filed)'
  <2> SUFFICES ASSUME Typed, Filed, [Next]_vars PROVE Typed' /\ Filed'
    OBVIOUS
  <2>1. CASE StartRun \/ StartRefresh \/ Probe
    BY <2>1, JobsKeep DEF Filed
  <2> QED BY <2>1, KeepKeeps, PlaceKeeps, EnvironmentKeeps DEF Next
<1> QED BY <1>1, FiledInitially, PTL DEF Spec

(* Compatible and incompatible are earned by tests that stand, and a       *)
(* standing failure is heard, for any records of any source and age        *)
(* (computeVerdict).                                                       *)
THEOREM VerdictsEarned == Spec => []VerdictIsEarned
<1>1. Typed /\ Filed => VerdictIsEarned
  <2> SUFFICES ASSUME Typed, Filed, NEW s \in Subject
               PROVE
    /\ Verdict(s) = "compatible" =>
         \A c \in Required : \E r \in store : Stands(r, s, c) /\ r.found[c] = "supported"
    /\ Verdict(s) = "incompatible" =>
         \E c \in Required : \E r \in store : Stands(r, s, c) /\ r.found[c] = "unsupported"
    /\ \A c \in Required, r \in store :
         /\ Stands(r, s, c) /\ r.found[c] = "unsupported"
         /\ \A q \in store : Stands(q, s, c) => q.at < r.at \/ q = r
         => Verdict(s) = "incompatible"
    BY DEF VerdictIsEarned, MatrixSubjects, Typed, Record
  <2>1. Required \subseteq Caps /\ Required \subseteq Asked
    BY DEF Required, Asked
  <2>2. ASSUME NEW c \in Required, SupportFor(s, c) # "unknown"
        PROVE  \E r \in store : Stands(r, s, c) /\ r.found[c] = SupportFor(s, c)
    BY <2>1, <2>2, ObservationIs DEF SupportFor
  <2>3. ASSUME NEW c \in Required PROVE SupportFor(s, c) \in Support
    BY <2>1, <2>3, ObservationIs DEF SupportFor, Support
  <2>4. ASSUME Verdict(s) = "compatible", NEW c \in Required PROVE SupportFor(s, c) = "supported"
    BY <2>1, <2>3, <2>4 DEF Verdict, Support
  <2>5. ASSUME Verdict(s) = "incompatible" PROVE \E c \in Required : SupportFor(s, c) = "unsupported"
    BY <2>5 DEF Verdict
  <2>6. ASSUME NEW c \in Required, NEW r \in store, Stands(r, s, c), r.found[c] = "unsupported",
               \A q \in store : Stands(q, s, c) => q.at < r.at \/ q = r
        PROVE  Verdict(s) = "incompatible"
    <3>1. SupportFor(s, c) = "unsupported"
      BY <2>1, <2>6, LatestIsObserved DEF SupportFor
    <3> QED BY <3>1 DEF Verdict
  <2>7. Verdict(s) = "compatible" => \A c \in Required : \E r \in store : Stands(r, s, c) /\ r.found[c] = "supported"
    BY <2>2, <2>4
  <2>8. Verdict(s) = "incompatible" =>
          \E c \in Required : \E r \in store : Stands(r, s, c) /\ r.found[c] = "unsupported"
    BY <2>2, <2>5
  <2> QED BY <2>6, <2>7, <2>8
<1> QED BY <1>1, RecordsFiled, PTL

-----------------------------------------------------------------------------
(* How long a ranking stands, where agent and model share one protocol.    *)
OneProtocol == \A p, q \in Protocols : p = q
Standing ==
  ranking # Nothing =>
    /\ ranking.until \in Nat
    /\ now < ranking.until => Placed = ranking.placed /\ Horizon = ranking.until

(* The day a ranking names, from the expiries of what it cites.            *)
Ends == {RecordExpiry(r) : r \in CitedNow}
HorizonOf(ends, day) ==
  LET first == CHOOSE d \in ends : \A e \in ends : d <= e
  IN IF ends = {} \/ first < day THEN day ELSE first
(* Horizon is that day, today and after a step.                            *)
LEMMA HorizonIs == Horizon = HorizonOf(Ends, now) /\ Horizon' = HorizonOf(Ends', now')
BY DEF Horizon, HorizonOf, Ends

(* A record as a whole expires no later than any of its results.           *)
LEMMA RecordExpiryIs ==
  ASSUME NEW r \in Record, NEW c \in Caps
  PROVE  RecordExpiry(r) \in Nat /\ RecordExpiry(r) <= ExpiresAt(r, c)
<1> DEFINE ends == {ExpiresAt(r, d) : d \in Caps}
<1>1. ends \subseteq Nat /\ ExpiresAt(r, c) \in ends
  BY EvidenceAssumption DEF Record, ExpiresAt
<1> HIDE DEF ends
<1>2. PICK m \in ends : \A n \in ends : m <= n
  BY <1>1, LeastNat
<1>3. m \in ends /\ \A d \in Caps : m <= ExpiresAt(r, d)
  BY <1>2 DEF ends
<1>4. RecordExpiry(r) \in ends /\ \A d \in Caps : RecordExpiry(r) <= ExpiresAt(r, d)
  BY <1>3 DEF RecordExpiry, ends
<1> QED BY <1>1, <1>4

(* A day later the same record is the observation, and as live as before,  *)
(* unless its result expires that day.                                     *)
LEMMA ObservationStays ==
  ASSUME Typed, Filed, Tick, NEW s \in Subject, NEW c \in Caps, Observed(s, c),
         NEW o \in store, o = Observation(s, c), ExpiresAt(o, c) > now + 1
  PROVE  Observation(s, c)' = o /\ Live(o, c)' = Live(o, c)
<1>1. now' = now + 1 /\ store' = store /\ now \in Nat
  BY DEF Tick, Typed
<1> PICK S : S = Observations(s)
  OBVIOUS
<1>2. Observations(s)' = S /\ S \subseteq store
  BY <1>1 DEF Observations, Counting, Candidates
<1>3. o \in S /\ \A q \in S : Beats(o, q, c)
  BY <1>2, NewestIs DEF Observation, Observed
<1>4. \A q \in S : q.at \in Nat /\ q.id \in Nat /\ ExpiresAt(q, c) \in Nat
  BY <1>2, EvidenceAssumption DEF Typed, Record, ExpiresAt
<1>5. Live(o, c)' = Live(o, c)
  BY <1>1, <1>3, <1>4 DEF Live, ExpiresAt
<1>6. \A q \in S : Live(q, c)' => Live(q, c)
  BY <1>1, <1>4 DEF Live, ExpiresAt
<1>7. ASSUME NEW q \in S PROVE Beats(o, q, c)'
  <2>1. CASE Live(o, c)' /\ ~Live(q, c)'
    BY <2>1 DEF Beats
  <2>2. CASE Live(o, c)' /\ Live(q, c)'
    <3>1. Live(o, c) /\ Live(q, c)
      BY <1>5, <1>6, <2>2 DEF Live
    <3>2. BeatsByTime(o, q, c)
      BY <1>3, <3>1 DEF Beats
    <3> QED BY <2>2, <3>2 DEF Beats, BeatsByTime, Live, ExpiresAt
  <2>3. CASE ~Live(o, c)'
    <3>1. ~Live(o, c) /\ ~Live(q, c)
      BY <1>3, <1>5, <2>3 DEF Beats, Live
    <3>2. BeatsByTime(o, q, c) /\ ~Live(q, c)'
      BY <1>3, <1>6, <3>1 DEF Beats
    <3> QED BY <2>3, <3>2 DEF Beats, BeatsByTime, Live, ExpiresAt
  <2> QED BY <2>1, <2>2, <2>3 DEF Live
<1>8. ASSUME NEW x \in S, NEW y \in S, Beats(x, y, c)', Beats(y, x, c)' PROVE x = y
  <2>1. BeatsByTime(x, y, c) /\ BeatsByTime(y, x, c)
    BY <1>8 DEF Beats, BeatsByTime, Live, ExpiresAt
  <2>2. x.at = y.at /\ x.id = y.id
    BY <1>4, <2>1 DEF BeatsByTime
  <2> QED BY <1>2, <2>2 DEF Filed
<1>9. \A x \in S : (\A q \in S : Beats(x, q, c)') <=> x = o
  BY <1>3, <1>7, <1>8
<1>10. Newest(S, c)' = o
  BY <1>3, <1>9 DEF Newest
<1> QED BY <1>2, <1>5, <1>10 DEF Observation

(* A day on which nothing cited expires changes neither the place nor the  *)
(* day the ranking names.                                                  *)
LEMMA TickRanking ==
  ASSUME OneProtocol, Typed, Filed, Tick, now + 1 < Horizon
  PROVE  Placed' = Placed /\ Horizon' = Horizon
<1> DEFINE ends == {RecordExpiry(r) : r \in CitedNow}
<1>1. now \in Nat /\ now' = now + 1 /\ UNCHANGED <<store, installed, catalog>>
  BY DEF Tick, Typed
<1>2. ends # {} /\ Horizon = (CHOOSE d \in ends : \A e \in ends : d <= e)
  <2>1. Horizon # now
    BY <1>1
  <2> QED BY <2>1 DEF Horizon
<1>3. catalog.offers # {} /\ catalog.serving /\ CitedNow # {}
  BY <1>2 DEF CitedNow
<1>4. PICK p \in catalog.offers : catalog.offers = {p}
  BY <1>3 DEF OneProtocol, Typed
<1>5. BestProtocol = p /\ BestProtocol' = p
  <2>1. p \in Nat /\ catalog'.offers = {p}
    BY <1>1, <1>4, EvidenceAssumption DEF Typed
  <2>2. Better(p, p) /\ Better(p, p)'
    BY <2>1 DEF Better
  <2> QED BY <1>4, <2>1, <2>2 DEF BestProtocol
<1>6. PICK s \in Subject : Current(p) = s /\ Current(p)' = s
  BY <1>1, <1>4 DEF Current, Typed, Subject
<1>7. CitedNow = {r \in store : r.id \in {Observation(s, c).id : c \in {d \in Asked : Observed(s, d)}}}
  BY <1>3, <1>5, <1>6 DEF CitedNow
<1>8. Asked \subseteq Caps /\ Asked # {}
  BY <1>3, <1>7 DEF Asked
<1>9. ends \subseteq Nat
  BY <1>7, <1>8, RecordExpiryIs DEF Typed
<1> HIDE DEF ends
<1>10. Horizon \in ends /\ \A e \in ends : Horizon <= e
  <2>1. PICK m \in ends : \A e \in ends : m <= e
    BY <1>2, <1>9, LeastNat
  <2> QED BY <1>2, <2>1
<1>11. ASSUME NEW c \in Asked, Observed(s, c)
       PROVE  Observation(s, c)' = Observation(s, c) /\ Live(Observation(s, c), c)' = Live(Observation(s, c), c)
  <2>1. PICK o \in store : o = Observation(s, c)
    BY <1>8, <1>11, ObservationIs
  <2>2. o \in CitedNow
    BY <1>7, <1>11, <2>1
  <2>3. Horizon <= RecordExpiry(o)
    BY <1>10, <2>2 DEF ends
  <2>4. RecordExpiry(o) \in Nat /\ RecordExpiry(o) <= ExpiresAt(o, c) /\ ExpiresAt(o, c) \in Nat
    BY <1>8, RecordExpiryIs, EvidenceAssumption DEF Typed, Record, ExpiresAt
  <2>5. ExpiresAt(o, c) > now + 1
    BY <1>1, <1>9, <1>10, <2>3, <2>4
  <2>6. Observation(s, c)' = o /\ Live(o, c)' = Live(o, c)
    BY <1>8, <1>11, <2>1, <2>5, ObservationStays
  <2> QED BY <2>1, <2>6 DEF Live, ExpiresAt
<1>12. ASSUME NEW c \in Asked PROVE Observed(s, c)' = Observed(s, c)
  BY <1>1 DEF Observed, Observations, Counting, Candidates
<1>13. ASSUME NEW c \in Asked
       PROVE  SupportFor(s, c)' = SupportFor(s, c) /\ Stale(s, c)' = Stale(s, c)
  <2>1. CASE Observed(s, c)
    BY <1>11, <1>12, <2>1 DEF SupportFor, Stale
  <2>2. CASE ~Observed(s, c)
    BY <1>12, <2>2 DEF SupportFor, Stale
  <2> QED BY <2>1, <2>2
<1>14. Required \subseteq Asked /\ Preferred \subseteq Asked
  BY DEF Required, Preferred, Asked
<1>15. Verdict(s)' = Verdict(s)
  BY <1>13, <1>14 DEF Verdict
<1>16. Tested(p)' = Tested(p) /\ Liked(p)' = Liked(p)
  BY <1>6, <1>12, <1>13, <1>14 DEF Tested, Liked
<1>17. Placed' = Placed
  BY <1>1, <1>5, <1>6, <1>15, <1>16 DEF Placed, BasisOn
<1>18. CitedNow' = CitedNow
  <2>1. CitedNow' = {r \in store : r.id \in {Observation(s, c)'.id : c \in {d \in Asked : Observed(s, d)'}}}
    BY <1>1, <1>3, <1>5, <1>6 DEF CitedNow
  <2>2. {d \in Asked : Observed(s, d)'} = {d \in Asked : Observed(s, d)}
    BY <1>12
  <2>3. {Observation(s, c)'.id : c \in {d \in Asked : Observed(s, d)}}
          = {Observation(s, c).id : c \in {d \in Asked : Observed(s, d)}}
    BY <1>11
  <2> QED BY <1>7, <2>1, <2>2, <2>3
<1>19. Horizon' = Horizon
  <2>1. PICK e : e = Ends /\ e = Ends'
    BY <1>18 DEF Ends, RecordExpiry, ExpiresAt
  <2>2. e = ends
    BY <2>1 DEF Ends, ends
  <2>3. Horizon = HorizonOf(e, now) /\ Horizon' = HorizonOf(e, now')
    BY <2>1, HorizonIs
  <2> DEFINE first == CHOOSE d \in e : \A x \in e : d <= x
  <2>4. /\ HorizonOf(e, now) = IF e = {} \/ first < now THEN now ELSE first
        /\ HorizonOf(e, now') = IF e = {} \/ first < now' THEN now' ELSE first
    BY DEF HorizonOf
  <2> HIDE DEF first
  <2>5. Horizon \in Nat /\ now' = now + 1 /\ now \in Nat
    BY <1>1, <1>9, <1>10
  <2>6. ~(e = {} \/ first < now)
    <3>1. Horizon # now
      BY <2>5
    <3> QED BY <2>3, <2>4, <3>1
  <2>7. e # {} /\ Horizon = first
    BY <2>3, <2>4, <2>6
  <2> QED BY <2>3, <2>4, <2>5, <2>7
<1> QED BY <1>17, <1>19

(* Nothing else but a new record, a change or a ranking matters to it.     *)
LEMMA RankingRests ==
  ASSUME UNCHANGED <<now, store, installed, catalog>>
  PROVE  Placed' = Placed /\ Horizon' = Horizon
<1>1. ASSUME NEW p PROVE Current(p)' = Current(p)
  BY DEF Current
<1>2. ASSUME NEW s, NEW c PROVE Observation(s, c)' = Observation(s, c) /\ Observed(s, c)' = Observed(s, c)
  <2>1. Observations(s)' = Observations(s)
    BY DEF Observations, Counting, Candidates
  <2>2. PICK S : S = Observations(s) /\ S = Observations(s)'
    BY <2>1
  <2>3. Newest(S, c)' = Newest(S, c)
    BY DEF Newest, Beats, BeatsByTime, Live, ExpiresAt
  <2> QED BY <2>2, <2>3 DEF Observation, Observed
<1>3. ASSUME NEW s, NEW c PROVE SupportFor(s, c)' = SupportFor(s, c) /\ Stale(s, c)' = Stale(s, c)
  BY <1>2 DEF SupportFor, Stale, Live, ExpiresAt
<1>4. ASSUME NEW s PROVE Verdict(s)' = Verdict(s)
  BY <1>3 DEF Verdict
<1>5. ASSUME NEW p PROVE Tested(p)' = Tested(p) /\ Liked(p)' = Liked(p)
  <2>1. PICK s : s = Current(p) /\ s = Current(p)'
    BY <1>1
  <2> QED BY <1>2, <1>3, <2>1 DEF Tested, Liked
<1>6. ASSUME NEW p PROVE Verdict(Current(p))' = Verdict(Current(p))
  <2>1. PICK s : s = Current(p) /\ s = Current(p)'
    BY <1>1
  <2> QED BY <1>4, <2>1
<1>7. BestProtocol' = BestProtocol
  <2>1. ASSUME NEW p, NEW q PROVE Better(p, q)' = Better(p, q)
    BY <1>5, <1>6 DEF Better
  <2> QED BY <2>1 DEF BestProtocol
<1>8. ASSUME NEW p PROVE BasisOn(p)' = BasisOn(p)
  BY <1>5, <1>6 DEF BasisOn
<1>9. PICK b : b = BestProtocol /\ b = BestProtocol'
  BY <1>7
<1>10. Placed' = Placed
  BY <1>5, <1>8, <1>9 DEF Placed
<1>11. CitedNow' = CitedNow
  <2>1. PICK s : s = Current(b) /\ s = Current(b)'
    BY <1>1
  <2> QED BY <1>2, <1>9, <2>1, ZenonT(60) DEF CitedNow
<1>12. Horizon' = Horizon
  <2>1. Ends' = Ends
    BY <1>11 DEF Ends, RecordExpiry, ExpiresAt
  <2> QED BY <2>1, HorizonIs
<1> QED BY <1>10, <1>12

(* A ranking names a day.                                                  *)
LEMMA HorizonIsADay == Typed => Horizon \in Nat
<1> SUFFICES ASSUME Typed PROVE Horizon \in Nat
  OBVIOUS
<1> DEFINE ends == {RecordExpiry(r) : r \in CitedNow}
<1>1. ends \subseteq Nat
  <2>1. CitedNow \subseteq store /\ (CitedNow # {} => Asked # {})
    BY DEF CitedNow
  <2>2. Asked \subseteq Caps
    BY DEF Asked
  <2> QED BY <2>1, <2>2, RecordExpiryIs DEF Typed
<1>2. Horizon = IF ends = {} \/ (CHOOSE d \in ends : \A e \in ends : d <= e) < now THEN now
                ELSE CHOOSE d \in ends : \A e \in ends : d <= e
  BY DEF Horizon
<1> HIDE DEF ends
<1>3. CASE ends = {}
  BY <1>2, <1>3 DEF Typed
<1>4. CASE ends # {}
  <2>1. PICK m \in ends : \A e \in ends : m <= e
    BY <1>1, <1>4, LeastNat
  <2>2. (CHOOSE d \in ends : \A e \in ends : d <= e) \in ends
    BY <2>1
  <2> QED BY <1>1, <1>2, <2>2 DEF Typed
<1> QED BY <1>3, <1>4

(* With one protocol in common a ranking stands until the day it names:    *)
(* until then it is the one that would be computed (recommend, expiresAt). *)
THEOREM RankingsStand == ASSUME OneProtocol PROVE Spec => []RankingStands
<1>1. Init => Standing
  BY DEF Init, Standing
<1>2. Typed /\ Filed /\ Standing /\ [Next]_vars => Standing'
  <2> SUFFICES ASSUME Typed, Filed, Standing, [Next]_vars, ranking' # Nothing
               PROVE  /\ ranking'.until \in Nat
                      /\ now' < ranking'.until => Placed' = ranking'.placed /\ Horizon' = ranking'.until
    BY DEF Standing
  <2>1. CASE Recommend
    BY <2>1, RankingRests, HorizonIsADay DEF Recommend
  <2>2. CASE Tick
    <3>1. ranking' = ranking /\ now' = now + 1 /\ now \in Nat /\ ranking.until \in Nat
      BY <2>2 DEF Tick, Typed, Standing
    <3> SUFFICES ASSUME now + 1 < ranking.until PROVE Placed' = ranking.placed /\ Horizon' = ranking.until
      BY <3>1
    <3>2. now < ranking.until
      BY <3>1
    <3>3. Placed = ranking.placed /\ Horizon = ranking.until
      BY <2>2, <3>1, <3>2 DEF Standing
    <3> QED BY <2>2, <3>3, TickRanking
  <2>3. CASE StartRun \/ StartRefresh \/ Probe \/ UNCHANGED vars
    <3>1. UNCHANGED <<now, store, installed, catalog, ranking>>
      BY <2>3 DEF StartRun, StartRefresh, Probe, vars
    <3> QED BY <3>1, RankingRests DEF Standing
  <2>4. ~(Keep \/ Update \/ Reimplement \/ Offer \/ Place)
    BY DEF Keep, Update, Reimplement, Offer, Place, MayChange
  <2> QED BY <2>1, <2>2, <2>3, <2>4 DEF Next
<1>3. Standing => RankingStands
  BY DEF Standing, RankingStands
<1> QED BY <1>1, <1>2, <1>3, RecordsFiled, PTL DEF Spec

=============================================================================

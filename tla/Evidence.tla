------------------------------- MODULE Evidence -------------------------------
(***************************************************************************)
(* Compatibility evidence: what the capability suite found about an agent  *)
(* and a model, how long it stands, the verdict and the place in a ranking *)
(* computed from it, and the two commands that collect it, compatibility   *)
(* run and compatibility refresh.  One agent and one model are followed.   *)
(* The subject of a record keeps the three fields that change here: the    *)
(* installed version of the agent, the implementation behind the model,    *)
(* and the protocol; the other six identify it in the same way.            *)
(***************************************************************************)
EXTENDS Integers, FiniteSets

CONSTANTS
  Caps,        \* capabilities of the registry
  Level,       \* [Caps -> Levels]: what the scenario requires
  TTL,         \* [Caps -> days a result may stand]
  Versions, Impls, Protocols,
  Findings,    \* what a run of the suite may find, a subset of [Caps -> Support]
  Claims,      \* what a provider may claim, likewise
  Nothing,     \* no job, no ranking, no record
  Within,      \* --within: how far ahead a refresh looks
  Situations,  \* which of the situations below occur
  MaxRecords,  \* bound: records in the store
  MaxNow,      \* bound: days
  MaxChanges   \* bound: updates of the agent and of the model

(* Situations a run includes or leaves out:                                *)
(*  placed      records the suite of this build did not write: claims of   *)
(*              providers, corrections, results of a retired suite         *)
(*  changes     the agent is updated, the model changes its implementation *)

VARIABLES
  now,        \* the clock, in days
  store,      \* the records in the evidence directory
  installed,  \* version of the agent on this machine
  catalog,    \* [impl, changed, offers, serving]: the model in Hub's catalog
  job,        \* the collection under way
  ranking,    \* the last ranking published, while what it was computed from lasts
  changes

vars == <<now, store, installed, catalog, job, ranking, changes>>

Support == {"supported", "partial", "unsupported", "unknown"}
Levels == {"required", "preferred", "optional", "avoided"}
ASSUME EvidenceAssumption ==
  /\ Level \in [Caps -> Levels] /\ TTL \in [Caps -> Nat \ {0}]
  /\ Findings \subseteq [Caps -> Support] /\ Claims \subseteq [Caps -> Support]
  /\ Protocols \subseteq Nat
  /\ MaxRecords \in Nat /\ MaxNow \in Nat /\ Within \in Nat

Subject == [version : Versions, impl : Impls, proto : Protocols]
NoId == 0
Record == [id : 1..MaxRecords, subject : Subject, at : Nat, found : Findings \cup Claims,
           source : {"maintainer-test", "provider-claim"}, suite : {"current", "retired"},
           supersedes : 0..MaxRecords]

-----------------------------------------------------------------------------
(* How long a record stands *)

(* A result stands for the days its capability's definition grants it, the *)
(* record as a whole for as long as the shortest of them.                  *)
ExpiresAt(r, c) == r.at + TTL[c]
(* Mutant: as long as the longest.                                         *)
RecordExpiryLast(r) == CHOOSE d \in {ExpiresAt(r, c) : c \in Caps} : \A c \in Caps : d >= ExpiresAt(r, c)
RecordExpiry(r) == CHOOSE d \in {ExpiresAt(r, c) : c \in Caps} : \A c \in Caps : d <= ExpiresAt(r, c)

(* A result of another major of the suite does not carry over.             *)
Live(r, c) == r.suite = "current" /\ ExpiresAt(r, c) > now

-----------------------------------------------------------------------------
(* The verdict on a subject *)

(* Every field of the subject has to match.                                *)
Candidates(s) == {r \in store : r.subject = s}

(* A record another one of the subject replaces is kept and not counted.   *)
Counting(s) == {r \in Candidates(s) : \A q \in Candidates(s) : q.supersedes # r.id}

(* A claim of the provider is reported beside the tests, never for them.   *)
Observations(s) == {r \in Counting(s) : r.source # "provider-claim"}

(* newest: what stands beats what expired, then the later one wins; the    *)
(* store lists records of one time by descending id, and the first stays.  *)
(* Mutant: the later one wins, also when it is a retired suite's.          *)
BeatsByTime(r, q, c) == r.at > q.at \/ (r.at = q.at /\ r.id >= q.id)
Beats(r, q, c) ==
  \/ Live(r, c) /\ ~Live(q, c)
  \/ Live(r, c) = Live(q, c) /\ BeatsByTime(r, q, c)
Newest(S, c) == CHOOSE r \in S : \A q \in S : Beats(r, q, c)

Observed(s, c) == Observations(s) # {}
Observation(s, c) == Newest(Observations(s), c)
SupportFor(s, c) ==
  IF Observed(s, c) /\ Live(Observation(s, c), c) THEN Observation(s, c).found[c] ELSE "unknown"
Stale(s, c) == Observed(s, c) /\ ~Live(Observation(s, c), c)

Asked == {c \in Caps : Level[c] \in {"required", "preferred"}}
Required == {c \in Caps : Level[c] = "required"}
Preferred == {c \in Caps : Level[c] = "preferred"}
Verdict(s) ==
  IF \E c \in Required : SupportFor(s, c) = "unsupported" THEN "incompatible"
  ELSE IF \E c \in Required : SupportFor(s, c) = "unknown" THEN "unknown"
  ELSE IF \E c \in Asked : SupportFor(s, c) \in {"partial", "unsupported"} THEN "partial"
  ELSE "compatible"

(* One row of the compatibility matrix: the verdict on a subject together  *)
(* with the records it rests on and whether any of them has expired.       *)
MatrixSubjects == {r.subject : r \in store}
RowObservedAt(s) ==
  LET ats == {Observation(s, c).at : c \in {d \in Caps : Observed(s, d)}}
  IN IF ats = {} THEN Nothing ELSE CHOOSE d \in ats : \A e \in ats : d >= e
RowIsStale(s) == \E c \in Caps : Stale(s, c)

-----------------------------------------------------------------------------
(* The place of the model in a ranking *)

Rank == [compatible |-> 0, partial |-> 1, unknown |-> 2, incompatible |-> 3]
Current(p) == [version |-> installed, impl |-> catalog.impl, proto |-> p]
Tested(p) == {c \in Asked : Observed(Current(p), c) /\ ~Stale(Current(p), c)}
Liked(p) == {c \in Preferred : SupportFor(Current(p), c) = "supported"}

(* assess: every protocol both sides speak is judged, and the best answer  *)
(* wins; the protocols' names, here their order, decide ties.              *)
Better(p, q) ==
  LET vp == Rank[Verdict(Current(p))]
      vq == Rank[Verdict(Current(q))]
  IN \/ vp < vq
     \/ vp = vq /\ Cardinality(Liked(p)) > Cardinality(Liked(q))
     \/ vp = vq /\ Cardinality(Liked(p)) = Cardinality(Liked(q)) /\ p <= q
BestProtocol == CHOOSE p \in catalog.offers : \A q \in catalog.offers : Better(p, q)

(* recommend: excluded for what the catalog or the evidence positively     *)
(* says, scored when evidence covers everything required, and otherwise    *)
(* left at its place in the catalog.                                       *)
BasisOn(p) ==
  IF Verdict(Current(p)) = "incompatible" THEN "excluded"
  ELSE IF Tested(p) = {} \/ Verdict(Current(p)) = "unknown" THEN "catalog-order" ELSE "evidence"
Placed ==
  IF catalog.offers = {} \/ ~catalog.serving THEN [basis |-> "excluded", liked |-> {}]
  ELSE LET p == BestProtocol
       IN [basis |-> BasisOn(p), liked |-> IF BasisOn(p) = "evidence" THEN Liked(p) ELSE {}]

(* horizon: a ranking stands until the first record it cites expires, and  *)
(* one that cites nothing until it was made.                               *)
CitedNow ==
  IF catalog.offers = {} \/ ~catalog.serving THEN {}
  ELSE {r \in store : r.id \in {Observation(Current(BestProtocol), c).id :
                                  c \in {d \in Asked : Observed(Current(BestProtocol), d)}}}
Horizon ==
  LET ends == {RecordExpiry(r) : r \in CitedNow}
      first == CHOOSE d \in ends : \A e \in ends : d <= e
  IN IF ends = {} \/ first < now THEN now ELSE first

-----------------------------------------------------------------------------
(* Collecting *)

(* What refresh finds due: a row with an expired result or one that will   *)
(* have expired in a few days, and a row whose model is no longer the one  *)
(* that was tested.                                                        *)
DueAt(s) ==
  LET ends == {ExpiresAt(Observation(s, c), c) : c \in {d \in Caps : Observed(s, d)}}
  IN IF ends = {} THEN Nothing ELSE CHOOSE d \in ends : \A e \in ends : d <= e
TtlDue(s) == RowIsStale(s) \/ (DueAt(s) # Nothing /\ DueAt(s) <= now + Within)
ImplementationChanged(s) ==
  \/ s.impl # catalog.impl
  \/ catalog.changed # Nothing /\ RowObservedAt(s) # Nothing /\ catalog.changed > RowObservedAt(s)
Due(s) == TtlDue(s) \/ ImplementationChanged(s)

(* A subject is collected again for what is installed and offered today;   *)
(* one whose protocol is gone, or whose model does not serve, is skipped.  *)
Ready(s) == catalog.serving /\ s.proto \in catalog.offers
PlanEntry(s) == [origin |-> s, target |-> Current(s.proto)]
Plan == {PlanEntry(s) : s \in {d \in MatrixSubjects : Due(d) /\ Ready(d)}}

Job == [cmd : {"run", "refresh"}, todo : SUBSET [origin : Subject, target : Subject],
        entry : [origin : Subject, target : Subject] \cup {Nothing},
        found : Findings \cup {Nothing}]

StartRun ==
  /\ job = Nothing
  /\ catalog.serving
  /\ \E p \in catalog.offers :
       job' = [cmd |-> "run", todo |-> {[origin |-> Current(p), target |-> Current(p)]},
               entry |-> Nothing, found |-> Nothing]
  /\ UNCHANGED <<now, store, installed, catalog, ranking, changes>>

StartRefresh ==
  /\ job = Nothing /\ Plan # {}
  /\ job' = [cmd |-> "refresh", todo |-> Plan, entry |-> Nothing, found |-> Nothing]
  /\ UNCHANGED <<now, store, installed, catalog, ranking, changes>>

(* The suite runs on a credential of its own against whatever serves the   *)
(* model at that time.  A subject that fails (no credential, a call that   *)
(* throws) is reported and the next one taken.                             *)
Drop(e) ==
  IF job.todo = {e} THEN Nothing
  ELSE [job EXCEPT !.todo = @ \ {e}, !.entry = Nothing, !.found = Nothing]
Probe ==
  /\ job # Nothing /\ job.found = Nothing
  /\ \E e \in job.todo :
       \/ \E f \in Findings : job' = [job EXCEPT !.entry = e, !.found = f]
       \/ job' = Drop(e)
  /\ UNCHANGED <<now, store, installed, catalog, ranking, changes>>

(* The record names the subject as planned and the time of writing.  Its   *)
(* id is a hash of its content: the same content is the same record, and   *)
(* nothing else about the number is known.                                 *)
FreeIds == {i \in 1..MaxRecords : \A r \in store : r.id # i}
Content(r) == [r EXCEPT !.id = 1]
Keep ==
  /\ job # Nothing /\ job.found # Nothing
  /\ \E i \in 1..MaxRecords :
       LET r == [id |-> i, subject |-> job.entry.target, at |-> now, found |-> job.found,
                 source |-> "maintainer-test", suite |-> "current", supersedes |-> NoId]
       IN IF \E q \in store : Content(q) = Content(r) THEN store' = store
          ELSE i \in FreeIds /\ store' = store \cup {r}
  /\ job' = Drop(job.entry) /\ ranking' = Nothing
  /\ UNCHANGED <<now, installed, catalog, changes>>

(* recommend, from the records on hand.                                    *)
Recommend ==
  /\ job = Nothing
  /\ ranking' = [placed |-> Placed, until |-> Horizon]
  /\ UNCHANGED <<now, store, installed, catalog, job, changes>>

-----------------------------------------------------------------------------
(* The environment *)

Tick ==
  /\ now < MaxNow /\ now' = now + 1
  /\ UNCHANGED <<store, installed, catalog, job, ranking, changes>>

(* The agent is updated, or Hub changes what serves the model, possibly    *)
(* back to an earlier implementation.                                      *)
MayChange ==
  /\ "changes" \in Situations /\ changes < MaxChanges /\ changes' = changes + 1
  /\ ranking' = Nothing
Update ==
  /\ MayChange
  /\ installed' \in Versions \ {installed}
  /\ UNCHANGED <<now, store, catalog, job>>
Reimplement ==
  /\ MayChange
  /\ \E i \in Impls \ {catalog.impl} : catalog' = [catalog EXCEPT !.impl = i, !.changed = now]
  /\ UNCHANGED <<now, store, installed, job>>
Offer ==
  /\ MayChange
  /\ \E ps \in SUBSET Protocols, on \in BOOLEAN :
       catalog' = [catalog EXCEPT !.offers = ps, !.serving = on]
  /\ catalog' # catalog
  /\ UNCHANGED <<now, store, installed, job>>

(* A file another build or another person wrote.  It is a valid record, or *)
(* the store refuses to list at all.                                       *)
Place ==
  /\ "placed" \in Situations /\ job = Nothing
  /\ \E i \in FreeIds, p \in Protocols, back \in {NoId} \cup {r.id : r \in store} :
       \/ \E f \in Claims :
            store' = store \cup {[id |-> i, subject |-> Current(p), at |-> now, found |-> f,
              source |-> "provider-claim", suite |-> "current", supersedes |-> back]}
       \/ \E f \in Findings, t \in {"current", "retired"} :
            /\ back # NoId \/ t = "retired"
            /\ store' = store \cup {[id |-> i, subject |-> Current(p), at |-> now, found |-> f,
                 source |-> "maintainer-test", suite |-> t, supersedes |-> back]}
  /\ ranking' = Nothing
  /\ UNCHANGED <<now, installed, catalog, job, changes>>

-----------------------------------------------------------------------------
Init ==
  /\ now = 0 /\ store = {} /\ job = Nothing /\ ranking = Nothing /\ changes = 0
  /\ installed \in Versions
  /\ \E i \in Impls :
       catalog = [impl |-> i, changed |-> Nothing, offers |-> Protocols, serving |-> TRUE]

Next ==
  \/ StartRun \/ StartRefresh \/ Probe \/ Keep \/ Recommend
  \/ Tick \/ Update \/ Reimplement \/ Offer \/ Place

Spec == Init /\ [][Next]_vars

-----------------------------------------------------------------------------
(* Properties *)

(* A test that stands: of exactly this subject, made by the suite of this  *)
(* build, not expired, and not corrected by another record.                *)
Stands(r, s, c) ==
  /\ r.subject = s /\ r.source = "maintainer-test" /\ r.suite = "current"
  /\ now < r.at + TTL[c]
  /\ \A q \in store : q.subject = s => q.supersedes # r.id

(* Whatever else lies in the store (claims, retired suites, corrections,   *)
(* records of other versions and implementations), compatible means that   *)
(* every required capability has a test that stands and passed, and        *)
(* incompatible that one has a test that stands and failed; and what       *)
(* stands is heard: while the latest standing test of a required           *)
(* capability failed, no other record makes the subject anything better    *)
(* than incompatible (computeVerdict).                                     *)
VerdictIsEarned ==
  \A s \in MatrixSubjects :
    /\ Verdict(s) = "compatible" =>
         \A c \in Required : \E r \in store : Stands(r, s, c) /\ r.found[c] = "supported"
    /\ Verdict(s) = "incompatible" =>
         \E c \in Required : \E r \in store : Stands(r, s, c) /\ r.found[c] = "unsupported"
    /\ \A c \in Required, r \in store :
         /\ Stands(r, s, c) /\ r.found[c] = "unsupported"
         /\ \A q \in store : Stands(q, s, c) => q.at < r.at \/ q = r
         => Verdict(s) = "incompatible"

(* A ranking that still claims to stand is the one that would be computed  *)
(* now from the same records, catalog and agent (recommend, expiresAt).    *)
(* It is so where agent and model have one protocol in common; with more   *)
(* it names the day of the best protocol's records only.                   *)
RankingStands ==
  ranking # Nothing /\ now < ranking.until => Placed = ranking.placed
=============================================================================

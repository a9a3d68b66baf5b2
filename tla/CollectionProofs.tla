--------------------------- MODULE CollectionProofs ---------------------------
(***************************************************************************)
(* What one collection of evidence does whatever the protocol, the number  *)
(* of attempts and the unusual things that happen: how its requests are    *)
(* accounted for, what becomes of its credential, and that the verdict it  *)
(* reports is the one its outcomes give.                                   *)
(***************************************************************************)
EXTENDS Collection, FiniteSetTheorems, TLAPS

Names == {"minimal", "rejected", "streamed", "cancelled", "invalid", "tool", "forced", "structured"}
Early == {"issue", "probe", "revoke"}
Late == {"ask", "wait", "write", "done"}
Booked == UNION {books[s] : s \in Told}

CollectionTypeOK ==
  /\ at \in Early \cup Late \cup {"failed"}
  /\ cred \in {"none", "live", "revoked", "left"}
  /\ {threw, deadline} \subseteq BOOLEAN
  /\ round \in 0..Attempts /\ unusual \in 0..MaxUnusual
  /\ asked \subseteq Names /\ open \subseteq Names /\ books \in [Told -> SUBSET Names]

(* The suite stops at the request it throws at, or after the last one.     *)
FirstOf(n) == {Probes[i] : i \in 1..n}
Sent == Cardinality(DOMAIN answers)
InOrder ==
  /\ IsFiniteSet(DOMAIN answers) /\ Sent \in 0..8 /\ DOMAIN answers = FirstOf(Sent)
  /\ at = "issue" => Sent = 0
  /\ at = "probe" => Sent < 8
  /\ at \in Late \cup {"revoke"} => threw \/ Sent = 8
  /\ threw => at \in {"revoke", "failed"}

(* What was to be asked for is still to be, open, or in one of the books.  *)
Partition ==
  /\ asked \cap open = {} /\ (asked \cup open) \cap Booked = {}
  /\ \A s, t \in Told : s # t => books[s] \cap books[t] = {}
  /\ at \in Early => asked = {} /\ open = {} /\ Booked = {}
  /\ at \in Late => asked \cup open \cup Booked = ToAsk
  /\ at \in Late \ {"ask"} => asked = {}
  /\ billed = Cardinality(books.settled)
  /\ at \in Early => round = 0
  /\ at \in {"ask", "wait"} => round < Attempts

(* The credential of the collection.                                       *)
CredentialOf ==
  /\ at = "issue" => cred = "none"
  /\ at \in {"probe", "revoke"} => cred = "live"
  /\ at \in Late \cup {"failed"} => cred # "live"

IInv == CollectionTypeOK /\ InOrder /\ Partition /\ CredentialOf

-----------------------------------------------------------------------------
(* The eight requests, and how they follow each other.                     *)
LEMMA ProbesAre ==
  /\ DOMAIN Probes = 1..8 /\ Len(Probes) = 8
  /\ Last(Probes) = "structured"
  /\ ToSet(Probes) = Names
<1>1. DOMAIN Probes = 1..8 /\ Len(Probes) = 8
  BY DEF Probes
<1>2. Last(Probes) = "structured"
  BY <1>1 DEF Last, Probes
<1>3. ToSet(Probes) = {Probes[i] : i \in 1..8}
  BY <1>1 DEF ToSet
<1> QED BY <1>1, <1>2, <1>3 DEF Probes, Names

(* After n of them the next one is the (n+1)st, a new one.                 *)
LEMMA NextProbe ==
  ASSUME NEW n \in 0..7
  PROVE  /\ Probes[n + 1] \in Names /\ Probes[n + 1] \notin FirstOf(n)
         /\ FirstOf(n) \cup {Probes[n + 1]} = FirstOf(n + 1)
         /\ Probes[n + 1] = "structured" <=> n = 7
<1>1. \A i, j \in 1..8 : Probes[i] = Probes[j] => i = j
  BY DEF Probes
<1>2. \A i \in 1..8 : Probes[i] \in Names /\ (Probes[i] = "structured" <=> i = 8)
  BY DEF Probes, Names
<1>3. n + 1 \in 1..8 /\ 1..(n + 1) = 1..n \cup {n + 1} /\ 1..n \subseteq 1..8 /\ n + 1 \notin 1..n
  OBVIOUS
<1>4. \A i \in 1..n : Probes[i] # Probes[n + 1]
  BY <1>1, <1>3
<1>5. FirstOf(n) \cup {Probes[n + 1]} = FirstOf(n + 1)
  <2>1. \A p : p \in FirstOf(n + 1) <=> p \in FirstOf(n) \/ p = Probes[n + 1]
    BY <1>3 DEF FirstOf
  <2> QED BY <2>1
<1>6. n + 1 = 8 <=> n = 7
  OBVIOUS
<1>7. Probes[n + 1] \notin FirstOf(n)
  BY <1>4 DEF FirstOf
<1> QED BY <1>2, <1>3, <1>5, <1>6, <1>7

(* A set of positions has a first one.                                     *)
LEMMA LeastOf ==
  ASSUME NEW S, S \subseteq 1..9, S # {}
  PROVE  \E i \in S : \A j \in 1..9 : j < i => j \notin S
<1>1. \E i \in 1..9 : i \in S
  OBVIOUS
<1>2. 1 \in S \/ 2 \in S \/ 3 \in S \/ 4 \in S \/ 5 \in S \/ 6 \in S \/ 7 \in S \/ 8 \in S \/ 9 \in S
  BY <1>1
<1>3. CASE 1 \in S \/ 2 \in S \/ 3 \in S
  BY <1>3
<1>4. CASE 1 \notin S /\ 2 \notin S /\ 3 \notin S /\ (4 \in S \/ 5 \in S \/ 6 \in S)
  BY <1>4
<1>5. CASE 1 \notin S /\ 2 \notin S /\ 3 \notin S /\ 4 \notin S /\ 5 \notin S /\ 6 \notin S
  BY <1>2, <1>5
<1> QED BY <1>2, <1>3, <1>4, <1>5

(* First names a member of every set of requests.                          *)
LEMMA FirstIsOneOfThem ==
  ASSUME NEW rs, rs \subseteq Names, rs # {}
  PROVE  First(rs) \in rs
<1>1. \A i \in 1..8 : i \in DOMAIN Probes
  BY ProbesAre
<1> DEFINE Is == {i \in 1..8 : Probes[i] \in rs}
<1>2. PICK k \in Is : \A j \in Is : k <= j
  <2>1. \E k \in 1..8 : k \in Is
    <3>1. PICK p \in rs : p \in ToSet(Probes)
      BY ProbesAre
    <3> QED BY <3>1, ProbesAre DEF ToSet
  <2>2. Is \subseteq 1..9 /\ Is \subseteq 1..8
    OBVIOUS
  <2> HIDE DEF Is
  <2>3. PICK k \in Is : \A j \in 1..9 : j < k => j \notin Is
    BY <2>1, <2>2, LeastOf
  <2> QED BY <2>2, <2>3
<1>3. \A i, j \in 1..8 : Probes[i] = Probes[j] => i = j
  BY DEF Probes
<1>4. \A i, j \in DOMAIN Probes : Probes[i] = Probes[k] /\ Probes[j] \in rs => i <= j
  BY <1>2, <1>3, ProbesAre
<1> QED BY <1>2, <1>4 DEF First

-----------------------------------------------------------------------------
(* The books are finite, and what is added to one is counted once.         *)
LEMMA BooksCount ==
  ASSUME NEW s, s \subseteq Names, NEW r
  PROVE  /\ IsFiniteSet(s) /\ Cardinality(s) \in Nat
         /\ r \notin s => Cardinality(s \cup {r}) = Cardinality(s) + 1
<1>1. IsFiniteSet(Names)
  <2>1. /\ Names = {Probes[i] : i \in 1..8}
        /\ Probes \in [1..8 -> Names]
    BY DEF Names, Probes
  <2>2. Probes \in Surjection(1..8, Names)
    BY <2>1 DEF Surjection
  <2>3. 1 \in Int /\ 8 \in Int
    OBVIOUS
  <2>4. IsFiniteSet(1..8)
    BY <2>3, FS_Interval, Zenon
  <2> HIDE DEF Names
  <2> QED BY <2>2, <2>4, FS_Surjection
<1> QED BY <1>1, FS_Subset, FS_CardinalityType, FS_AddElement

(* A collection starts with nothing asked for.                             *)
LEMMA Initially == Init => IInv
<1> SUFFICES ASSUME Init PROVE IInv
  OBVIOUS
<1>1. CollectionTypeOK
  <2>1. 0 \in 0..Attempts /\ 0 \in 0..MaxUnusual
    BY CollectionAssumption
  <2> QED BY <2>1 DEF Init, CollectionTypeOK, Early
<1>2. InOrder
  <2>1. DOMAIN answers = {}
    BY DEF Init
  <2>2. FirstOf(0) = {}
    BY DEF FirstOf
  <2> QED BY <2>1, <2>2, FS_EmptySet DEF Init, InOrder, Sent, Late
<1>3. Partition
  BY CollectionAssumption, FS_EmptySet DEF Init, Partition, Booked, Told, Late, Early
<1> QED BY <1>1, <1>2, <1>3 DEF IInv, CredentialOf, Init, Late


-----------------------------------------------------------------------------
(* An unusual answer is counted within its bound.                          *)
LEMMA UnusualStays == ASSUME IInv, Odd \/ Even PROVE unusual' \in 0..MaxUnusual
BY CollectionAssumption DEF IInv, CollectionTypeOK, Odd, Even

(* One lemma an action: the suite,                                         *)
LEMMA IssueKeeps == ASSUME IInv, Issue PROVE IInv'
<1> USE DEF IInv, Issue
<1>1. CollectionTypeOK'
  BY CollectionAssumption DEF CollectionTypeOK, Odd, Even, Early
<1>2. InOrder'
  BY DEF InOrder, Sent, Late
<1>3. Partition'
  BY CollectionAssumption DEF Partition, Booked, Early, Late
<1> QED BY <1>1, <1>2, <1>3 DEF CredentialOf, Late

(* a request of it, which is answered or not: the next in order;           *)
LEMMA ProbeKeeps == ASSUME IInv, Probe PROVE IInv'
<1> DEFINE n == Sent
<1>1. /\ n \in 0..7 /\ Next1 = Probes[n + 1] /\ DOMAIN answers = FirstOf(n)
      /\ IsFiniteSet(DOMAIN answers) /\ n = Cardinality(DOMAIN answers) /\ at = "probe" /\ ~threw
  BY DEF IInv, InOrder, Sent, Probe, Next1
<1>2. /\ DOMAIN answers' = DOMAIN answers \cup {Next1}
      /\ Odd \/ Even
  BY DEF Probe, AnswerFrom
<1>3. /\ Next1 \notin DOMAIN answers
      /\ DOMAIN answers' = FirstOf(n + 1)
      /\ Next1 = Last(Probes) <=> n = 7
  BY <1>1, <1>2, NextProbe, ProbesAre
<1>4. IsFiniteSet(DOMAIN answers') /\ Cardinality(DOMAIN answers') = n + 1
  <2> HIDE DEF n
  <2>1. /\ IsFiniteSet(DOMAIN answers \cup {Next1})
        /\ Cardinality(DOMAIN answers \cup {Next1}) = Cardinality(DOMAIN answers) + 1
    BY <1>1, <1>3, FS_AddElement, Zenon
  <2> QED BY <1>1, <1>2, <2>1
<1>5. threw' \in BOOLEAN
  BY DEF Probe, Throws
<1>6. CollectionTypeOK'
  <2>1. unusual' \in 0..MaxUnusual
    BY <1>2, UnusualStays
  <2> QED BY <1>5, <2>1 DEF IInv, CollectionTypeOK, Probe, Early
<1>7. InOrder'
  <2>1. at' = IF threw' \/ n = 7 THEN "revoke" ELSE "probe"
    BY <1>3 DEF Probe
  <2>2. Sent' = n + 1
    BY <1>4 DEF Sent
  <2> HIDE DEF n
  <2> QED BY <1>1, <1>3, <1>4, <2>1, <2>2 DEF InOrder, Late
<1>8. at \in Early /\ at' \in Early
  BY DEF Probe, Early
<1> QED BY <1>6, <1>7, <1>8 DEF IInv, Probe, Partition, Booked, CredentialOf, Late, Early

(* the credential is taken back, and what is to be asked for is known.     *)
LEMMA RevokeKeeps == ASSUME IInv, Revoke PROVE IInv'
<1>1. ToAsk \subseteq Names
  <2>1. DOMAIN answers \subseteq Names
    BY ProbesAre DEF IInv, InOrder, FirstOf, Names, Probes
  <2> QED BY <2>1 DEF ToAsk, Attributed
<1>2. CollectionTypeOK'
  <2>1. unusual' \in 0..MaxUnusual
    BY UnusualStays DEF Revoke
  <2> QED BY <1>1, <2>1 DEF IInv, CollectionTypeOK, Revoke, Early, Late
<1>3. InOrder'
  BY DEF IInv, Revoke, InOrder, Sent, Late
<1>4. Partition'
  <2>1. /\ open = {} /\ Booked = {} /\ open' = {} /\ Booked' = {} /\ asked' = ToAsk /\ ToAsk' = ToAsk
        /\ at' \notin Early /\ at' # "wait" /\ (at' \in Late \ {"ask"} => ToAsk = {}) /\ round' = 0
    BY DEF IInv, Partition, Booked, Early, Late, Revoke, ToAsk, Attributed, Edge, PreAuth
  <2>2. (round' < Attempts) /\ billed' = Cardinality(books'.settled)
    BY CollectionAssumption DEF IInv, Partition, Revoke, Early
  <2>3. \A s, t \in Told : s # t => books'[s] \cap books'[t] = {}
    BY DEF IInv, Partition, Revoke
  <2> QED BY <2>1, <2>2, <2>3 DEF Partition
<1> QED BY <1>2, <1>3, <1>4 DEF IInv, CredentialOf, Revoke, Late, Early

(* Hub is asked about one request: it moves to the open ones or to a book. *)
LEMMA AskKeeps == ASSUME IInv, Ask PROVE IInv'
<1> DEFINE r == First(asked)
<1>1. r \in asked /\ r \in Names /\ r \notin open /\ r \notin Booked
  BY FirstIsOneOfThem DEF IInv, CollectionTypeOK, Partition, Ask
<1>2. /\ asked' = asked \ {r} /\ (Odd \/ Even) /\ UNCHANGED <<at, cred, answers, threw, round, deadline>>
      /\ \/ open' = open \cup {r} /\ books' = books
         \/ open' = open /\ \E s \in Told : books' = [books EXCEPT ![s] = books[s] \cup {r}]
  BY DEF Ask, TakeNote, Told
<1>3. billed' = billed + (Cardinality(books'.settled) - Cardinality(books.settled))
  BY DEF Ask
<1>4. at = "ask" /\ UNCHANGED ToAsk
  BY <1>2 DEF Ask, ToAsk, Attributed, Edge, PreAuth
<1> HIDE DEF r
<1>5. books \in [Told -> SUBSET Names]
  BY DEF IInv, CollectionTypeOK
<1>6. books' \in [Told -> SUBSET Names]
  BY <1>1, <1>2, <1>5
<1>7. CollectionTypeOK'
  <2>1. unusual' \in 0..MaxUnusual
    BY <1>2, UnusualStays
  <2> QED BY <1>1, <1>2, <1>6, <2>1 DEF IInv, CollectionTypeOK
<1>8. InOrder'
  BY <1>2 DEF IInv, InOrder, Sent
<1>9. billed' = Cardinality(books'.settled)
  <2>1. "settled" \in Told
    BY DEF Told
  <2>2. Cardinality(books'.settled) \in Nat /\ Cardinality(books.settled) \in Nat
    BY <1>5, <1>6, <2>1, BooksCount
  <2> QED BY <1>3, <2>2 DEF IInv, Partition
<1>10. (asked \cup open \cup Booked)' = asked \cup open \cup Booked
  BY <1>1, <1>2, <1>5 DEF Booked
<1>11. asked' \cap open' = {} /\ (asked' \cup open') \cap Booked' = {}
  BY <1>1, <1>2, <1>5 DEF Booked, IInv, Partition
<1>12. \A s, t \in Told : s # t => books'[s] \cap books'[t] = {}
  <2>1. \A s \in Told : r \notin books[s]
    BY <1>1 DEF Booked
  <2> QED BY <1>2, <1>5, <2>1 DEF IInv, Partition
<1>13. Partition'
  BY <1>2, <1>4, <1>9, <1>10, <1>11, <1>12 DEF IInv, Partition, Early, Late
<1> QED BY <1>2, <1>7, <1>8, <1>13 DEF IInv, CredentialOf

(* The end of an attempt, the wait before the next, the record: the books  *)
(* are as they were.                                                       *)
LEMMA RoundKeeps == ASSUME IInv, EndOfRound \/ Wait PROVE IInv'
<1>1. CollectionTypeOK'
  <2>1. CASE EndOfRound
    <3>1. round + 1 \in 0..Attempts
      BY <2>1, CollectionAssumption DEF EndOfRound, IInv, Partition, CollectionTypeOK
    <3> QED BY <2>1, <3>1 DEF EndOfRound, IInv, CollectionTypeOK, Late
  <2>2. CASE Wait
    BY <2>2 DEF Wait, IInv, CollectionTypeOK, Late
  <2> QED BY <2>1, <2>2
<1>2. InOrder'
  BY DEF EndOfRound, Wait, IInv, InOrder, Sent, Late
<1>3. UNCHANGED <<ToAsk, Booked>>
  BY DEF EndOfRound, Wait, ToAsk, Attributed, Edge, PreAuth, Booked
<1>4. Partition'
  <2>1. CASE EndOfRound
    BY <1>1, <1>3, <2>1, CollectionAssumption
       DEF EndOfRound, Exhausted, IInv, Partition, CollectionTypeOK, Early, Late
  <2>2. CASE Wait
    BY <1>3, <2>2 DEF Wait, IInv, Partition, Early, Late
  <2> QED BY <2>1, <2>2
<1> QED BY <1>1, <1>2, <1>4 DEF IInv, CredentialOf, EndOfRound, Wait, Late

(* The record is written, or the write fails.                              *)
LEMMA WriteKeeps == ASSUME IInv, Write PROVE IInv'
<1>1. CollectionTypeOK'
  <2>1. unusual' \in 0..MaxUnusual
    BY UnusualStays DEF Write
  <2> QED BY <2>1 DEF IInv, CollectionTypeOK, Write, Late
<1>2. InOrder' /\ UNCHANGED <<ToAsk, Booked>>
  BY DEF Write, IInv, InOrder, Sent, Late, ToAsk, Attributed, Edge, PreAuth, Booked
<1>3. Partition'
  BY <1>2 DEF Write, IInv, Partition, Early, Late
<1> QED BY <1>1, <1>2, <1>3 DEF IInv, CredentialOf, Write, Late

(* The deadline passes, or nothing happens.                                *)
LEMMA ExpireKeeps == ASSUME IInv, Expire \/ UNCHANGED vars PROVE IInv'
<1>1. /\ UNCHANGED <<at, cred, answers, threw, round, asked, open, books, billed>>
      /\ deadline' \in BOOLEAN /\ (Odd \/ Even)
  BY DEF Expire, vars, Even, IInv, CollectionTypeOK
<1>2. UNCHANGED <<ToAsk, Booked>>
  BY <1>1 DEF ToAsk, Attributed, Edge, PreAuth, Booked
<1>3. unusual' \in 0..MaxUnusual
  BY <1>1, UnusualStays
<1> QED BY <1>1, <1>2, <1>3 DEF IInv, CollectionTypeOK, InOrder, Sent, Partition, CredentialOf

-----------------------------------------------------------------------------
(* The inductive invariant holds, however long Hub takes to settle.        *)
THEOREM CollectionInvariant == Spec => []IInv
<1>1. IInv /\ [Next]_vars => IInv'
  BY IssueKeeps, ProbeKeeps, RevokeKeeps, AskKeeps, RoundKeeps, WriteKeeps, ExpireKeeps DEF Next, Step
<1> QED BY <1>1, Initially, PTL DEF Spec

(* Every request the endpoint put a name to is accounted for exactly once  *)
(* when the record is written, and what is billed is what Hub settled      *)
(* (collectEvidence, its reconciliation).                                  *)
THEOREM EveryRequestAccounted == Spec => []RequestsAreAccounted
<1>1. IInv => RequestsAreAccounted
  <2> SUFFICES ASSUME IInv, at = "done" PROVE RequestsAreAccounted
    BY DEF RequestsAreAccounted
  <2> DEFINE parts == <<books.settled, books.notBillable, books.unsettleable, open, Edge, PreAuth>>
  <2>1. /\ books.settled \cup books.notBillable \cup books.unsettleable = Booked
        /\ open \cup Booked = ToAsk /\ open \cap Booked = {}
        /\ \A s, t \in Told : s # t => books[s] \cap books[t] = {}
    BY DEF Booked, Told, IInv, Partition, Late
  <2>2. ToSet(parts) = {books.settled, books.notBillable, books.unsettleable, open, Edge, PreAuth}
    <3>1. ToSet(parts) = {parts[i] : i \in 1..6}
      BY DEF ToSet
    <3> QED BY <3>1
  <2>3. UNION ToSet(parts) = ToAsk \cup Edge \cup PreAuth
    <3> HIDE DEF parts
    <3> QED BY <2>1, <2>2
  <2>4. /\ ToAsk \cup Edge \cup PreAuth = Attributed
        /\ ToAsk \cap Edge = {} /\ ToAsk \cap PreAuth = {} /\ Edge \cap PreAuth = {}
        /\ "rejected" \notin ToAsk
    BY DEF ToAsk, Edge, PreAuth
  <2>5. {"settled", "notBillable", "unsettleable"} = Told
    BY DEF Told
  <2>6. \A i, j \in 1..6 : i # j => parts[i] \cap parts[j] = {}
    <3>1. /\ books.settled \cap books.notBillable = {} /\ books.settled \cap books.unsettleable = {}
          /\ books.notBillable \cap books.unsettleable = {}
      BY <2>1, <2>5
    <3>2. \A x \in {books.settled, books.notBillable, books.unsettleable, open} : x \subseteq ToAsk
      BY <2>1
    <3> QED BY <2>1, <2>4, <3>1, <3>2
  <2>7. "rejected" \notin open \cup UNION {books[s] : s \in Told}
    BY <2>1, <2>4 DEF Booked
  <2>8. DOMAIN parts = 1..6
    OBVIOUS
  <2>9. billed = Cardinality(books.settled)
    BY DEF IInv, Partition
  <2>10. UNION ToSet(parts) = Attributed
    BY <2>3, <2>4
  <2> QED BY <2>6, <2>7, <2>8, <2>9, <2>10 DEF RequestsAreAccounted
<1> QED BY <1>1, CollectionInvariant, PTL

(* The credential of a collection is never left alive by one that has      *)
(* ended: it is revoked, or the one call that was to revoke it failed      *)
(* (collectEvidence, finally).                                             *)
CredentialTakenBack == at \in {"done", "failed"} => cred # "live"
THEOREM NoCredentialLeft == Spec => []CredentialTakenBack
<1>1. IInv => CredentialTakenBack
  BY DEF IInv, CredentialOf, CredentialTakenBack, Late
<1> QED BY <1>1, CollectionInvariant, PTL

-----------------------------------------------------------------------------
Capabilities ==
  {"endpoint-reachable", "model-id-mapping", "non-streaming", "streaming-order", "cancellation",
   "error-semantics", "single-tool-call", "forced-tool-choice", "structured-output"}
(* The nine capabilities in their order; the first one is required.        *)
LEMMA RegistryIs ==
  /\ DOMAIN Registry = 1..9 /\ ToSet(Registry) = Capabilities
  /\ \A i, j \in 1..9 : Registry[i] = Registry[j] => i = j
  /\ Registry[1] = "endpoint-reachable" /\ "endpoint-reachable" \in RequiredCaps
  /\ RequiredCaps \subseteq Capabilities
<1>1. DOMAIN Registry = 1..9
  BY DEF Registry
<1>2. ToSet(Registry) = {Registry[i] : i \in 1..9}
  BY <1>1 DEF ToSet
<1>3. ToSet(Registry) = Capabilities
  BY <1>2 DEF Registry, Capabilities
<1> QED BY <1>1, <1>3 DEF Registry, RequiredCaps, Capabilities

(* What is graded is never unknown, and no capability is, but for the      *)
(* mapping of model ids, which is only when the endpoint was not reached.  *)
LEMMA OnlyMappingUnknown ==
  ASSUME NEW as, NEW c \in Capabilities
  PROVE  /\ DOMAIN Outcomes(as) = Capabilities
         /\ Outcomes(as)[c] \in {"unsupported", "supported", "partial", "unknown"}
         /\ Outcomes(as)[c] = "unknown" => Outcomes(as)["endpoint-reachable"] = "unsupported"
<1> DEFINE Grades == {"unsupported", "supported", "partial"}
<1>1. \A ok, whole, partly : Graded(ok, whole, partly) \in Grades
  BY DEF Graded
<1>2. DOMAIN Outcomes(as) = Capabilities
  BY RegistryIs DEF Outcomes
<1>3. Outcomes(as)["endpoint-reachable"] = EndpointReachable(as)
  BY RegistryIs DEF Outcomes, Capabilities
<1>4. CASE c = "model-id-mapping"
  <2>1. Outcomes(as)[c] = ModelIdMapping(as)
    BY <1>4, RegistryIs DEF Outcomes, Capabilities
  <2>2. CASE ~Succeeds("minimal", as["minimal"])
    BY <1>2, <1>3, <2>1, <2>2 DEF ModelIdMapping, EndpointReachable, Graded
  <2>3. CASE Succeeds("minimal", as["minimal"])
    BY <1>1, <1>2, <2>1, <2>3 DEF ModelIdMapping
  <2> QED BY <2>2, <2>3
<1>5. CASE c # "model-id-mapping"
  <2>1. Outcomes(as)[c] \in
          {EndpointReachable(as), NonStreaming(as), StreamingOrder(as), Cancellation(as), ErrorSemantics(as),
           SingleToolCall(as), ForcedToolChoice(as), StructuredOutput(as)}
    BY <1>5, RegistryIs DEF Outcomes, Capabilities
  <2>2. {EndpointReachable(as), NonStreaming(as), StreamingOrder(as), Cancellation(as), ErrorSemantics(as),
           SingleToolCall(as), ForcedToolChoice(as), StructuredOutput(as)} \subseteq Grades
    <3> HIDE DEF Grades
    <3>1. EndpointReachable(as) \in Grades /\ NonStreaming(as) \in Grades
      BY <1>1, ZenonT(30) DEF EndpointReachable, NonStreaming
    <3>2. StreamingOrder(as) \in Grades
      BY <1>1, Zenon DEF StreamingOrder
    <3>3. Cancellation(as) \in Grades
      BY <1>1 DEF Cancellation, Grades
    <3>4. ErrorSemantics(as) \in Grades
      BY DEF ErrorSemantics, Graded, Grades
    <3>5. SingleToolCall(as) \in Grades /\ ForcedToolChoice(as) \in Grades /\ StructuredOutput(as) \in Grades
      BY <1>1, Zenon DEF SingleToolCall, ForcedToolChoice, StructuredOutput
    <3> QED BY <3>1, <3>2, <3>3, <3>4, <3>5
  <2> QED BY <1>2, <2>1, <2>2
<1> QED BY <1>4, <1>5

(* The run's verdict looks at the capabilities one after the other and     *)
(* stops at the first required one that decides.  That is the verdict      *)
(* computed over all of them: an unknown is never the first to decide.     *)
LEMMA VerdictsCoincide ==
  ASSUME NEW os, DOMAIN os = Capabilities,
         \A c \in Capabilities : os[c] = "unknown" => os["endpoint-reachable"] = "unsupported"
  PROVE  RunVerdict(os) = VerdictOn(os)
<1> DEFINE first == {i \in DOMAIN Registry : Decides(os, i) /\ \A j \in 1..(i - 1) : ~Decides(os, j)}
<1>1. CASE os["endpoint-reachable"] = "unsupported"
  <2>1. Decides(os, 1) /\ 1 \in first
    BY <1>1, RegistryIs DEF Decides
  <2>2. RunVerdict(os) = "incompatible"
    BY <1>1, <2>1, RegistryIs DEF RunVerdict
  <2> QED BY <1>1, <2>2, RegistryIs DEF VerdictOn
<1>2. CASE os["endpoint-reachable"] # "unsupported"
  <2>1. \A c \in Capabilities : os[c] # "unknown"
    BY <1>2
  <2>2. CASE \E c \in RequiredCaps : os[c] = "unsupported"
    <3>1. \E i \in 1..9 : Decides(os, i)
      <4>1. PICK c \in RequiredCaps : os[c] = "unsupported"
        BY <2>2
      <4>2. PICK i \in 1..9 : Registry[i] = c
        BY <4>1, RegistryIs DEF ToSet
      <4> QED BY <4>1, <4>2 DEF Decides
    <3>2. \E i \in first : TRUE
      <4> DEFINE ds == {i \in 1..9 : Decides(os, i)}
      <4>1. ds \subseteq 1..9 /\ ds # {}
        BY <3>1
      <4> HIDE DEF ds
      <4>2. PICK i \in ds : \A j \in 1..9 : j < i => j \notin ds
        BY <4>1, LeastOf
      <4>3. i \in 1..9 /\ \A j \in 1..(i - 1) : j \in 1..9 /\ j < i
        BY <4>1
      <4>4. Decides(os, i) /\ \A j \in 1..(i - 1) : ~Decides(os, j)
        BY <4>2, <4>3 DEF ds
      <4> QED BY <4>3, <4>4, RegistryIs
    <3>3. \A i \in first : os[Registry[i]] = "unsupported"
      BY <2>1, RegistryIs DEF Decides
    <3>4. RunVerdict(os) = "incompatible"
      BY <3>2, <3>3 DEF RunVerdict
    <3> QED BY <2>2, <3>4 DEF VerdictOn
  <2>3. CASE ~\E c \in RequiredCaps : os[c] = "unsupported"
    <3>1. \A i \in DOMAIN Registry : ~Decides(os, i)
      BY <2>1, <2>3, RegistryIs DEF Decides
    <3>2. RunVerdict(os) = IF \E c \in DOMAIN os : os[c] \in {"partial", "unsupported"} THEN "partial" ELSE "verified"
      BY <3>1 DEF RunVerdict
    <3> QED BY <2>1, <2>3, <3>2, RegistryIs DEF VerdictOn
  <2> QED BY <2>2, <2>3
<1> QED BY <1>1, <1>2

(* The verdict of a record on its own run is the one computed from its     *)
(* outcomes, whatever the endpoint answered (runVerdict, computeVerdict).  *)
THEOREM VerdictsAgree == Spec => []RunVerdictAgrees
<1>1. RunVerdict(Outcomes(answers)) = VerdictOn(Outcomes(answers))
  <2>1. "endpoint-reachable" \in Capabilities
    BY DEF Capabilities
  <2> QED BY <2>1, OnlyMappingUnknown, VerdictsCoincide
<1>2. RunVerdictAgrees
  BY <1>1 DEF RunVerdictAgrees
<1> QED BY <1>2, PTL

-----------------------------------------------------------------------------
(* What a model that keeps to its protocol answers to each request.        *)
LEMMA UsualAnswers ==
  /\ Usual("minimal") = Whole("minimal", 200, {"shape", "usage", "model", "mapped"}, "own")
  /\ Usual("rejected") = Whole("rejected", 401, {}, "own")
  /\ \A p \in Streams : Usual(p) = Whole(p, 200, {}, "own")
  /\ Usual("invalid") = Whole("invalid", 400, {"error"}, "own")
  /\ \A p \in {"tool", "forced"} : Usual(p) = Whole(p, 200, {"call", "city"}, "own")
  /\ Usual("structured") = Whole("structured", 200, {"value", "fields"}, "own")
<1>1. /\ BodyOf("minimal") = minimalBody(FALSE)
      /\ BodyOf("streamed") = minimalBody(TRUE)
      /\ BodyOf("cancelled") = longerStreamBody
      /\ BodyOf("invalid") = invalidBody
      /\ BodyOf("tool") = toolBody
      /\ BodyOf("forced") = forcedToolBody
      /\ BodyOf("structured") = structuredBody
  BY DEF BodyOf
<1>2. Usual("minimal") = Whole("minimal", 200, {"shape", "usage", "model", "mapped"}, "own")
  BY <1>1 DEF Usual, CanFill, Facts, minimalBody, Asking
<1>3. Usual("rejected") = Whole("rejected", 401, {}, "own")
  BY DEF Usual
<1>4. \A p \in Streams : Usual(p) = Whole(p, 200, {}, "own")
  BY <1>1 DEF Usual, Facts, minimalBody, longerStreamBody, Asking, Streams
<1>5. Usual("invalid") = Whole("invalid", 400, {"error"}, "own")
  BY <1>1 DEF Usual, invalidBody, Asking
<1>6. \A p \in {"tool", "forced"} : Usual(p) = Whole(p, 200, {"call", "city"}, "own")
  <2>1. /\ toolBody.tool # "none" /\ ~(toolBody.ceiling < 0) /\ ~CanFill(toolBody)
        /\ forcedToolBody.tool # "none" /\ ~(forcedToolBody.ceiling < 0) /\ ~CanFill(forcedToolBody)
    BY DEF toolBody, forcedToolBody, Asking, CanFill
  <2>2. Facts("tool") = {"call", "city"} /\ Facts("forced") = {"call", "city"}
    BY DEF Facts
  <2> HIDE DEF toolBody, forcedToolBody
  <2>3. Usual("tool") = Whole("tool", 200, {"call", "city"}, "own")
    BY <1>1, <2>1, <2>2 DEF Usual
  <2>4. Usual("forced") = Whole("forced", 200, {"call", "city"}, "own")
    BY <1>1, <2>1, <2>2 DEF Usual
  <2> QED BY <2>3, <2>4
<1>7. Usual("structured") = Whole("structured", 200, {"value", "fields"}, "own")
  <2>1. CanFill(structuredBody) /\ ~(structuredBody.ceiling < 0)
    BY DEF CanFill, structuredBody, Asking
  <2> HIDE DEF structuredBody
  <2> QED BY <1>1, <2>1 DEF Usual, Facts
<1> QED BY <1>2, <1>3, <1>4, <1>5, <1>6, <1>7

(* A collection that comes to its record has asked everything; a model     *)
(* that keeps to its protocol is then found to support every capability.   *)
THEOREM ConformingPasses == Spec => []ConformingModelPasses
<1>1. IInv => ConformingModelPasses
  <2> SUFFICES ASSUME IInv, at = "done", \A p \in DOMAIN answers : answers[p] = Usual(p)
               PROVE  \A c \in ToSet(Registry) : Outcomes(answers)[c] = "supported"
    BY DEF ConformingModelPasses
  <2>1. DOMAIN answers = Names
    <3>1. DOMAIN answers = FirstOf(8)
      BY DEF IInv, InOrder, Late
    <3> QED BY <3>1 DEF FirstOf, Probes, Names
  <2>2. \A p \in Names : answers[p] = Usual(p)
    BY <2>1
  <2>3. /\ answers["minimal"] = Whole("minimal", 200, {"shape", "usage", "model", "mapped"}, "own")
        /\ answers["rejected"] = Whole("rejected", 401, {}, "own")
        /\ answers["streamed"] = Whole("streamed", 200, {}, "own")
        /\ answers["cancelled"] = Whole("cancelled", 200, {}, "own")
        /\ answers["invalid"] = Whole("invalid", 400, {"error"}, "own")
        /\ answers["tool"] = Whole("tool", 200, {"call", "city"}, "own")
        /\ answers["forced"] = Whole("forced", 200, {"call", "city"}, "own")
        /\ answers["structured"] = Whole("structured", 200, {"value", "fields"}, "own")
    BY <2>2, UsualAnswers DEF Names, Streams
  <2>4. \A p \in Names : \A facts : Succeeds(p, Whole(p, 200, facts, "own"))
    BY DEF Succeeds, BreaksOff, Ok, Whole
  <2>5. EndpointReachable(answers) = "supported"
    BY <2>3, <2>4 DEF EndpointReachable, Graded, Whole, Names
  <2>6. ModelIdMapping(answers) = "supported"
    BY <2>3, <2>4 DEF ModelIdMapping, Graded, Whole, Names
  <2>7. NonStreaming(answers) = "supported"
    BY <2>3, <2>4 DEF NonStreaming, Graded, Whole, Names
  <2>8. StreamingOrder(answers) = "supported"
    <3>1. answers["streamed"].events = <<"first", "frame", "last">>
      BY <2>3 DEF Whole, Frames, Streams
    <3>2. Succeeds("streamed", answers["streamed"])
      BY <2>3, <2>4 DEF Names
    <3> QED BY <3>1, <3>2 DEF StreamingOrder, Graded, Last
  <2>9. Cancellation(answers) = "supported"
    BY <2>3 DEF Cancellation, EnoughToAbort, Ok, Whole, Frames, Streams
  <2>10. ErrorSemantics(answers) = "supported"
    BY <2>3 DEF ErrorSemantics, Graded, Whole
  <2>11. SingleToolCall(answers) = "supported"
    BY <2>3, <2>4 DEF SingleToolCall, Graded, Whole, Names
  <2>12. ForcedToolChoice(answers) = "supported"
    BY <2>3, <2>4 DEF ForcedToolChoice, Graded, Whole, Names
  <2>13. StructuredOutput(answers) = "supported"
    BY <2>3, <2>4 DEF StructuredOutput, Graded, Whole, Names
  <2> QED BY <2>5, <2>6, <2>7, <2>8, <2>9, <2>10, <2>11, <2>12, <2>13, RegistryIs
          DEF Outcomes, Capabilities
<1> QED BY <1>1, CollectionInvariant, PTL

=============================================================================

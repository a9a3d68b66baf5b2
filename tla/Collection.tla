------------------------------ MODULE Collection ------------------------------
(***************************************************************************)
(* One collection of evidence, collectEvidence: a credential is issued for *)
(* it, the suite runs, the credential is taken back, Hub is asked what     *)
(* each request cost, and a record is written.  Whatever the endpoint, Hub *)
(* and the disk do is an environment that is unusual a bounded number of   *)
(* times.                                                                  *)
(***************************************************************************)
EXTENDS CapabilitySuite

CONSTANTS
  Attempts,   \* how often Hub is asked for what is not settled
  MaxUnusual  \* bound: unusual answers and failing calls

VARIABLES
  at,        \* issue, probe, revoke, ask, wait, write, done, failed
  cred,      \* none, live, revoked, left (the call to revoke it failed)
  answers,   \* what the endpoint answered, by probe
  threw,     \* the suite threw
  round,     \* attempts made to reconcile
  asked,     \* requests of this attempt still to be asked for
  open,      \* requests found unsettled in this attempt
  books,     \* [settled, notBillable, unsettleable]: requests by what Hub said
  billed,    \* what is reported as billed, one unit a request
  deadline,  \* the operation's deadline has passed
  unusual

vars == <<at, cred, answers, threw, round, asked, open, books, billed, deadline, unusual>>

ASSUME CollectionAssumption == Attempts \in Nat \ {0} /\ MaxUnusual \in Nat

Next1 == Probes[Cardinality(DOMAIN answers) + 1]
Odd == unusual < MaxUnusual /\ unusual' = unusual + 1
Even == unusual' = unusual

Issue ==
  /\ at = "issue"
  /\ \/ Even /\ at' = "probe" /\ cred' = "live"
     \/ Odd /\ at' = "failed" /\ cred' = "none"
  /\ UNCHANGED <<answers, threw, round, asked, open, books, billed, deadline>>

(* The suite sends its requests one after the other.  After the deadline   *)
(* none is answered.                                                       *)
AnswerFrom(p) ==
  \E a \in Unusual(p) \cup {Usual(p)} :
    /\ \/ deadline /\ Even /\ a = Lost
       \/ ~deadline /\ Even /\ a = Usual(p)
       \/ ~deadline /\ Odd /\ a \in Unusual(p)
    /\ answers' = [q \in DOMAIN answers \cup {p} |-> IF q = p THEN a ELSE answers[q]]
Probe ==
  /\ at = "probe"
  /\ AnswerFrom(Next1)
  /\ threw' = Throws(Next1, answers'[Next1])
  /\ at' = IF threw' \/ Next1 = Last(Probes) THEN "revoke" ELSE "probe"
  /\ UNCHANGED <<cred, round, asked, open, books, billed, deadline>>

(* Attributed requests: the ids of the gateway in front of Hub and the one *)
(* of the refused credential are in no ledger and not asked for.           *)
(* Mutant: the refused one is asked for as well.                           *)
Attributed == {p \in DOMAIN answers : answers[p].id # "none"}
Edge == {p \in Attributed : answers[p].id = "edge"}
PreAuth == (Attributed \ Edge) \cap {"rejected"}
ToAskAll == Attributed \ Edge
ToAsk == Attributed \ (Edge \cup PreAuth)

(* The finally block: the credential is revoked whatever the suite found,  *)
(* on a deadline of its own, and a failing call is ignored.                *)
(* Mutant: only when it did not throw.                                     *)
RevokeUnlessThrown ==
  /\ at = "revoke"
  /\ IF threw THEN Even /\ cred' = cred
     ELSE \/ Even /\ cred' = "revoked"
          \/ Odd /\ cred' = "left"
  /\ at' = IF threw THEN "failed" ELSE IF ToAsk = {} THEN "write" ELSE "ask"
  /\ asked' = ToAsk
  /\ UNCHANGED <<answers, threw, round, open, books, billed, deadline>>
Revoke ==
  /\ at = "revoke"
  /\ \/ Even /\ cred' = "revoked"
     \/ Odd /\ cred' = "left"
  /\ at' = IF threw THEN "failed" ELSE IF ToAsk = {} THEN "write" ELSE "ask"
  /\ asked' = ToAsk
  /\ UNCHANGED <<answers, threw, round, open, books, billed, deadline>>

(* Hub's answer about a request: settled, no charge, not able to settle,   *)
(* or not yet; a call that fails counts as not yet.  Hub settles requests  *)
(* in their order, a while after it answered them; another order is        *)
(* unusual.                                                                *)
Told == {"settled", "notBillable", "unsettleable"}
TakeNote(r, status) == books' = [books EXCEPT ![status] = @ \cup {r}]

(* The round is over when every request of it was asked for; what is open  *)
(* then is asked for again, up to three times.                             *)
First(rs) == CHOOSE r \in rs : \A i, j \in DOMAIN Probes : Probes[i] = r /\ Probes[j] \in rs => i <= j
Ask ==
  /\ at = "ask" /\ asked # {}
  /\ LET r == First(asked) IN
       /\ \/ /\ ~deadline /\ Even
             /\ \/ /\ open = {} /\ open' = open
                   /\ TakeNote(r, IF r = "invalid" THEN "notBillable" ELSE "settled")
                \/ books' = books /\ open' = open \cup {r}
          \/ /\ ~deadline /\ Odd
             /\ \/ \E s \in Told : TakeNote(r, s) /\ open' = open
                \/ books' = books /\ open' = open \cup {r}
          \/ deadline /\ Even /\ books' = books /\ open' = open \cup {r}
       /\ asked' = asked \ {r}
  /\ billed' = billed + (Cardinality(books'.settled) - Cardinality(books.settled))
  /\ UNCHANGED <<at, cred, answers, threw, round, deadline>>

Exhausted(n) == n >= Attempts
EndOfRound ==
  /\ at = "ask" /\ asked = {}
  /\ round' = round + 1
  /\ at' = IF open # {} /\ ~Exhausted(round') THEN "wait" ELSE "write"
  /\ UNCHANGED <<cred, answers, threw, asked, open, books, billed, deadline, unusual>>

(* The wait between two attempts is cut short by the deadline, and then    *)
(* everything is given up.                                                 *)
Wait ==
  /\ at = "wait"
  /\ at' = IF deadline THEN "failed" ELSE "ask"
  /\ asked' = open /\ open' = {}
  /\ UNCHANGED <<cred, answers, threw, round, books, billed, deadline, unusual>>

Write ==
  /\ at = "write"
  /\ \/ Even /\ at' = "done"
     \/ Odd /\ at' = "failed"
  /\ UNCHANGED <<cred, answers, threw, round, asked, open, books, billed, deadline>>

Expire ==
  /\ ~deadline /\ at \in {"probe", "ask", "wait"} /\ Odd /\ deadline' = TRUE
  /\ UNCHANGED <<at, cred, answers, threw, round, asked, open, books, billed>>

-----------------------------------------------------------------------------
Init ==
  /\ at = "issue" /\ cred = "none" /\ answers = <<>> /\ threw = FALSE /\ round = 0
  /\ asked = {} /\ open = {} /\ books = [s \in Told |-> {}] /\ billed = 0
  /\ deadline = FALSE /\ unusual = 0

Step == Issue \/ Probe \/ Revoke \/ Ask \/ EndOfRound \/ Wait \/ Write
Next == Step \/ Expire

(* Each call is awaited with a time limit, so a step under way is taken.   *)
Spec == Init /\ [][Next]_vars /\ WF_vars(Step)

-----------------------------------------------------------------------------
(* Properties *)

(* Every request the endpoint put a name to is accounted for exactly once  *)
(* when the record is written: settled and billed, not billable, unable to *)
(* settle, still open, failed at the edge, or refused before it reached an *)
(* account; and nothing is reported as billed that Hub has not settled.    *)
RequestsAreAccounted ==
  at = "done" =>
    LET parts == <<books.settled, books.notBillable, books.unsettleable, open, Edge, PreAuth>>
    IN /\ UNION ToSet(parts) = Attributed
       /\ \A i, j \in DOMAIN parts : i # j => parts[i] \cap parts[j] = {}
       /\ "rejected" \notin open \cup UNION {books[s] : s \in Told}
       /\ billed = Cardinality(books.settled)

(* The verdict a record carries on its own run agrees with the one         *)
(* computeVerdict would give on that record alone, though it looks at the  *)
(* capabilities one after the other and stops (runVerdict).                *)
VerdictOn(os) ==
  IF \E c \in RequiredCaps : os[c] = "unsupported" THEN "incompatible"
  ELSE IF \E c \in RequiredCaps : os[c] = "unknown" THEN "unknown"
  ELSE IF \E c \in ToSet(Registry) : os[c] \in {"partial", "unsupported"} THEN "partial"
  ELSE "verified"
RunVerdictAgrees == at = "done" => RunVerdict(Outcomes(answers)) = VerdictOn(Outcomes(answers))

(* A model that keeps to its protocol is found to support everything:      *)
(* the eight requests ask for what their outcomes are read from            *)
(* (runCapabilitySuite).                                                   *)
ConformingModelPasses ==
  at = "done" /\ (\A p \in DOMAIN answers : answers[p] = Usual(p)) =>
    \A c \in ToSet(Registry) : Outcomes(answers)[c] = "supported"

(* A collection comes to an end, with a record or with an error, and when  *)
(* it has its credential is gone, or the one call that was to revoke it    *)
(* failed (collectEvidence, finally).                                      *)
CollectionEnds == <>(at \in {"done", "failed"} /\ cred # "live")
=============================================================================

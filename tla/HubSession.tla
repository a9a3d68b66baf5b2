------------------------------ MODULE HubSession ------------------------------
(***************************************************************************)
(* The session of one profile with Apexnova AI Hub: HubSessionService over *)
(* HubOAuthClient and HubSessionStore.  Hub hands out a family of refresh  *)
(* tokens per login, rotates the token with each refresh, and revokes the  *)
(* whole family when a token comes back that was rotated before            *)
(* (docs/hub-authentication.md).  Any number of calls of a process may ask *)
(* for an access token at the same time; processes know of each other only *)
(* by what is stored.                                                      *)
(***************************************************************************)
EXTENDS Integers, FiniteSets

CONSTANTS
  Procs, Calls,
  ProcOf,        \* [Calls -> Procs]
  Signers,       \* calls that may be a login or a logout: commands of their own
  None,          \* no session; no call in this slot
  Intervals,     \* polling intervals the device endpoint may ask for
  SlowDown,      \* 5 s in the code
  BackoffCap,    \* 60 s in the code
  DeviceLife,    \* lifetime of a device code
  MaxFamilies,   \* bound: logins Hub grants
  MaxSerial,     \* bound: rotations within a family
  MaxStarts,     \* bound: calls started
  MaxMishaps     \* bound: failing calls, lost answers, deaths

ASSUME ProcOfAssumption == ProcOf \in [Calls -> Procs] /\ Signers \subseteq Calls
ASSUME TimesAssumption ==
  Intervals \subseteq Nat \ {0} /\ SlowDown \in Nat \ {0} /\ BackoffCap \in Nat \ {0}
ASSUME BoundsAssumption ==
  {DeviceLife, MaxFamilies, MaxStarts, MaxMishaps} \subseteq Nat /\ MaxSerial \in Nat \ {0}

VARIABLES
  hub,        \* [Families -> [status, serial]]: what Hub knows of each family
  session,    \* the stored session
  refreshing, \* [Procs -> Calls \cup {None}]: the refresh the others wait for
  call,       \* [Calls -> Call \cup {None}]: step and locals of each call
  signedOut,  \* history: a logout has ended and no login since
  excused,    \* history: families a mishap, a race or a second login left behind
  unrevoked,  \* history: families whose revocation Hub did not confirm
  starts, mishaps

vars == <<hub, session, refreshing, call, signedOut, excused, unrevoked, starts, mishaps>>
history == <<signedOut, excused, unrevoked>>

Families == 1..MaxFamilies
NoToken == 0          \* a session without a refresh token
Session == [fam : Families, serial : NoToken..MaxSerial, fresh : BOOLEAN]
Stages == {"decide", "joined", "reload", "send", "save", "sleep", "poll", "keep", "revoke", "delete"}
(* token: the session as loaded, or the tokens received and not yet stored *)
Call == [at : Stages, token : Session \cup {None}, leader : Calls \cup {None},
         interval : Nat, left : 0..DeviceLife, demanded : Nat, used : BOOLEAN]
ASSUME NoneAssumption == None \notin Calls /\ None \notin Session /\ None \notin Call

TypeOK ==
  /\ hub \in [Families -> [status : {"unborn", "live", "revoked"}, serial : 0..MaxSerial]]
  /\ session \in Session \cup {None}
  /\ refreshing \in [Procs -> Calls \cup {None}]
  /\ call \in [Calls -> Call \cup {None}]
  /\ \A c \in Calls : call[c] # None /\ call[c].at \in {"send", "save", "keep", "revoke"} =>
       call[c].token # None
  /\ signedOut \in BOOLEAN /\ excused \cup unrevoked \subseteq Families
  /\ starts \in 0..MaxStarts /\ mishaps \in 0..MaxMishaps

Init ==
  /\ hub = [f \in Families |-> [status |-> "unborn", serial |-> 0]]
  /\ session = None /\ refreshing = [p \in Procs |-> None]
  /\ call = [c \in Calls |-> None]
  /\ signedOut = FALSE /\ excused = {} /\ unrevoked = {} /\ starts = 0 /\ mishaps = 0

-----------------------------------------------------------------------------
At(c, stage) == call[c] # None /\ call[c].at = stage
Goto(c, stage) == call' = [call EXCEPT ![c].at = stage]
GotoWith(c, stage, s) == call' = [call EXCEPT ![c] = [@ EXCEPT !.at = stage, !.token = s]]
End(c) == call' = [call EXCEPT ![c] = None]
Fine == UNCHANGED mishaps
Mishap == mishaps < MaxMishaps /\ mishaps' = mishaps + 1
Blank == [at |-> "decide", token |-> None, leader |-> None, interval |-> 0, left |-> 0,
          demanded |-> 0, used |-> FALSE]
(* A command of the CLI is a process; its login or logout is all it does,  *)
(* and the user does not log in and out at once.                           *)
MayStart(c) ==
  /\ call[c] = None /\ starts < MaxStarts
  /\ \A d \in Calls : call[d] # None /\ ProcOf[d] = ProcOf[c] => {c, d} \cap Signers = {}
  /\ c \in Signers => \A d \in Signers : call[d] = None
Excuse(s) == excused' = IF s = None THEN excused ELSE excused \cup {s.fam}
(* The session is loaded while another process works on its tokens.        *)
Raced(c) ==
  session # None /\ \E d \in Calls :
    /\ ProcOf[d] # ProcOf[c] /\ call[d] # None /\ call[d].token # None
    /\ call[d].token.fam = session.fam /\ call[d].at \in {"send", "save", "revoke", "delete"}
ExcuseRace(c) == excused' = IF Raced(c) THEN excused \cup {session.fam} ELSE excused

-----------------------------------------------------------------------------
(* accessToken *)

(* The session is loaded; without one, or with an access token that is     *)
(* still good for a minute, nothing changes.                               *)
CallAccess(c) ==
  /\ MayStart(c) /\ c \notin Signers
  /\ session # None /\ ~session.fresh
  /\ call' = [call EXCEPT ![c] = [Blank EXCEPT !.token = session]]
  /\ starts' = starts + 1
  /\ UNCHANGED <<hub, session, refreshing, history, mishaps>>

(* refresh: who finds one of its process under way waits for its result.   *)
(* The mutant always begins one of its own.                                *)
AlwaysLead(c) == TRUE
Leads(c) == refreshing[ProcOf[c]] = None
Decide(c) ==
  /\ At(c, "decide")
  /\ IF Leads(c)
     THEN /\ refreshing' = [refreshing EXCEPT ![ProcOf[c]] = c]
          /\ GotoWith(c, "reload", None)
     ELSE /\ call' = [call EXCEPT ![c] = [@ EXCEPT !.at = "joined", !.token = None,
                                                   !.leader = refreshing[ProcOf[c]]]]
          /\ UNCHANGED refreshing
  /\ UNCHANGED <<hub, session, history, starts, mishaps>>

(* The promise settles: everyone waiting for it returns, and the map is    *)
(* cleared whether it resolved or not.  The mutant clears it on success.   *)
Waiting(c) == {d \in Calls : call[d] # None /\ call[d].leader = c}
Settle(c) ==
  /\ call' = [d \in Calls |-> IF d = c \/ d \in Waiting(c) THEN None ELSE call[d]]
  /\ refreshing' = [refreshing EXCEPT ![ProcOf[c]] = None]
FailUncleared(c) == End(c) /\ UNCHANGED refreshing
Fail(c) == Settle(c)

(* refreshOnce loads the session again: a logout may have been faster.     *)
(* The mutant does not look what it has loaded.                            *)
LoadsBlindly(c) == GotoWith(c, "send", session) /\ UNCHANGED refreshing
LoadsChecked(c) ==
  IF session = None \/ session.serial = NoToken THEN Fail(c) ELSE LoadsBlindly(c)
Reload(c) ==
  /\ At(c, "reload")
  /\ LoadsChecked(c)
  /\ ExcuseRace(c)
  /\ UNCHANGED <<hub, session, signedOut, unrevoked, starts, mishaps>>

(* POST of the refresh token.  Hub rotates it or answers without a new     *)
(* one (then the old one is kept: parseTokens); it refuses a family it has *)
(* revoked, and revokes the family of a token rotated before.              *)
parseTokens(s, rotated) == IF rotated THEN [s EXCEPT !.serial = @ + 1] ELSE s
Answered(c, s) == GotoWith(c, "save", [s EXCEPT !.fresh = TRUE]) /\ UNCHANGED refreshing
Send(c) ==
  /\ At(c, "send")
  /\ LET s == call[c].token
         known == hub[s.fam].status = "live"
         newer == parseTokens(s, TRUE)
         rotated == [hub EXCEPT ![s.fam].serial = newer.serial]
     IN \/ /\ known /\ s.serial = hub[s.fam].serial /\ s.serial < MaxSerial
           /\ hub' = rotated
           /\ \/ Answered(c, newer) /\ Fine /\ UNCHANGED excused
              \/ Fail(c) /\ Mishap /\ Excuse(s)
        \/ /\ known /\ s.serial = hub[s.fam].serial
           /\ Answered(c, parseTokens(s, FALSE)) /\ Fine
           /\ UNCHANGED <<hub, excused>>
        \/ /\ ~known /\ Fail(c) /\ Fine
           /\ UNCHANGED <<hub, excused>>
        \/ /\ known /\ s.serial < hub[s.fam].serial /\ Fine
           /\ hub' = [hub EXCEPT ![s.fam].status = "revoked"] /\ Fail(c)
           /\ UNCHANGED excused
        \/ /\ Fail(c) /\ Mishap                     \* Hub was not reached
           /\ UNCHANGED <<hub, excused>>
  /\ UNCHANGED <<session, signedOut, unrevoked, starts>>

Save(c) ==
  /\ At(c, "save")
  /\ Settle(c)
  /\ \/ /\ session' = call[c].token /\ Fine
        /\ IF session # None /\ session.fam # call[c].token.fam THEN Excuse(session)
           ELSE UNCHANGED excused
     \/ Mishap /\ Excuse(call[c].token) /\ UNCHANGED session
  /\ UNCHANGED <<hub, signedOut, unrevoked, starts>>

-----------------------------------------------------------------------------
(* login *)

(* Discovery and the device authorization; if they fail nothing changes.   *)
StartLogin(c) ==
  /\ MayStart(c) /\ c \in Signers
  /\ starts' = starts + 1
  /\ \E i \in Intervals :
       call' = [call EXCEPT ![c] =
         [Blank EXCEPT !.at = "sleep", !.interval = i, !.demanded = i, !.left = DeviceLife]]
  /\ UNCHANGED <<hub, session, refreshing, history, mishaps>>

(* waitForDeviceAuthorization: sleep, then look at the clock, then ask.    *)
Sleep(c) ==
  /\ At(c, "sleep")
  /\ LET left == call[c].left - call[c].interval IN
       IF left > 0
       THEN call' = [call EXCEPT ![c] = [@ EXCEPT !.at = "poll", !.left = left]]
       ELSE End(c)
  /\ UNCHANGED <<hub, session, refreshing, history, starts, mishaps>>

(* The mutant forgets slow_down after one poll.                            *)
Forgetful(i) == i
Slower(i) == i + SlowDown
Backoff(i) == IF 2 * i < BackoffCap THEN 2 * i ELSE BackoffCap
Born == CHOOSE f \in Families : hub[f].status = "unborn"
Granted == [hub EXCEPT ![Born] = [status |-> "live", serial |-> 1]]
Sleeping(c, i, d) ==
  call' = [call EXCEPT ![c] = [@ EXCEPT !.at = "sleep", !.interval = i, !.demanded = d]]
(* One poll: not yet, slower, granted, refused, not reached, or granted    *)
(* while the answer is lost: the device code is then used up.              *)
Poll(c) ==
  /\ At(c, "poll")
  /\ LET t == call[c] IN
     \/ /\ ~t.used /\ Fine /\ Sleeping(c, t.interval, t.demanded)
        /\ UNCHANGED <<hub, excused>>
     \/ /\ ~t.used /\ Fine /\ Sleeping(c, Slower(t.interval), t.demanded + SlowDown)
        /\ UNCHANGED <<hub, excused>>
     \/ /\ ~t.used /\ Fine /\ \E f \in Families : hub[f].status = "unborn"
        /\ hub' = Granted
        /\ GotoWith(c, "keep", [fam |-> Born, serial |-> 1, fresh |-> TRUE])
        /\ UNCHANGED excused
     \/ /\ Fine /\ End(c)
        /\ UNCHANGED <<hub, excused>>
     \/ /\ Mishap /\ Sleeping(c, Backoff(t.interval), t.demanded)
        /\ UNCHANGED <<hub, excused>>
     \/ /\ ~t.used /\ Mishap /\ \E f \in Families : hub[f].status = "unborn"
        /\ hub' = Granted /\ excused' = excused \cup {Born}
        /\ call' = [call EXCEPT ![c] = [@ EXCEPT !.at = "sleep", !.interval = Backoff(t.interval), !.used = TRUE]]
  /\ UNCHANGED <<session, refreshing, signedOut, unrevoked, starts>>

(* The tokens are stored over whatever session there was: nobody revokes   *)
(* the family of that one.                                                 *)
Keep(c) ==
  /\ At(c, "keep") /\ End(c)
  /\ \/ session' = call[c].token /\ signedOut' = FALSE /\ Fine /\ Excuse(session)
     \/ Mishap /\ Excuse(call[c].token) /\ UNCHANGED <<session, signedOut>>
  /\ UNCHANGED <<hub, refreshing, unrevoked, starts>>

-----------------------------------------------------------------------------
(* logout *)

(* The mutant deletes first, and then has no token to revoke.              *)
LoadsDeleted == None
LogoutLoads == session
StartLogout(c) ==
  /\ MayStart(c) /\ c \in Signers
  /\ starts' = starts + 1
  /\ call' = [call EXCEPT ![c] =
       [Blank EXCEPT !.at = IF LogoutLoads = None THEN "delete" ELSE "revoke", !.token = LogoutLoads]]
  /\ ExcuseRace(c)
  /\ UNCHANGED <<hub, session, refreshing, signedOut, unrevoked, mishaps>>

(* Revocation is best effort: whatever becomes of it, the session goes.    *)
(* The mutant gives up when Hub cannot be reached.                         *)
GivesUp(c) == End(c)
GoesOn(c) == Goto(c, "delete")
Revoke(c) ==
  /\ At(c, "revoke")
  /\ \/ /\ Fine /\ Goto(c, "delete")
        /\ hub' = [hub EXCEPT ![call[c].token.fam].status = "revoked"]
        /\ UNCHANGED unrevoked
     \/ /\ Mishap /\ GoesOn(c)
        /\ hub' \in {hub, [hub EXCEPT ![call[c].token.fam].status = "revoked"]}
        /\ unrevoked' = unrevoked \cup {call[c].token.fam}
  /\ signedOut' = TRUE
  /\ UNCHANGED <<session, refreshing, excused, starts>>

Delete(c) ==
  /\ At(c, "delete") /\ End(c)
  /\ \/ /\ session' = None /\ signedOut' = TRUE /\ Fine
        /\ UNCHANGED excused
     \/ Mishap /\ Excuse(session) /\ UNCHANGED <<session, signedOut>>
  /\ UNCHANGED <<hub, refreshing, unrevoked, starts>>

-----------------------------------------------------------------------------
(* Access tokens run out; a process dies with all its calls.               *)
Expire ==
  /\ session # None /\ session.fresh
  /\ session' = [session EXCEPT !.fresh = FALSE]
  /\ UNCHANGED <<hub, refreshing, call, history, starts, mishaps>>

Crash(p) ==
  LET mine == {c \in Calls : ProcOf[c] = p /\ call[c] # None} IN
  /\ mine # {} /\ Mishap
  /\ call' = [c \in Calls |-> IF c \in mine THEN None ELSE call[c]]
  /\ refreshing' = [refreshing EXCEPT ![p] = None]
  /\ excused' = excused \cup {call[c].token.fam : c \in {d \in mine : call[d].token # None}}
  /\ UNCHANGED <<hub, session, signedOut, unrevoked, starts>>

Step(c) ==
  \/ Decide(c) \/ Reload(c) \/ Send(c) \/ Save(c) \/ Sleep(c) \/ Poll(c) \/ Keep(c)
  \/ Revoke(c) \/ Delete(c)
Next ==
  \/ \E c \in Calls : Step(c) \/ CallAccess(c) \/ StartLogin(c) \/ StartLogout(c)
  \/ Expire \/ \E p \in Procs : Crash(p)

(* A request ends by its timeout, a sleep by the clock.                    *)
Spec == Init /\ [][Next]_vars /\ \A c \in Calls : WF_vars(Step(c))

-----------------------------------------------------------------------------
(* Properties *)

InHand == {call[c].token.fam : c \in {d \in Calls : call[d] # None /\ call[d].token # None}}

(* The stored session can be refreshed as long as no answer was lost, no   *)
(* store failed, no process died and no other process refreshed at the     *)
(* same time: any number of calls of one process keep it so, although Hub  *)
(* kills the session when a token is sent twice (refresh, #refreshes).     *)
SessionIsUsable ==
  session # None /\ session.fam \notin excused \cup InHand =>
    hub[session.fam] = [status |-> "live", serial |-> session.serial]

(* Every family Hub still honours is the stored one, in the hands of a     *)
(* call, or left behind by a mishap, a race or a second login.             *)
NothingForgotten ==
  \A f \in Families :
    hub[f].status = "live" =>
      f \in excused \cup unrevoked \cup InHand \/ (session # None /\ session.fam = f)

(* After a logout no session is stored, whether Hub was reached or not;    *)
(* only a refresh another process had under way, a store that fails and a  *)
(* process that dies can leave one.                                        *)
LogoutStands ==
  signedOut /\ session # None => session.fam \in excused \cup InHand

(* A device code is never polled after its lifetime, and never sooner than *)
(* Hub asked for, its slow_downs included -- as long as it does not ask    *)
(* for more than the cap of the network backoff.                           *)
PollsKeepTheirDistance ==
  \A c \in Calls : At(c, "poll") =>
    /\ call[c].left > 0
    /\ call[c].demanded > BackoffCap \/ call[c].interval >= call[c].demanded

(* Every call ends: who joined a refresh returns with it, also when it     *)
(* fails, and a login ends with its device code at the latest.             *)
CallsEnd == \A c \in Calls : call[c] # None ~> call[c] = None
=============================================================================

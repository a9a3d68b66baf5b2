--------------------------- MODULE HubSessionProofs ---------------------------
(***************************************************************************)
(* What the session of HubSession does for any number of calls, processes, *)
(* logins, rotations, mishaps and polls: its types, and the four promises  *)
(* its run checks.  The inductive invariant says who may hold which token  *)
(* at which step; a family is only off the books when it is excused.       *)
(***************************************************************************)
EXTENDS HubSession, TLAPS

Holds(c) == call[c] # None /\ call[c].token # None
Refreshing(c) == At(c, "send") \/ At(c, "save")
SigningOut(c) == At(c, "revoke") \/ At(c, "delete")
StoredIs(f) == session # None /\ session.fam = f
Settled(f) == hub[f].status = "revoked" \/ f \in excused \cup unrevoked
InForce(s) == hub[s.fam].status = "live" /\ hub[s.fam].serial = s.serial

(* Which locals go with which step; the leader of a process is the call    *)
(* its map names.                                                          *)
ControlOf(c) ==
  call[c] # None =>
    /\ c \in Signers <=> call[c].at \in {"sleep", "poll", "keep", "revoke", "delete"}
    /\ call[c].at \in {"joined", "reload", "sleep", "poll"} => call[c].token = None
    /\ call[c].leader # None => call[c].at = "joined"
    /\ call[c].at \in {"reload", "send", "save"} => refreshing[ProcOf[c]] = c
Control == \A c \in Calls : ControlOf(c)

(* A login or a logout is alone in its process and the only one.           *)
Alone ==
  \A c, d \in Calls : c # d /\ call[c] # None /\ call[d] # None =>
    ~({c, d} \subseteq Signers) /\ (ProcOf[c] = ProcOf[d] => {c, d} \cap Signers = {})

PacedAt(c) ==
  /\ At(c, "sleep") \/ At(c, "poll") =>
       call[c].demanded > BackoffCap \/ call[c].interval >= call[c].demanded
  /\ At(c, "poll") => call[c].left > 0
Paced == \A c \in Calls : PacedAt(c)

(* A family in use was born; a token in hand belongs to the stored session *)
(* or to a family that is settled, except the one a login has just got.    *)
Accounted ==
  /\ session # None => hub[session.fam].status # "unborn"
  /\ \A c \in Calls : Holds(c) =>
       /\ hub[call[c].token.fam].status # "unborn"
       /\ At(c, "keep") \/ StoredIs(call[c].token.fam) \/ Settled(call[c].token.fam)
       /\ At(c, "delete") => Settled(call[c].token.fam)
  /\ \A c \in Calls : session # None =>
       /\ At(c, "revoke") => session.fam = call[c].token.fam \/ Settled(session.fam)
       /\ At(c, "delete") => Settled(session.fam)
  /\ NothingForgotten

(* The tokens of a login belong to nobody else.                            *)
KeptApart ==
  \A c \in Calls : At(c, "keep") =>
    /\ InForce(call[c].token)
    /\ ~StoredIs(call[c].token.fam)
    /\ \A d \in Calls : d # c /\ Holds(d) => call[d].token.fam # call[c].token.fam

(* A refresh works on the stored family, alone, with the token in force.   *)
RefreshOf(c) ==
  Refreshing(c) /\ call[c].token.fam \notin excused =>
    /\ StoredIs(call[c].token.fam)
    /\ InForce(call[c].token)
    /\ \A d \in Calls : d # c /\ (Refreshing(d) \/ (SigningOut(d) /\ Holds(d))) =>
         call[d].token.fam # call[c].token.fam
(* A logout works on the stored family.                                    *)
LogoutOf(c) ==
  SigningOut(c) /\ session # None =>
    session.fam \in excused \/ (Holds(c) /\ session.fam = call[c].token.fam)
(* The stored token is in force unless a newer one is about to be stored   *)
(* or its family was just revoked.                                         *)
StoredInForce ==
  session # None /\ session.fam \notin excused =>
    \/ InForce(session)
    \/ \E c \in Calls : (At(c, "save") \/ At(c, "delete")) /\ Holds(c) /\ call[c].token.fam = session.fam
SignedOut ==
  signedOut /\ session # None =>
    session.fam \in excused \/ \E c \in Calls : At(c, "delete") /\ Holds(c) /\ call[c].token.fam = session.fam

Exclusive ==
  KeptApart /\ (\A c \in Calls : RefreshOf(c) /\ LogoutOf(c)) /\ StoredInForce /\ SignedOut

IInv == TypeOK /\ Control /\ Alone /\ Paced /\ Accounted /\ Exclusive

-----------------------------------------------------------------------------
(* Types.  Every step puts a record of the right type, or None, in the     *)
(* slot of the call it takes.                                              *)
LEMMA SlotSet ==
  ASSUME TypeOK, NEW c \in Calls, NEW r \in Call \cup {None}, call' = [call EXCEPT ![c] = r]
  PROVE  /\ call' \in [Calls -> Call \cup {None}]
         /\ call'[c] = r
         /\ \A d \in Calls : d # c => call'[d] = call[d]
BY DEF TypeOK

(* A call under way is well typed and has a token where it needs one.      *)
LEMMA InSlot ==
  ASSUME TypeOK, NEW c \in Calls, call[c] # None
  PROVE  /\ call[c] \in Call
         /\ call[c].token # None => call[c].token \in Session
         /\ call[c].at \in {"send", "save", "keep", "revoke"} => call[c].token # None
BY DEF TypeOK, Call

(* The program starts with nothing stored and no call under way.           *)
LEMMA Initially == Init => IInv
<1> SUFFICES ASSUME Init PROVE IInv
  OBVIOUS
<1>1. /\ session = None /\ \A c \in Calls : call[c] = None
      /\ \A f \in Families : hub[f].status = "unborn"
      /\ signedOut = FALSE
  BY DEF Init
<1>2. TypeOK
  <2>1. hub \in [Families -> [status : {"unborn", "live", "revoked"}, serial : 0..MaxSerial]]
    BY BoundsAssumption DEF Init
  <2>2. starts \in 0..MaxStarts /\ mishaps \in 0..MaxMishaps
    BY BoundsAssumption DEF Init
  <2> QED BY <1>1, <2>1, <2>2 DEF Init, TypeOK
<1>3. Control /\ Alone /\ Paced
  BY <1>1 DEF Control, ControlOf, Alone, Paced, PacedAt, At
<1>4. Accounted /\ Exclusive
  BY <1>1 DEF Accounted, NothingForgotten, Exclusive, KeptApart, RefreshOf, LogoutOf,
              StoredInForce, SignedOut, Holds, Refreshing, SigningOut, At
<1> QED BY <1>2, <1>3, <1>4 DEF IInv

(* A step of one call that leaves it in a slot of the right type.          *)
LEMMA TypeStays ==
  ASSUME TypeOK, NEW c \in Calls, NEW r \in Call \cup {None},
         call' = [call EXCEPT ![c] = r],
         r # None /\ r.at \in {"send", "save", "keep", "revoke"} => r.token # None,
         hub' \in [Families -> [status : {"unborn", "live", "revoked"}, serial : 0..MaxSerial]],
         session' \in Session \cup {None},
         refreshing' \in [Procs -> Calls \cup {None}],
         signedOut' \in BOOLEAN, excused' \cup unrevoked' \subseteq Families,
         starts' \in 0..MaxStarts, mishaps' \in 0..MaxMishaps
  PROVE  TypeOK'
<1>1. /\ call' \in [Calls -> Call \cup {None}]
      /\ call'[c] = r
      /\ \A d \in Calls : d # c => call'[d] = call[d]
  BY SlotSet
<1> QED BY <1>1 DEF TypeOK

(* Ending a call, and those who wait for it, keeps the types.              *)
LEMMA SettleType ==
  ASSUME TypeOK, NEW c \in Calls, Settle(c)
  PROVE  /\ call' \in [Calls -> Call \cup {None}]
         /\ refreshing' \in [Procs -> Calls \cup {None}]
         /\ \A d \in Calls : call'[d] = None \/ call'[d] = call[d]
BY ProcOfAssumption DEF TypeOK, Settle

-----------------------------------------------------------------------------
(* Control.  One call moves, others may end with it.                       *)
Moves(c) ==
  /\ \A d \in Calls : d # c => call'[d] = call[d] \/ call'[d] = None
  /\ call'[c] # None => call[c] # None \/ MayStart(c)
  /\ \A d \in Calls : d # c /\ call[d] # None /\ call[d].at \in {"reload", "send", "save"} =>
       refreshing'[ProcOf[d]] = refreshing[ProcOf[d]]

(* A call that moves within its role keeps the map and the company.        *)
LEMMA ControlStays ==
  ASSUME Control, Alone, Paced, NEW c \in Calls, Moves(c), ControlOf(c)', PacedAt(c)'
  PROVE  Control' /\ Alone' /\ Paced'
<1>1. ASSUME NEW d \in Calls, d # c PROVE ControlOf(d)' /\ PacedAt(d)'
  <2>1. ControlOf(d) /\ PacedAt(d)
    BY DEF Control, Paced
  <2>2. CASE call'[d] = None
    BY <2>2 DEF ControlOf, PacedAt, At
  <2>3. CASE call'[d] = call[d] /\ call[d] # None
    BY <2>1, <2>3, <1>1 DEF ControlOf, PacedAt, At, Moves
  <2> QED BY <1>1, <2>2, <2>3 DEF Moves
<1>2. Alone'
  <2> SUFFICES ASSUME NEW a \in Calls, NEW b \in Calls, a # b, call'[a] # None, call'[b] # None
               PROVE  ~({a, b} \subseteq Signers) /\ (ProcOf[a] = ProcOf[b] => {a, b} \cap Signers = {})
    BY DEF Alone
  <2>1. CASE call[a] # None /\ call[b] # None
    BY <2>1 DEF Alone
  <2>2. CASE call[a] = None
    <3>1. a = c /\ MayStart(a) /\ call[b] # None
      BY <2>2 DEF Moves
    <3> QED BY <3>1 DEF MayStart
  <2>3. CASE call[b] = None
    <3>1. b = c /\ MayStart(b) /\ call[a] # None
      BY <2>3 DEF Moves
    <3> QED BY <3>1 DEF MayStart
  <2> QED BY <2>1, <2>2, <2>3
<1> QED BY <1>1, <1>2 DEF Control, Paced

(* Who settles leads its process, so the steps of the others stay backed   *)
(* by the map; nobody who waits has a token.                               *)
LEMMA SettleMoves ==
  ASSUME TypeOK, Control, NEW c \in Calls, call[c] # None,
         call[c].at \in {"reload", "send", "save"}, Settle(c)
  PROVE  /\ Moves(c) /\ call'[c] = None
         /\ \A d \in Calls : d # c /\ call[d] # None /\ call[d].token # None => call'[d] = call[d]
<1>1. refreshing[ProcOf[c]] = c /\ ProcOf[c] \in Procs
  BY ProcOfAssumption DEF Control, ControlOf
<1>2. ASSUME NEW d \in Calls, d # c, call[d] # None, call[d].at \in {"reload", "send", "save"}
      PROVE  refreshing'[ProcOf[d]] = refreshing[ProcOf[d]]
  <2>1. refreshing[ProcOf[d]] = d
    BY <1>2 DEF Control, ControlOf
  <2>2. ProcOf[d] # ProcOf[c] /\ ProcOf[d] \in Procs
    BY <1>1, <1>2, <2>1, ProcOfAssumption
  <2> QED BY <2>2 DEF Settle, TypeOK
<1>3. call' = [d \in Calls |-> IF d = c \/ d \in Waiting(c) THEN None ELSE call[d]]
  BY DEF Settle
<1>4. ASSUME NEW d \in Calls, call[d] # None, call[d].token # None PROVE d \notin Waiting(c)
  BY <1>4, NoneAssumption DEF Control, ControlOf, Waiting
<1> QED BY <1>2, <1>3, <1>4 DEF Moves

-----------------------------------------------------------------------------
(* Tokens.  A call keeps its record, or ends, or goes on without a token;  *)
(* Hub changes nothing but families that are excused then.                 *)
Empty(r) == r = None \/ (r.token = None /\ r.at \in {"joined", "reload", "sleep", "poll"})
LetsGo ==
  /\ \A d \in Calls : call'[d] = call[d] \/ Empty(call'[d])
  /\ UNCHANGED <<session, signedOut, unrevoked>>
  /\ excused \subseteq excused'
  /\ \A f \in Families : hub'[f] = hub[f] \/ (f \in excused' /\ hub'[f].status # "unborn")
  /\ \A d \in Calls : At(d, "keep") => hub'[call[d].token.fam] = hub[call[d].token.fam]
  /\ \A d \in Calls : Holds(d) /\ call'[d] # call[d] =>
       /\ At(d, "save") \/ At(d, "keep") => call[d].token.fam \in excused'
       /\ At(d, "delete") => call[d].token.fam \in excused' \/ ~StoredIs(call[d].token.fam)

(* The families the invariant talks of exist.                              *)
LEMMA FamiliesInUse ==
  ASSUME TypeOK
  PROVE  /\ session # None => session.fam \in Families
         /\ \A c \in Calls : Holds(c) => call[c].token.fam \in Families
         /\ \A c \in Calls : Refreshing(c) \/ At(c, "keep") \/ At(c, "revoke") => Holds(c)
BY DEF TypeOK, Session, Call, Holds, Refreshing, At

(* A step that only lets go of tokens and excuses families keeps it all.   *)
LEMMA LettingGo ==
  ASSUME IInv, LetsGo
  PROVE  Accounted' /\ Exclusive'
<1>1. ASSUME NEW d \in Calls, Holds(d)' \/ Refreshing(d)' \/ SigningOut(d)' \/ At(d, "keep")'
      PROVE  call'[d] = call[d]
  BY <1>1 DEF LetsGo, Empty, Holds, Refreshing, SigningOut, At
<1>2. \A f \in Families : /\ hub[f].status # "unborn" => hub'[f].status # "unborn"
                          /\ Settled(f) => Settled(f)'
                          /\ f \notin excused' => hub'[f] = hub[f]
                          /\ StoredIs(f)' <=> StoredIs(f)
  BY DEF LetsGo, Settled, StoredIs
<1>3. Accounted'
  <2>1. ASSUME NEW f \in Families, hub'[f].status = "live"
        PROVE  f \in excused' \cup unrevoked' \cup InHand' \/ (session' # None /\ session'.fam = f)
    <3>1. f \in excused' \cup unrevoked \cup InHand \/ StoredIs(f)
      BY <2>1 DEF IInv, Accounted, NothingForgotten, LetsGo, StoredIs
    <3>2. CASE f \in InHand
      <4>1. PICK d \in Calls : Holds(d) /\ call[d].token.fam = f
        BY <3>2 DEF InHand, Holds
      <4>2. CASE call'[d] = call[d]
        BY <4>1, <4>2 DEF InHand, Holds
      <4>3. CASE call'[d] # call[d]
        <5>1. (At(d, "keep") /\ f \in excused') \/ StoredIs(f) \/ Settled(f)
          BY <4>1, <4>3 DEF LetsGo, IInv, Accounted
        <5> QED BY <2>1, <5>1, <1>2 DEF LetsGo, StoredIs, Settled
      <4> QED BY <4>2, <4>3
    <3> QED BY <3>1, <3>2 DEF LetsGo, StoredIs
  <2>2. NothingForgotten'
    BY <2>1 DEF NothingForgotten
  <2>3. session' # None => hub'[session'.fam].status # "unborn"
    <3>1. session' = session /\ (session # None => session.fam \in Families)
      BY FamiliesInUse DEF IInv, LetsGo
    <3> QED BY <1>2, <3>1 DEF IInv, Accounted
  <2>4. ASSUME NEW d \in Calls, Holds(d)'
        PROVE  /\ hub'[call'[d].token.fam].status # "unborn"
               /\ At(d, "keep")' \/ StoredIs(call[d].token.fam)' \/ Settled(call[d].token.fam)'
               /\ At(d, "delete")' => Settled(call[d].token.fam)'
    <3>1. call'[d] = call[d] /\ Holds(d) /\ call[d].token.fam \in Families
      BY <1>1, <2>4, FamiliesInUse DEF IInv, Holds
    <3>2. StoredIs(call[d].token.fam)' <=> StoredIs(call[d].token.fam)
      BY <3>1 DEF LetsGo, StoredIs
    <3>3. Settled(call[d].token.fam) => Settled(call[d].token.fam)'
      BY <3>1, <1>2 DEF Settled
    <3> QED BY <1>2, <3>1, <3>2, <3>3 DEF IInv, Accounted, At, StoredIs
  <2>5. ASSUME NEW d \in Calls, session' # None
        PROVE  /\ At(d, "revoke")' => session'.fam = call'[d].token.fam \/ Settled(session.fam)'
               /\ At(d, "delete")' => Settled(session.fam)'
    <3>1. session' = session /\ session.fam \in Families
      BY <2>5, FamiliesInUse DEF IInv, LetsGo
    <3>2. Settled(session.fam) => Settled(session.fam)'
      BY <3>1, <1>2 DEF Settled
    <3> QED BY <1>1, <2>5, <3>1, <3>2 DEF IInv, Accounted, At, SigningOut
  <2> QED BY <2>2, <2>3, <2>4, <2>5 DEF Accounted
<1>4. ASSUME NEW c \in Calls, At(c, "keep")'
      PROVE  /\ InForce(call[c].token)' /\ ~StoredIs(call[c].token.fam)'
             /\ \A d \in Calls : d # c /\ Holds(d)' => call'[d].token.fam # call'[c].token.fam
  <2>1. call'[c] = call[c] /\ At(c, "keep") /\ hub'[call[c].token.fam] = hub[call[c].token.fam]
    BY <1>1, <1>4 DEF LetsGo, At
  <2>2. InForce(call[c].token) /\ ~StoredIs(call[c].token.fam)
    BY <2>1 DEF IInv, Exclusive, KeptApart
  <2>3. \A d \in Calls : d # c /\ Holds(d)' => Holds(d) /\ call'[d] = call[d]
    BY <1>1 DEF Holds
  <2> QED BY <2>1, <2>2, <2>3 DEF IInv, Exclusive, KeptApart, InForce, StoredIs, LetsGo
<1>5. ASSUME NEW c \in Calls PROVE RefreshOf(c)'
  <2> SUFFICES ASSUME Refreshing(c)', call'[c].token.fam \notin excused'
               PROVE  /\ StoredIs(call[c].token.fam)' /\ InForce(call[c].token)'
                      /\ \A d \in Calls : d # c /\ (Refreshing(d) \/ (SigningOut(d) /\ Holds(d)))' =>
                           call'[d].token.fam # call'[c].token.fam
    BY DEF RefreshOf
  <2>1. /\ call'[c] = call[c] /\ Refreshing(c) /\ call[c].token.fam \in Families
        /\ call[c].token.fam \notin excused
    BY <1>1, FamiliesInUse DEF Refreshing, At, IInv, LetsGo
  <2>2. RefreshOf(c) /\ hub'[call[c].token.fam] = hub[call[c].token.fam]
    BY <1>2, <2>1 DEF IInv, Exclusive
  <2>3. \A d \in Calls : (Refreshing(d) \/ (SigningOut(d) /\ Holds(d)))' =>
          call'[d] = call[d] /\ (Refreshing(d) \/ (SigningOut(d) /\ Holds(d)))
    BY <1>1 DEF Refreshing, SigningOut, Holds, At
  <2> QED BY <2>1, <2>2, <2>3 DEF RefreshOf, InForce, StoredIs, LetsGo
<1>6. ASSUME NEW c \in Calls PROVE LogoutOf(c)'
  BY <1>1 DEF IInv, Exclusive, LogoutOf, LetsGo, Holds, At, SigningOut
<1>7. StoredInForce'
  <2> SUFFICES ASSUME session' # None, session'.fam \notin excused', ~InForce(session)'
               PROVE  \E c \in Calls : (At(c, "save") \/ At(c, "delete"))' /\ Holds(c)' /\ call'[c].token.fam = session'.fam
    BY DEF StoredInForce
  <2>1. session' = session /\ hub'[session.fam] = hub[session.fam] /\ session.fam \notin excused
    BY <1>2, FamiliesInUse DEF IInv, LetsGo
  <2>2. PICK c \in Calls : (At(c, "save") \/ At(c, "delete")) /\ Holds(c) /\ call[c].token.fam = session.fam
    BY <2>1 DEF IInv, Exclusive, StoredInForce, InForce
  <2>3. call'[c] = call[c]
    BY <2>1, <2>2 DEF LetsGo, StoredIs
  <2> QED BY <2>1, <2>2, <2>3 DEF Holds, At
<1>8. SignedOut'
  BY DEF IInv, Exclusive, SignedOut, LetsGo, Holds, At, StoredIs
<1> QED BY <1>3, <1>4, <1>5, <1>6, <1>7, <1>8 DEF Exclusive, KeptApart

-----------------------------------------------------------------------------
(* The steps of a refresh. *)
LEMMA CallAccessKeeps ==
  ASSUME IInv, NEW c \in Calls, CallAccess(c)
  PROVE  IInv'
<1> DEFINE r == [Blank EXCEPT !.token = session]
<1>1. /\ call[c] = None /\ session \in Session /\ c \notin Signers /\ MayStart(c)
      /\ call' = [call EXCEPT ![c] = r] /\ starts < MaxStarts /\ starts' = starts + 1
      /\ UNCHANGED <<hub, session, refreshing, signedOut, excused, unrevoked, mishaps>>
  BY DEF CallAccess, MayStart, IInv, TypeOK, history
<1>2. /\ r \in Call /\ r.at = "decide" /\ r.token = session /\ r.leader = None
  <2>1. 0 \in 0..DeviceLife
    BY BoundsAssumption
  <2> QED BY <1>1, <2>1 DEF Blank, Call, Stages
<1>3. call'[c] = r /\ \A d \in Calls : d # c => call'[d] = call[d]
  BY <1>1, <1>2, SlotSet DEF IInv
<1>4. TypeOK'
  BY <1>1, <1>2, TypeStays, BoundsAssumption DEF IInv, TypeOK
<1>5. Control' /\ Alone' /\ Paced'
  <2>1. Moves(c) /\ ControlOf(c)' /\ PacedAt(c)'
    BY <1>1, <1>2, <1>3 DEF Moves, ControlOf, PacedAt, At
  <2> QED BY <2>1, ControlStays DEF IInv
<1>6. /\ Holds(c)' /\ ~Refreshing(c)' /\ ~SigningOut(c)' /\ ~At(c, "keep")'
      /\ call'[c].token = session /\ session # None /\ ~Holds(c)
  BY <1>1, <1>2, <1>3, NoneAssumption DEF Holds, Refreshing, SigningOut, At
<1>7. Accounted'
  <2>1. InHand \subseteq InHand'
    BY <1>1, <1>3 DEF InHand
  <2>2. NothingForgotten'
    BY <1>1, <2>1 DEF IInv, Accounted, NothingForgotten
  <2> QED BY <1>1, <1>3, <1>6, <2>2 DEF IInv, Accounted, Holds, At, StoredIs, Settled, SigningOut
<1>8. KeptApart' /\ \A d \in Calls : RefreshOf(d)' /\ LogoutOf(d)'
  BY <1>1, <1>3, <1>6 DEF IInv, Exclusive, KeptApart, RefreshOf, LogoutOf, Holds, At, StoredIs, InForce,
              Refreshing, SigningOut
<1>9. StoredInForce' /\ SignedOut'
  BY <1>1, <1>3, <1>6 DEF IInv, Exclusive, StoredInForce, SignedOut, Holds, At, InForce
<1> QED BY <1>4, <1>5, <1>7, <1>8, <1>9 DEF IInv, Exclusive

(* The call that finds no refresh under way leads one; others wait.        *)
LEMMA DecideKeeps ==
  ASSUME IInv, NEW c \in Calls, Decide(c)
  PROVE  IInv'
<1>1. call[c] # None /\ call[c].at = "decide" /\ call[c] \in Call /\ call[c].leader = None /\ ProcOf[c] \in Procs
  BY InSlot, ProcOfAssumption DEF Decide, At, IInv, Control, ControlOf
<1>2. c \notin Signers
  BY <1>1 DEF IInv, Control, ControlOf
<1>3. PICK r \in Call : /\ call' = [call EXCEPT ![c] = r]
                        /\ r.token = None /\ r.at \in {"reload", "joined"}
                        /\ r.at = "reload" => r.leader = None /\ refreshing' = [refreshing EXCEPT ![ProcOf[c]] = c]
                        /\ r.at = "joined" => UNCHANGED refreshing
                        /\ r.at = "reload" => refreshing[ProcOf[c]] = None
  <2>1. CASE Leads(c)
    <3> DEFINE r == [call[c] EXCEPT !.at = "reload", !.token = None]
    <3>1. r \in Call /\ r.token = None /\ r.at = "reload" /\ r.leader = None
      BY <1>1 DEF Call, Stages
    <3> QED BY <2>1, <3>1 DEF Decide, GotoWith, Leads
  <2>2. CASE ~Leads(c)
    <3> DEFINE r == [call[c] EXCEPT !.at = "joined", !.token = None, !.leader = refreshing[ProcOf[c]]]
    <3>1. r \in Call /\ r.token = None /\ r.at = "joined"
      BY <1>1 DEF Call, Stages, IInv, TypeOK
    <3> QED BY <2>2, <3>1 DEF Decide
  <2> QED BY <2>1, <2>2
<1>4. call'[c] = r /\ \A d \in Calls : d # c => call'[d] = call[d]
  BY <1>3, SlotSet DEF IInv
<1>5. UNCHANGED <<hub, session, signedOut, excused, unrevoked, starts, mishaps>>
  BY DEF Decide, history
<1>6. TypeOK'
  BY <1>1, <1>3, <1>5, TypeStays, NoneAssumption DEF IInv, TypeOK
<1>7. Control' /\ Alone' /\ Paced'
  <2>1. ASSUME NEW d \in Calls, d # c, call[d] # None, call[d].at \in {"reload", "send", "save"}
        PROVE  refreshing'[ProcOf[d]] = refreshing[ProcOf[d]]
    <3>1. refreshing[ProcOf[d]] = d /\ ProcOf[d] \in Procs
      BY <2>1, ProcOfAssumption DEF IInv, Control, ControlOf
    <3> QED BY <1>3, <2>1, <3>1, NoneAssumption DEF IInv, TypeOK
  <2>2. Moves(c)
    BY <1>1, <1>4, <2>1 DEF Moves
  <2>3. ControlOf(c)' /\ PacedAt(c)'
    BY <1>1, <1>2, <1>3, <1>4 DEF ControlOf, PacedAt, At, IInv, TypeOK
  <2> QED BY <2>2, <2>3, ControlStays DEF IInv
<1>8. LetsGo
  BY <1>1, <1>3, <1>4, <1>5 DEF LetsGo, Empty, At, Holds
<1> QED BY <1>6, <1>7, <1>8, LettingGo DEF IInv

(* The leader loads the session once more, or gives up.                    *)
LEMMA ReloadKeeps ==
  ASSUME IInv, NEW c \in Calls, Reload(c)
  PROVE  IInv'
<1>1. /\ call[c] # None /\ call[c].at = "reload" /\ call[c] \in Call /\ ~Holds(c)
      /\ UNCHANGED <<hub, session, signedOut, unrevoked, starts, mishaps>>
      /\ ExcuseRace(c)
  BY InSlot DEF Reload, At, IInv, Control, ControlOf, Holds
<1>2. excused \subseteq excused' /\ excused' \subseteq Families
  BY <1>1, FamiliesInUse DEF ExcuseRace, IInv, TypeOK, Raced
<1>3. CASE Fail(c)
  <2>1. /\ Moves(c) /\ call'[c] = None
        /\ \A d \in Calls : d # c /\ call[d] # None /\ call[d].token # None => call'[d] = call[d]
    BY <1>1, <1>3, SettleMoves DEF Fail, IInv
  <2>2. TypeOK'
    BY <1>1, <1>2, <1>3, SettleType DEF Fail, IInv, TypeOK
  <2>3. ControlOf(c)' /\ PacedAt(c)'
    BY <2>1 DEF ControlOf, PacedAt, At
  <2>4. LetsGo
    BY <1>1, <1>2, <2>1 DEF LetsGo, Empty, Holds, Moves
  <2> QED BY <2>1, <2>2, <2>3, <2>4, ControlStays, LettingGo DEF IInv
<1>4. CASE session # None /\ session.serial # NoToken /\ LoadsBlindly(c)
  <2> DEFINE r == [call[c] EXCEPT !.at = "send", !.token = session]
  <2>1. r \in Call /\ r.at = "send" /\ r.token = session /\ r.leader = call[c].leader /\ session \in Session
    BY <1>1, <1>4 DEF Call, Stages, IInv, TypeOK
  <2>2. call' = [call EXCEPT ![c] = r] /\ UNCHANGED refreshing
    BY <1>4 DEF LoadsBlindly, GotoWith
  <2>3. call'[c] = r /\ \A d \in Calls : d # c => call'[d] = call[d]
    BY <2>1, <2>2, SlotSet DEF IInv
  <2>4. TypeOK'
    BY <1>1, <1>2, <1>4, <2>1, <2>2, TypeStays DEF IInv, TypeOK
  <2>5. Control' /\ Alone' /\ Paced'
    <3>1. Moves(c) /\ ControlOf(c)' /\ PacedAt(c)'
      BY <1>1, <2>1, <2>2, <2>3 DEF Moves, ControlOf, PacedAt, At, IInv, Control
    <3> QED BY <3>1, ControlStays DEF IInv
  <2>6. /\ Holds(c)' /\ At(c, "send")' /\ call'[c].token = session
        /\ \A d \in Calls : d # c => (Holds(d)' <=> Holds(d)) /\ call'[d] = call[d]
    BY <1>4, <2>1, <2>3, NoneAssumption DEF Holds, At
  <2>7. Accounted'
    <3>1. InHand \subseteq InHand'
      BY <1>1, <2>3 DEF InHand, Holds
    <3>2. NothingForgotten'
      BY <1>1, <1>2, <3>1 DEF IInv, Accounted, NothingForgotten
    <3> QED BY <1>1, <1>2, <1>4, <2>6, <3>2 DEF IInv, Accounted, Holds, At, StoredIs, Settled
  <2>8. ASSUME session.fam \notin excused', NEW d \in Calls, d # c
        PROVE  Refreshing(d) \/ (SigningOut(d) /\ Holds(d)) => call[d].token.fam # session.fam
    <3>1. ~Raced(c)
      BY <2>8, <1>1 DEF ExcuseRace
    <3>2. CASE ProcOf[d] = ProcOf[c]
      <4>1. d \notin Signers \/ call[d] = None
        BY <1>1, <2>8, <3>2 DEF IInv, Alone
      <4>2. ~Refreshing(d)
        BY <1>1, <2>8, <3>2 DEF IInv, Control, ControlOf, Refreshing, At
      <4> QED BY <4>1, <4>2 DEF IInv, Control, ControlOf, SigningOut, At, Holds
    <3>3. CASE ProcOf[d] # ProcOf[c]
      <4>1. ~((Refreshing(d) \/ SigningOut(d)) /\ Holds(d) /\ call[d].token.fam = session.fam)
        BY <1>4, <3>1, <3>3 DEF Raced, Refreshing, SigningOut, Holds, At
      <4>2. Refreshing(d) => Holds(d)
        BY FamiliesInUse DEF IInv
      <4> QED BY <4>1, <4>2
    <3> QED BY <3>2, <3>3
  <2>9. InForce(session) \/ session.fam \in excused'
    <3> SUFFICES ASSUME session.fam \notin excused', ~InForce(session) PROVE FALSE
      OBVIOUS
    <3>1. PICK d \in Calls : (At(d, "save") \/ At(d, "delete")) /\ Holds(d) /\ call[d].token.fam = session.fam
      BY <1>2, <1>4 DEF IInv, Exclusive, StoredInForce
    <3>2. d # c
      BY <1>1, <3>1
    <3> QED BY <2>8, <3>1, <3>2 DEF Refreshing, SigningOut
  <2>10. KeptApart'
    <3>1. \A d \in Calls : At(d, "keep")' => d # c /\ At(d, "keep")
      BY <2>6 DEF At
    <3> QED BY <1>1, <1>4, <2>6, <3>1 DEF IInv, Exclusive, KeptApart, InForce, StoredIs
  <2>11. ASSUME NEW d \in Calls PROVE RefreshOf(d)' /\ LogoutOf(d)'
    <3>1. CASE d = c
      <4>1. LogoutOf(d)'
        BY <2>6, <3>1 DEF LogoutOf, SigningOut, At
      <4>2. RefreshOf(d)'
        <5>1. \A e \in Calls : e # c /\ (Refreshing(e) \/ (SigningOut(e) /\ Holds(e)))' =>
                (Refreshing(e) \/ (SigningOut(e) /\ Holds(e))) /\ call'[e] = call[e]
          BY <2>6 DEF Refreshing, SigningOut, At
        <5> QED BY <1>1, <1>4, <2>6, <2>8, <2>9, <3>1, <5>1 DEF RefreshOf, InForce, StoredIs
      <4> QED BY <4>1, <4>2
    <3>2. CASE d # c
      <4>1. RefreshOf(d) /\ LogoutOf(d) /\ call'[d] = call[d] /\ (Holds(d)' <=> Holds(d))
        BY <2>6, <3>2 DEF IInv, Exclusive
      <4>2. LogoutOf(d)'
        BY <1>1, <1>2, <4>1 DEF LogoutOf, SigningOut, At
      <4>3. RefreshOf(d)'
        <5> SUFFICES ASSUME Refreshing(d), call[d].token.fam \notin excused' PROVE RefreshOf(d)'
          BY <4>1 DEF RefreshOf, Refreshing, At
        <5>1. call[d].token.fam # session.fam
          BY <2>8, <3>2
        <5> QED BY <1>1, <1>2, <1>4, <4>1, <5>1 DEF RefreshOf, StoredIs
      <4> QED BY <4>2, <4>3
    <3> QED BY <3>1, <3>2
  <2>12. StoredInForce'
    BY <1>1, <2>9 DEF StoredInForce, InForce
  <2>13. SignedOut'
    <3>1. \A d \in Calls : At(d, "delete") => d # c
      BY <1>1 DEF At
    <3> QED BY <1>1, <1>2, <2>6, <3>1 DEF IInv, Exclusive, SignedOut, At
  <2> QED BY <2>4, <2>5, <2>7, <2>10, <2>11, <2>12, <2>13 DEF IInv, Exclusive
<1> QED BY <1>1, <1>3, <1>4 DEF Reload, LoadsChecked, Fail

(* Hub answers: the token to be stored is the one in force, and nobody     *)
(* else works on its family unless the family is excused.                  *)
LEMMA AnswerKeeps ==
  ASSUME IInv, NEW c \in Calls, At(c, "send"), NEW t \in Session,
         t.fam = call[c].token.fam, hub[t.fam].status = "live", InForce(call[c].token),
         hub' \in {hub, [hub EXCEPT ![t.fam].serial = t.serial]}, hub'[t.fam].serial = t.serial,
         GotoWith(c, "save", t),
         UNCHANGED <<session, refreshing, signedOut, excused, unrevoked, starts, mishaps>>
  PROVE  IInv'
<1> DEFINE r == [call[c] EXCEPT !.at = "save", !.token = t]
<1>1. /\ call[c] # None /\ call[c].at = "send" /\ call[c] \in Call /\ Holds(c) /\ Refreshing(c)
      /\ t.fam \in Families
  BY InSlot DEF At, IInv, Holds, Refreshing, Session
<1>2. r \in Call /\ r.at = "save" /\ r.token = t /\ r.leader = call[c].leader
  BY <1>1 DEF Call, Stages
<1>3. call' = [call EXCEPT ![c] = r] /\ call'[c] = r /\ \A d \in Calls : d # c => call'[d] = call[d]
  BY <1>2, SlotSet DEF IInv, GotoWith
<1>4. /\ hub' \in [Families -> [status : {"unborn", "live", "revoked"}, serial : 0..MaxSerial]]
      /\ \A f \in Families : hub'[f].status = hub[f].status /\ (f # t.fam => hub'[f] = hub[f])
      /\ hub'[t.fam].status = "live"
  <2>1. t.serial \in 0..MaxSerial
    BY DEF Session, NoToken
  <2> QED BY <1>1, <2>1 DEF IInv, TypeOK
<1>5. TypeOK'
  BY <1>2, <1>3, <1>4, TypeStays, NoneAssumption DEF IInv, TypeOK
<1>6. Control' /\ Alone' /\ Paced'
  <2>1. Moves(c) /\ ControlOf(c)' /\ PacedAt(c)'
    BY <1>1, <1>2, <1>3 DEF Moves, ControlOf, PacedAt, At, IInv, Control
  <2> QED BY <2>1, ControlStays DEF IInv
<1>7. /\ Holds(c)' /\ At(c, "save")' /\ call'[c].token = t /\ Refreshing(c)'
      /\ \A d \in Calls : d # c => (Holds(d)' <=> Holds(d)) /\ call'[d] = call[d]
      /\ \A d \in Calls : Holds(d)' <=> Holds(d)
      /\ \A d \in Calls : Holds(d) => call'[d].token.fam = call[d].token.fam
  <2>1. r # None /\ t # None
    BY <1>2, NoneAssumption
  <2>2. Holds(c)' /\ At(c, "save")' /\ call'[c].token = t /\ Refreshing(c)'
    BY <1>2, <1>3, <2>1 DEF Holds, At, Refreshing
  <2>3. \A d \in Calls : d # c => (Holds(d)' <=> Holds(d)) /\ call'[d] = call[d]
    BY <1>3 DEF Holds
  <2> QED BY <1>1, <2>2, <2>3
<1>8. Accounted'
  <2>1. \A f \in Families : f \in InHand => f \in InHand'
    <3>1. \A f : f \in InHand => \E d \in Calls : Holds(d) /\ call[d].token.fam = f
      BY DEF InHand, Holds
    <3>2. \A d \in Calls : Holds(d)' => call'[d].token.fam \in InHand'
      BY DEF InHand, Holds
    <3> QED BY <1>7, <3>1, <3>2
  <2>2. NothingForgotten'
    BY <1>4, <2>1 DEF IInv, Accounted, NothingForgotten
  <2>3. \A f \in Families : Settled(f)' <=> Settled(f)
    BY <1>4 DEF Settled
  <2>4. session # None => session.fam \in Families /\ (Settled(session.fam)' <=> Settled(session.fam))
    BY <2>3, FamiliesInUse DEF IInv, Settled
  <2>5. \A d \in Calls : d # c /\ Holds(d) =>
          call[d].token.fam \in Families /\ (Settled(call[d].token.fam)' <=> Settled(call[d].token.fam))
    BY <1>7, <2>3, FamiliesInUse DEF IInv, Settled
  <2>6. (StoredIs(t.fam) \/ Settled(t.fam)) /\ (Settled(t.fam) => Settled(t.fam)')
    BY <1>1, <2>3 DEF IInv, Accounted, At, StoredIs, Settled
  <2>7. \A d \in Calls : Holds(d)' =>
       /\ hub'[call'[d].token.fam].status # "unborn"
       /\ At(d, "keep")' \/ StoredIs(call[d].token.fam)' \/ Settled(call[d].token.fam)'
       /\ At(d, "delete")' => Settled(call[d].token.fam)'
    <3> SUFFICES ASSUME NEW d \in Calls, Holds(d)'
                 PROVE  /\ hub'[call'[d].token.fam].status # "unborn"
                        /\ At(d, "keep")' \/ StoredIs(call[d].token.fam)' \/ Settled(call[d].token.fam)'
                        /\ At(d, "delete")' => Settled(call[d].token.fam)'
      OBVIOUS
    <3>1. CASE d = c
      BY <1>4, <1>7, <2>6, <3>1 DEF At, StoredIs, Settled
    <3>2. CASE d # c
      BY <1>4, <1>7, <2>5, <3>2 DEF At, StoredIs, IInv, Accounted
    <3> QED BY <3>1, <3>2
  <2> QED BY <1>3, <1>4, <1>7, <2>2, <2>4, <2>7, SMTT(30) DEF IInv, Accounted, At
<1>9. \A d \in Calls : d # c /\ Holds(d) /\ (At(d, "keep") \/ Refreshing(d) \/ SigningOut(d)) =>
        call[d].token.fam # t.fam \/ t.fam \in excused
  <2>1. RefreshOf(c)
    BY DEF IInv, Exclusive
  <2> QED BY <1>1, <2>1 DEF IInv, Exclusive, KeptApart, RefreshOf
<1>10. KeptApart'
  <2> SUFFICES ASSUME NEW k \in Calls, At(k, "keep")'
               PROVE  /\ InForce(call[k].token)' /\ ~StoredIs(call[k].token.fam)'
                      /\ \A d \in Calls : d # k /\ Holds(d)' => call'[d].token.fam # call'[k].token.fam
    BY DEF KeptApart
  <2>1. k # c /\ At(k, "keep") /\ call'[k] = call[k] /\ Holds(k) /\ call[k].token.fam \in Families
    BY <1>7, FamiliesInUse DEF At, IInv
  <2>2. call[k].token.fam # t.fam
    BY <1>1, <2>1 DEF IInv, Exclusive, KeptApart
  <2> QED BY <1>4, <1>7, <2>1, <2>2 DEF IInv, Exclusive, KeptApart, InForce, StoredIs
<1>11. ASSUME NEW d \in Calls PROVE RefreshOf(d)' /\ LogoutOf(d)'
  <2>1. \A e \in Calls : (Refreshing(e) \/ (SigningOut(e) /\ Holds(e)))' =>
          (Refreshing(e) \/ (SigningOut(e) /\ Holds(e))) /\ Holds(e)
    BY <1>1, <1>7, FamiliesInUse DEF Refreshing, SigningOut, At, IInv
  <2>2. CASE d = c
    <3>1. LogoutOf(d)'
      BY <1>7, <2>2 DEF LogoutOf, SigningOut, At
    <3>2. RefreshOf(c)
      BY DEF IInv, Exclusive
    <3>3. RefreshOf(d)'
      BY <1>1, <1>4, <1>7, <2>1, <2>2, <3>2 DEF RefreshOf, InForce, StoredIs
    <3> QED BY <3>1, <3>3
  <2>3. CASE d # c
    <3>1. RefreshOf(d) /\ LogoutOf(d) /\ call'[d] = call[d] /\ (Holds(d)' <=> Holds(d))
      BY <1>7, <2>3 DEF IInv, Exclusive
    <3>2. LogoutOf(d)'
      BY <3>1 DEF LogoutOf, SigningOut, At
    <3>3. RefreshOf(d)'
      <4> SUFFICES ASSUME Refreshing(d), call[d].token.fam \notin excused PROVE RefreshOf(d)'
        BY <3>1 DEF RefreshOf, Refreshing, At
      <4>1. call[d].token.fam # t.fam /\ call[d].token.fam \in Families
        BY <1>1, <1>9, <2>3, FamiliesInUse DEF IInv
      <4> QED BY <1>4, <1>7, <2>1, <3>1, <4>1 DEF RefreshOf, StoredIs, InForce
    <3> QED BY <3>2, <3>3
  <2> QED BY <2>2, <2>3
<1>12. StoredInForce'
  <2> SUFFICES ASSUME session # None, session.fam \notin excused, session.fam # t.fam
               PROVE  StoredInForce'
    BY <1>7 DEF StoredInForce
  <2>1. hub'[session.fam] = hub[session.fam]
    BY <1>4, FamiliesInUse DEF IInv
  <2>2. \A d \in Calls : At(d, "save") \/ At(d, "delete") => d # c
    BY <1>1 DEF At
  <2> QED BY <1>7, <2>1, <2>2 DEF IInv, Exclusive, StoredInForce, InForce, At
<1>13. SignedOut'
  <2>1. \A d \in Calls : At(d, "delete") => d # c
    BY <1>1 DEF At
  <2> QED BY <1>7, <2>1 DEF IInv, Exclusive, SignedOut, At
<1> QED BY <1>5, <1>6, <1>8, <1>10, <1>11, <1>12, <1>13 DEF IInv, Exclusive

(* A call that holds a token ends with everybody who waits for it.         *)
LEMMA FailureKeeps ==
  ASSUME IInv, NEW c \in Calls, Refreshing(c), Settle(c),
         UNCHANGED <<session, signedOut, unrevoked, starts>>, mishaps' \in 0..MaxMishaps,
         excused \subseteq excused', excused' \subseteq Families,
         At(c, "save") => call[c].token.fam \in excused',
         hub' \in [Families -> [status : {"unborn", "live", "revoked"}, serial : 0..MaxSerial]],
         \A f \in Families : hub'[f] = hub[f] \/
           (f \in excused' /\ hub'[f].status # "unborn" /\ f = call[c].token.fam)
  PROVE  IInv'
<1>1. call[c] # None /\ call[c].at \in {"send", "save"} /\ Holds(c)
  BY FamiliesInUse DEF Refreshing, At, IInv
<1>2. /\ Moves(c) /\ call'[c] = None
      /\ \A d \in Calls : d # c /\ Holds(d) => call'[d] = call[d]
  BY <1>1, SettleMoves DEF IInv, Holds
<1>3. TypeOK'
  BY <1>1, SettleType DEF IInv, TypeOK
<1>4. ControlOf(c)' /\ PacedAt(c)'
  BY <1>2 DEF ControlOf, PacedAt, At
<1>5. \A d \in Calls : At(d, "keep") => hub'[call[d].token.fam] = hub[call[d].token.fam]
  <2> SUFFICES ASSUME NEW d \in Calls, At(d, "keep") PROVE hub'[call[d].token.fam] = hub[call[d].token.fam]
    OBVIOUS
  <2>1. d # c /\ Holds(d) /\ call[d].token.fam \in Families
    BY <1>1, FamiliesInUse DEF At, IInv
  <2> QED BY <1>1, <2>1 DEF IInv, Exclusive, KeptApart
<1>6. LetsGo
  BY <1>1, <1>2, <1>5 DEF LetsGo, Empty, At, Moves
<1> QED BY <1>2, <1>3, <1>4, <1>6, ControlStays, LettingGo DEF IInv

(* Hub rotates, refuses, or the answer is lost (refresh).                  *)
LEMMA SendKeeps ==
  ASSUME IInv, NEW c \in Calls, Send(c)
  PROVE  IInv'
<1> DEFINE s == call[c].token
           known == hub[s.fam].status = "live"
           rotated == [hub EXCEPT ![s.fam].serial = s.serial + 1]
           revoked == [hub EXCEPT ![s.fam].status = "revoked"]
<1>1. /\ At(c, "send") /\ Refreshing(c) /\ ~At(c, "save") /\ call[c] # None
      /\ s \in Session /\ s # None /\ s.fam \in Families /\ s.serial \in 0..MaxSerial
      /\ UNCHANGED <<session, signedOut, unrevoked, starts>>
  BY InSlot, NoneAssumption DEF Send, At, IInv, Refreshing, Session, NoToken
<1>2. /\ hub \in [Families -> [status : {"unborn", "live", "revoked"}, serial : 0..MaxSerial]]
      /\ excused \subseteq Families /\ mishaps \in 0..MaxMishaps
      /\ hub[s.fam].status # "unborn"
  BY <1>1, FamiliesInUse DEF IInv, TypeOK, Accounted
<1>3. Mishap => mishaps' \in 0..MaxMishaps
  BY <1>2, BoundsAssumption DEF Mishap
<1>4. CASE known /\ s.serial = hub[s.fam].serial /\ s.serial < MaxSerial /\ hub' = rotated
  <2> DEFINE n == [s EXCEPT !.serial = s.serial + 1, !.fresh = TRUE]
  <2>1. s.serial + 1 \in 0..MaxSerial
    BY <1>1, <1>4, BoundsAssumption
  <2>2. n \in Session /\ n.fam = s.fam /\ n.serial = s.serial + 1
    BY <1>1, <2>1 DEF Session, NoToken
  <2>3. hub'[s.fam].serial = s.serial + 1 /\ hub'[s.fam].status = "live"
    BY <1>1, <1>2, <1>4
  <2>4. CASE Answered(c, parseTokens(s, TRUE)) /\ Fine /\ UNCHANGED excused
    <3>1. GotoWith(c, "save", n) /\ UNCHANGED refreshing /\ UNCHANGED mishaps
      BY <2>4, <1>1 DEF Answered, parseTokens, Fine, Session
    <3> QED BY <1>1, <1>4, <2>2, <2>3, <2>4, <3>1, AnswerKeeps DEF InForce
  <2>5. CASE Fail(c) /\ Mishap /\ Excuse(s)
    <3>1. excused' = excused \cup {s.fam}
      BY <1>1, <2>5 DEF Excuse
    <3>2. hub' \in [Families -> [status : {"unborn", "live", "revoked"}, serial : 0..MaxSerial]]
      BY <1>1, <1>2, <1>4, <2>1
    <3>3. \A f \in Families : f # s.fam => hub'[f] = hub[f]
      BY <1>2, <1>4
    <3> QED BY <1>1, <1>2, <1>3, <2>3, <2>5, <3>1, <3>2, <3>3, FailureKeeps DEF Fail
  <2>6. \/ Answered(c, parseTokens(s, TRUE)) /\ Fine /\ UNCHANGED excused
        \/ Fail(c) /\ Mishap /\ Excuse(s)
        \/ hub' = hub
        \/ hub' = revoked
    BY DEF Send
  <2>7. hub' # hub /\ hub' # revoked
    BY <1>1, <1>2, <1>4, <2>3, SMTT(30)
  <2> QED BY <2>4, <2>5, <2>6, <2>7
<1>5. CASE /\ known /\ s.serial = hub[s.fam].serial /\ Answered(c, parseTokens(s, FALSE)) /\ Fine
           /\ UNCHANGED <<hub, excused>>
  <2> DEFINE n == [s EXCEPT !.fresh = TRUE]
  <2>1. n \in Session /\ n.fam = s.fam /\ n.serial = s.serial
    BY <1>1 DEF Session
  <2>2. GotoWith(c, "save", n) /\ UNCHANGED refreshing /\ UNCHANGED mishaps
    BY <1>5 DEF Answered, parseTokens, Fine
  <2> QED BY <1>1, <1>5, <2>1, <2>2, AnswerKeeps DEF InForce
<1>6. CASE Fail(c) /\ (Fine \/ Mishap) /\ UNCHANGED <<hub, excused>>
  BY <1>1, <1>2, <1>3, <1>6, FailureKeeps, SMTT(30) DEF Fail, Fine
<1>7. CASE /\ known /\ s.serial < hub[s.fam].serial /\ Fine /\ hub' = revoked /\ Fail(c)
           /\ UNCHANGED excused
  <2>1. s.fam \in excused
    <3>1. RefreshOf(c)
      BY DEF IInv, Exclusive
    <3>2. hub[s.fam].serial \in 0..MaxSerial
      BY <1>1, <1>2
    <3> QED BY <1>1, <1>7, <3>1, <3>2 DEF RefreshOf, InForce
  <2>2. hub' \in [Families -> [status : {"unborn", "live", "revoked"}, serial : 0..MaxSerial]]
    BY <1>1, <1>2, <1>7
  <2>3. \A f \in Families : f # s.fam => hub'[f] = hub[f]
    BY <1>2, <1>7
  <2>4. hub'[s.fam].status = "revoked"
    BY <1>1, <1>2, <1>7
  <2> QED BY <1>1, <1>2, <1>7, <2>1, <2>2, <2>3, <2>4, FailureKeeps DEF Fail, Fine
<1>8. \/ known /\ s.serial = hub[s.fam].serial /\ s.serial < MaxSerial /\ hub' = rotated
      \/ /\ known /\ s.serial = hub[s.fam].serial /\ Answered(c, parseTokens(s, FALSE)) /\ Fine
         /\ UNCHANGED <<hub, excused>>
      \/ Fail(c) /\ (Fine \/ Mishap) /\ UNCHANGED <<hub, excused>>
      \/ /\ known /\ s.serial < hub[s.fam].serial /\ Fine /\ hub' = revoked /\ Fail(c)
         /\ UNCHANGED excused
  BY <1>1 DEF Send, parseTokens, Session
<1> QED BY <1>4, <1>5, <1>6, <1>7, <1>8

(* What the leader stores is the token in force, if any is.                *)
LEMMA SaveKeeps ==
  ASSUME IInv, NEW c \in Calls, Save(c)
  PROVE  IInv'
<1> DEFINE t == call[c].token
<1>1. /\ At(c, "save") /\ Refreshing(c) /\ call[c] # None /\ call[c].at = "save" /\ Holds(c)
      /\ t \in Session /\ t # None /\ t.fam \in Families
      /\ Settle(c) /\ UNCHANGED <<hub, signedOut, unrevoked, starts>>
  BY InSlot, NoneAssumption DEF Save, At, IInv, Refreshing, Session, Holds
<1>2. CASE Mishap /\ Excuse(t) /\ UNCHANGED session
  <2>1. excused' = excused \cup {t.fam} /\ excused' \subseteq Families
    BY <1>1, <1>2 DEF Excuse, IInv, TypeOK
  <2>2. mishaps' \in 0..MaxMishaps
    BY <1>2, BoundsAssumption DEF Mishap, IInv, TypeOK
  <2> QED BY <1>1, <1>2, <2>1, <2>2, FailureKeeps DEF IInv, TypeOK
<1>3. CASE /\ session' = t /\ Fine
           /\ IF session # None /\ session.fam # t.fam THEN Excuse(session) ELSE UNCHANGED excused
  <2>1. /\ excused \subseteq excused' /\ excused' \subseteq Families
        /\ session # None => session.fam = t.fam \/ session.fam \in excused'
    BY <1>3, FamiliesInUse DEF Excuse, IInv, TypeOK
  <2>2. /\ Moves(c) /\ call'[c] = None
        /\ \A d \in Calls : d # c /\ Holds(d) => call'[d] = call[d]
    BY <1>1, SettleMoves DEF IInv, Holds
  <2>3. \A d \in Calls : d # c => call'[d] = call[d] \/ call'[d] = None
    BY <2>2 DEF Moves
  <2>4. TypeOK'
    BY <1>1, <1>3, <2>1, SettleType DEF Fine, IInv, TypeOK
  <2>5. Control' /\ Alone' /\ Paced'
    <3>1. ControlOf(c)' /\ PacedAt(c)'
      BY <2>2 DEF ControlOf, PacedAt, At
    <3> QED BY <2>2, <3>1, ControlStays DEF IInv
  <2>6. /\ session' = t /\ session' # None /\ hub' = hub
        /\ \A f : StoredIs(f) => f = t.fam \/ f \in excused'
        /\ \A f : f # t.fam => ~(session'.fam = f)
        /\ \A f \in Families : Settled(f) => Settled(f)'
    BY <1>1, <1>3, <2>1 DEF StoredIs, Settled
  <2>7. \A d \in Calls : Holds(d)' \/ SigningOut(d)' \/ Refreshing(d)' \/ At(d, "keep")' =>
          d # c /\ call'[d] = call[d]
    BY <2>2, <2>3 DEF Holds, SigningOut, Refreshing, At
  <2>8. Settled(t.fam) \/ StoredIs(t.fam)
    BY <1>1 DEF IInv, Accounted, At
  <2>9. t.fam \in excused \/ (StoredIs(t.fam) /\ InForce(t))
    BY <1>1 DEF IInv, Exclusive, RefreshOf
  <2>10. Accounted'
    <3>1. NothingForgotten'
      <4> SUFFICES ASSUME NEW f \in Families, hub[f].status = "live", f # t.fam
                   PROVE  f \in excused' \cup unrevoked' \cup InHand'
        BY <2>6 DEF NothingForgotten
      <4>1. f \in excused \cup unrevoked \cup InHand \/ StoredIs(f)
        BY DEF IInv, Accounted, NothingForgotten, StoredIs
      <4>2. CASE f \in InHand
        <5>1. PICK d \in Calls : Holds(d) /\ call[d].token.fam = f
          BY <4>2 DEF InHand, Holds
        <5>2. call'[d] = call[d]
          BY <2>2, <5>1
        <5> QED BY <5>1, <5>2 DEF InHand, Holds
      <4> QED BY <1>1, <2>1, <2>6, <4>1, <4>2
    <3>2. \A d \in Calls : Holds(d)' =>
            /\ hub'[call'[d].token.fam].status # "unborn"
            /\ At(d, "keep")' \/ StoredIs(call[d].token.fam)' \/ Settled(call[d].token.fam)'
            /\ At(d, "delete")' => Settled(call[d].token.fam)'
      <4> SUFFICES ASSUME NEW d \in Calls, Holds(d)'
                   PROVE  /\ hub'[call'[d].token.fam].status # "unborn"
                          /\ At(d, "keep")' \/ StoredIs(call[d].token.fam)' \/ Settled(call[d].token.fam)'
                          /\ At(d, "delete")' => Settled(call[d].token.fam)'
        OBVIOUS
      <4>1. d # c /\ call'[d] = call[d] /\ Holds(d) /\ call[d].token.fam \in Families
        BY <2>7, FamiliesInUse DEF Holds, IInv
      <4>2. StoredIs(call[d].token.fam) => call[d].token.fam = t.fam \/ call[d].token.fam \in excused'
        BY <2>6
      <4>3. call[d].token.fam = t.fam => StoredIs(call[d].token.fam)'
        BY <2>6, <4>1 DEF StoredIs
      <4>4. call[d].token.fam \in excused' \/ Settled(call[d].token.fam) => Settled(call[d].token.fam)'
        BY <2>6, <4>1 DEF Settled
      <4> QED BY <2>6, <4>1, <4>2, <4>3, <4>4 DEF IInv, Accounted, At
    <3>3. \A d \in Calls : At(d, "revoke")' => session'.fam = call'[d].token.fam \/ Settled(session.fam)'
      <4> SUFFICES ASSUME NEW d \in Calls, At(d, "revoke")', session'.fam # call'[d].token.fam
                   PROVE  Settled(session.fam)'
        OBVIOUS
      <4>1. d # c /\ call'[d] = call[d] /\ At(d, "revoke")
        BY <2>7 DEF SigningOut, At
      <4>2. StoredIs(t.fam) => Settled(t.fam)
        BY <2>6, <4>1 DEF IInv, Accounted, StoredIs
      <4> QED BY <1>1, <2>6, <2>8, <4>2 DEF Settled
    <3>4. \A d \in Calls : At(d, "delete")' => Settled(session.fam)'
      <4> SUFFICES ASSUME NEW d \in Calls, At(d, "delete")' PROVE Settled(session.fam)'
        OBVIOUS
      <4>1. d # c /\ call'[d] = call[d] /\ At(d, "delete")
        BY <2>7 DEF SigningOut, At
      <4>2. StoredIs(t.fam) => Settled(t.fam)
        BY <4>1 DEF IInv, Accounted, StoredIs
      <4> QED BY <1>1, <2>6, <2>8, <4>2 DEF Settled
    <3>5. hub'[session'.fam].status # "unborn"
      BY <1>1, <2>6 DEF IInv, Accounted
    <3> QED BY <3>1, <3>2, <3>3, <3>4, <3>5 DEF Accounted
  <2>11. KeptApart'
    <3> SUFFICES ASSUME NEW k \in Calls, At(k, "keep")'
                 PROVE  /\ InForce(call[k].token)' /\ ~StoredIs(call[k].token.fam)'
                        /\ \A d \in Calls : d # k /\ Holds(d)' => call'[d].token.fam # call'[k].token.fam
      BY DEF KeptApart
    <3>1. k # c /\ call'[k] = call[k] /\ At(k, "keep")
      BY <2>7 DEF At
    <3>2. InForce(call[k].token) /\ \A d \in Calls : d # k /\ Holds(d) => call[d].token.fam # call[k].token.fam
      BY <3>1 DEF IInv, Exclusive, KeptApart
    <3>3. \A d \in Calls : Holds(d)' => Holds(d) /\ call'[d] = call[d]
      BY <2>7 DEF Holds
    <3> QED BY <1>1, <2>6, <3>1, <3>2, <3>3 DEF InForce, StoredIs
  <2>12. ASSUME NEW d \in Calls PROVE RefreshOf(d)'
    <3> SUFFICES ASSUME Refreshing(d)', call[d].token.fam \notin excused' PROVE RefreshOf(d)'
      BY <2>7 DEF RefreshOf
    <3>1. d # c /\ call'[d] = call[d] /\ Refreshing(d)
      BY <2>7 DEF Refreshing, At
    <3>2. /\ StoredIs(call[d].token.fam) /\ InForce(call[d].token)
          /\ \A e \in Calls : e # d /\ (Refreshing(e) \/ (SigningOut(e) /\ Holds(e))) =>
               call[e].token.fam # call[d].token.fam
      BY <2>1, <3>1 DEF IInv, Exclusive, RefreshOf
    <3>3. FALSE
      BY <1>1, <2>6, <3>1, <3>2
    <3> QED BY <3>3
  <2>13. ASSUME NEW d \in Calls PROVE LogoutOf(d)'
    <3> SUFFICES ASSUME SigningOut(d)' PROVE t.fam \in excused' \/ (Holds(d)' /\ session'.fam = call'[d].token.fam)
      BY <2>6 DEF LogoutOf
    <3>1. d # c /\ call'[d] = call[d] /\ SigningOut(d) /\ LogoutOf(d)
      BY <2>7 DEF SigningOut, At, IInv, Exclusive
    <3> QED BY <2>1, <2>6, <2>9, <3>1 DEF LogoutOf, StoredIs, Holds
  <2>14. StoredInForce'
    BY <2>1, <2>6, <2>9 DEF StoredInForce, InForce
  <2>15. SignedOut'
    <3> SUFFICES ASSUME signedOut, t.fam \notin excused' PROVE SignedOut'
      BY <1>1, <2>6 DEF SignedOut
    <3>1. StoredIs(t.fam) /\ t.fam \notin excused
      BY <2>1, <2>9
    <3>2. PICK d \in Calls : At(d, "delete") /\ Holds(d) /\ call[d].token.fam = t.fam
      BY <3>1 DEF IInv, Exclusive, SignedOut, StoredIs
    <3>3. RefreshOf(c) /\ d # c
      BY <1>1, <3>2 DEF IInv, Exclusive, At
    <3> QED BY <1>1, <3>1, <3>2, <3>3 DEF RefreshOf, SigningOut
  <2> QED BY <2>4, <2>5, <2>10, <2>11, <2>12, <2>13, <2>14, <2>15 DEF IInv, Exclusive
<1> QED BY <1>2, <1>3 DEF Save

-----------------------------------------------------------------------------
(* The steps of a login. *)

(* A signer goes on without a token, or ends; what it leaves is excused.   *)
LEMMA SignerKeeps ==
  ASSUME IInv, NEW c \in Calls, c \in Signers, NEW r \in Call \cup {None},
         call' = [call EXCEPT ![c] = r],
         r = None \/ (/\ r.at \in {"sleep", "poll"} /\ r.token = None /\ r.leader = None
                      /\ r.demanded > BackoffCap \/ r.interval >= r.demanded
                      /\ r.at = "poll" => r.left > 0
                      /\ call[c] # None \/ MayStart(c)),
         UNCHANGED <<session, refreshing, signedOut, unrevoked>>,
         excused \subseteq excused', excused' \subseteq Families,
         hub' \in [Families -> [status : {"unborn", "live", "revoked"}, serial : 0..MaxSerial]],
         \A f \in Families : hub'[f] = hub[f] \/
           (f \in excused' /\ hub'[f].status # "unborn" /\ hub[f].status = "unborn"),
         At(c, "keep") => call[c].token.fam \in excused',
         At(c, "delete") => session = None \/ session.fam \in excused',
         starts' \in 0..MaxStarts, mishaps' \in 0..MaxMishaps
  PROVE  IInv'
<1>1. call'[c] = r /\ \A d \in Calls : d # c => call'[d] = call[d]
  BY SlotSet DEF IInv
<1>2. TypeOK'
  <2>1. r # None => ~(r.at \in {"send", "save", "keep", "revoke"})
    OBVIOUS
  <2> QED BY <2>1, TypeStays DEF IInv, TypeOK
<1>3. Moves(c) /\ ControlOf(c)' /\ PacedAt(c)'
  BY <1>1 DEF Moves, ControlOf, PacedAt, At
<1>4. \A d \in Calls : At(d, "keep") => hub'[call[d].token.fam] = hub[call[d].token.fam]
  <2> SUFFICES ASSUME NEW d \in Calls, At(d, "keep") PROVE hub'[call[d].token.fam] = hub[call[d].token.fam]
    OBVIOUS
  <2>1. call[d].token.fam \in Families /\ hub[call[d].token.fam].status # "unborn"
    BY FamiliesInUse DEF IInv, Accounted
  <2> QED BY <2>1
<1>5. ~At(c, "save")
  BY DEF IInv, Control, ControlOf, At
<1>6. LetsGo
  BY <1>1, <1>4, <1>5 DEF LetsGo, Empty, At, StoredIs
<1> QED BY <1>2, <1>3, <1>6, ControlStays, LettingGo DEF IInv

(* Numbers that a step lowers stay in their ranges.                        *)
LEMMA BoundsStay ==
  ASSUME TypeOK
  PROVE  /\ Mishap \/ Fine => mishaps' \in 0..MaxMishaps
         /\ starts < MaxStarts /\ starts' = starts + 1 => starts' \in 0..MaxStarts
         /\ UNCHANGED starts => starts' \in 0..MaxStarts
         /\ 0 \in 0..DeviceLife /\ DeviceLife \in 0..DeviceLife
         /\ BackoffCap \in Nat /\ SlowDown \in Nat
BY BoundsAssumption, TimesAssumption DEF TypeOK, Mishap, Fine

(* A login starts alone.                                                   *)
LEMMA StartLoginKeeps ==
  ASSUME IInv, NEW c \in Calls, StartLogin(c)
  PROVE  IInv'
<1>1. PICK i \in Intervals : call' = [call EXCEPT ![c] =
         [Blank EXCEPT !.at = "sleep", !.interval = i, !.demanded = i, !.left = DeviceLife]]
  BY DEF StartLogin
<1> DEFINE r == [Blank EXCEPT !.at = "sleep", !.interval = i, !.demanded = i, !.left = DeviceLife]
<1>2. i \in Nat
  BY TimesAssumption
<1>3. r \in Call /\ r.at = "sleep" /\ r.token = None /\ r.leader = None /\ r.interval = i /\ r.demanded = i
  BY <1>2, BoundsStay DEF Blank, Call, Stages, IInv
<1>4. /\ c \in Signers /\ MayStart(c) /\ call[c] = None /\ starts' \in 0..MaxStarts
      /\ UNCHANGED <<hub, session, refreshing, signedOut, excused, unrevoked, mishaps>>
  BY BoundsStay DEF StartLogin, MayStart, history, IInv
<1>5. ~At(c, "keep") /\ ~At(c, "delete") /\ r.interval >= r.demanded /\ r.at # "poll"
  BY <1>2, <1>3, <1>4 DEF At
<1> HIDE DEF r
<1> QED BY <1>1, <1>3, <1>4, <1>5, SignerKeeps DEF IInv, TypeOK, r

(* Time passes for a login.                                                *)
LEMMA SleepKeeps ==
  ASSUME IInv, NEW c \in Calls, Sleep(c)
  PROVE  IInv'
<1> DEFINE left == call[c].left - call[c].interval
<1>1. /\ call[c] # None /\ call[c].at = "sleep" /\ call[c] \in Call /\ c \in Signers
      /\ call[c].token = None /\ call[c].leader = None
      /\ call[c].demanded > BackoffCap \/ call[c].interval >= call[c].demanded
      /\ UNCHANGED <<hub, session, refreshing, signedOut, excused, unrevoked, starts, mishaps>>
  BY InSlot DEF Sleep, At, IInv, Control, ControlOf, Paced, PacedAt, history
<1>2. CASE left > 0 /\ call' = [call EXCEPT ![c] = [call[c] EXCEPT !.at = "poll", !.left = left]]
  <2> DEFINE r == [call[c] EXCEPT !.at = "poll", !.left = left]
  <2>1. left \in 0..DeviceLife
    BY <1>1, <1>2, BoundsAssumption DEF Call
  <2>2. /\ r \in Call /\ r.at = "poll" /\ r.token = None /\ r.leader = None /\ r.left > 0
        /\ r.demanded = call[c].demanded /\ r.interval = call[c].interval
    BY <1>1, <1>2, <2>1 DEF Call, Stages
  <2> QED BY <1>1, <1>2, <2>2, SignerKeeps DEF IInv, TypeOK, At
<1>3. CASE End(c)
  BY <1>1, <1>3, SignerKeeps DEF End, IInv, TypeOK, At
<1> QED BY <1>2, <1>3 DEF Sleep

(* What a granted poll hands over is a session.                            *)
LEMMA GrantedType ==
  ASSUME TypeOK, \E f \in Families : hub[f].status = "unborn", hub' = Granted
  PROVE  /\ Born \in Families /\ hub[Born].status = "unborn"
         /\ hub' \in [Families -> [status : {"unborn", "live", "revoked"}, serial : 0..MaxSerial]]
         /\ hub'[Born] = [status |-> "live", serial |-> 1]
         /\ \A f \in Families : f # Born => hub'[f] = hub[f]
<1>1. Born \in Families /\ hub[Born].status = "unborn"
  BY DEF Born
<1>2. 1 \in 0..MaxSerial
  BY BoundsAssumption
<1> QED BY <1>1, <1>2 DEF TypeOK, Granted

(* The tokens of a login just granted are nobody else's.                   *)
LEMMA GrantKeeps ==
  ASSUME IInv, NEW c \in Calls, At(c, "poll"), \E f \in Families : hub[f].status = "unborn",
         hub' = Granted, GotoWith(c, "keep", [fam |-> Born, serial |-> 1, fresh |-> TRUE]),
         UNCHANGED <<session, refreshing, signedOut, excused, unrevoked, starts, mishaps>>
  PROVE  IInv'
<1> DEFINE t == [fam |-> Born, serial |-> 1, fresh |-> TRUE]
           r == [call[c] EXCEPT !.at = "keep", !.token = t]
<1>1. /\ Born \in Families /\ hub[Born].status = "unborn"
      /\ hub' \in [Families -> [status : {"unborn", "live", "revoked"}, serial : 0..MaxSerial]]
      /\ hub'[Born] = [status |-> "live", serial |-> 1]
      /\ \A f \in Families : f # Born => hub'[f] = hub[f]
  BY GrantedType DEF IInv
<1>2. /\ call[c] # None /\ call[c].at = "poll" /\ call[c] \in Call /\ ~Holds(c)
      /\ c \in Signers /\ call[c].leader = None
  BY InSlot DEF At, IInv, Control, ControlOf, Holds
<1>3. t \in Session
  <2>1. 1 \in 0..MaxSerial
    BY BoundsAssumption
  <2> QED BY <1>1, <2>1 DEF Session, NoToken
<1>4. r \in Call /\ r.at = "keep" /\ r.token = t /\ r.leader = None /\ t # None /\ r # None
  BY <1>2, <1>3, NoneAssumption, ZenonT(60) DEF Call, Stages
<1>5. call' = [call EXCEPT ![c] = r] /\ call'[c] = r /\ \A d \in Calls : d # c => call'[d] = call[d]
  BY <1>4, SlotSet DEF IInv, GotoWith
<1>6. TypeOK'
  BY <1>1, <1>4, <1>5, TypeStays DEF IInv, TypeOK
<1>7. Control' /\ Alone' /\ Paced'
  <2>1. Moves(c) /\ ControlOf(c)' /\ PacedAt(c)'
    BY <1>2, <1>4, <1>5 DEF Moves, ControlOf, PacedAt, At
  <2> QED BY <2>1, ControlStays DEF IInv
<1>8. /\ session # None => session.fam \in Families /\ session.fam # Born
      /\ \A d \in Calls : Holds(d) => call[d].token.fam \in Families /\ call[d].token.fam # Born
  BY <1>1, FamiliesInUse DEF IInv, Accounted
<1>9. /\ Holds(c)' /\ At(c, "keep")' /\ call'[c].token = t
      /\ ~Refreshing(c)' /\ ~SigningOut(c)' /\ ~Refreshing(c) /\ ~SigningOut(c) /\ ~At(c, "keep")
      /\ \A d \in Calls : d # c => (Holds(d)' <=> Holds(d)) /\ call'[d] = call[d]
  BY <1>2, <1>4, <1>5 DEF Holds, At, Refreshing, SigningOut
<1>10. Accounted'
  <2>1. NothingForgotten'
    <3> SUFFICES ASSUME NEW f \in Families, hub'[f].status = "live"
                 PROVE  f \in excused \cup unrevoked \cup InHand' \/ StoredIs(f)
      BY DEF NothingForgotten, StoredIs
    <3>1. CASE f = Born
      BY <1>4, <1>9, <3>1 DEF InHand, Holds
    <3>2. CASE f # Born
      <4>1. f \in excused \cup unrevoked \cup InHand \/ StoredIs(f)
        BY <1>1, <3>2 DEF IInv, Accounted, NothingForgotten, StoredIs
      <4>2. CASE f \in InHand
        <5>1. PICK d \in Calls : Holds(d) /\ call[d].token.fam = f
          BY <4>2 DEF InHand, Holds
        <5>2. d # c
          BY <1>2, <5>1
        <5> QED BY <1>9, <5>1, <5>2 DEF InHand, Holds
      <4> QED BY <4>1, <4>2
    <3> QED BY <3>1, <3>2
  <2>2. \A f \in Families : f # Born => (Settled(f)' <=> Settled(f))
    BY <1>1 DEF Settled
  <2>3. session # None => hub'[session.fam].status # "unborn" /\ (Settled(session.fam)' <=> Settled(session.fam))
    BY <1>1, <1>8, <2>2 DEF IInv, Accounted, Settled
  <2>4. \A d \in Calls : Holds(d)' =>
          /\ hub'[call'[d].token.fam].status # "unborn"
          /\ At(d, "keep")' \/ StoredIs(call[d].token.fam)' \/ Settled(call[d].token.fam)'
          /\ At(d, "delete")' => Settled(call[d].token.fam)'
    <3> SUFFICES ASSUME NEW d \in Calls, Holds(d)', d # c
                 PROVE  /\ hub'[call'[d].token.fam].status # "unborn"
                        /\ At(d, "keep")' \/ StoredIs(call[d].token.fam)' \/ Settled(call[d].token.fam)'
                        /\ At(d, "delete")' => Settled(call[d].token.fam)'
      BY <1>1, <1>9 DEF SigningOut
    <3>1. /\ Holds(d) /\ call'[d] = call[d] /\ hub'[call[d].token.fam] = hub[call[d].token.fam]
      BY <1>1, <1>8, <1>9
    <3> QED BY <3>1 DEF IInv, Accounted, At, StoredIs, Settled
  <2> QED BY <1>9, <2>1, <2>3, <2>4 DEF IInv, Accounted, At, SigningOut
<1>11. KeptApart'
  <2> SUFFICES ASSUME NEW k \in Calls, At(k, "keep")'
               PROVE  /\ InForce(call[k].token)' /\ ~StoredIs(call[k].token.fam)'
                      /\ \A d \in Calls : d # k /\ Holds(d)' => call'[d].token.fam # call'[k].token.fam
    BY DEF KeptApart
  <2>1. CASE k = c
    BY <1>1, <1>8, <1>9, <2>1 DEF InForce, StoredIs
  <2>2. CASE k # c
    <3>1. At(k, "keep")
      BY <1>9, <2>2 DEF At
    <3>2. k \in Signers /\ call[k] # None
      BY <3>1 DEF IInv, Control, ControlOf, At
    <3> QED BY <1>2, <2>2, <3>2 DEF IInv, Alone
  <2> QED BY <2>1, <2>2
<1>12. ASSUME NEW d \in Calls PROVE RefreshOf(d)' /\ LogoutOf(d)'
  <2>1. CASE d = c
    BY <1>9, <2>1 DEF RefreshOf, LogoutOf
  <2>2. CASE d # c
    <3>1. call'[d] = call[d] /\ RefreshOf(d) /\ LogoutOf(d) /\ (Holds(d)' <=> Holds(d))
      BY <1>9, <2>2 DEF IInv, Exclusive
    <3>2. Refreshing(d) => hub'[call[d].token.fam] = hub[call[d].token.fam]
      BY <1>1, <1>8, FamiliesInUse DEF IInv
    <3>3. \A e \in Calls : (Refreshing(e) \/ (SigningOut(e) /\ Holds(e)))' =>
            call'[e] = call[e] /\ (Refreshing(e) \/ (SigningOut(e) /\ Holds(e)))
      BY <1>9 DEF Refreshing, SigningOut, At
    <3>4. Refreshing(d)' <=> Refreshing(d)
      BY <3>1 DEF Refreshing, At
    <3>5. RefreshOf(d)'
      BY <3>1, <3>2, <3>3, <3>4 DEF RefreshOf, InForce, StoredIs
    <3>6. LogoutOf(d)'
      BY <3>1 DEF LogoutOf, SigningOut, At
    <3> QED BY <3>5, <3>6
  <2> QED BY <2>1, <2>2
<1>13. StoredInForce' /\ SignedOut'
  <2>1. session # None => hub'[session.fam] = hub[session.fam]
    BY <1>1, <1>8
  <2>2. \A d \in Calls : At(d, "save") \/ At(d, "delete") => d # c
    BY <1>2 DEF At
  <2> QED BY <1>9, <2>1, <2>2 DEF IInv, Exclusive, StoredInForce, SignedOut, InForce, At
<1> QED BY <1>6, <1>7, <1>10, <1>11, <1>12, <1>13 DEF IInv, Exclusive

(* Every answer to a poll.                                                 *)
LEMMA PollKeeps ==
  ASSUME IInv, NEW c \in Calls, Poll(c)
  PROVE  IInv'
<1> DEFINE i == call[c].interval
           d == call[c].demanded
<1>1. /\ At(c, "poll") /\ ~At(c, "keep") /\ ~At(c, "delete")
      /\ call[c] # None /\ call[c].at = "poll" /\ call[c] \in Call /\ c \in Signers
      /\ call[c].token = None /\ call[c].leader = None
      /\ d > BackoffCap \/ i >= d
      /\ i \in Nat /\ d \in Nat
      /\ UNCHANGED <<session, refreshing, signedOut, unrevoked, starts>>
  BY InSlot DEF Poll, At, IInv, Control, ControlOf, Paced, PacedAt, Call
<1>2. ASSUME NEW j \in Nat, NEW e \in Nat, NEW u \in BOOLEAN, e > BackoffCap \/ j >= e,
             call' = [call EXCEPT ![c] = [call[c] EXCEPT !.at = "sleep", !.interval = j, !.demanded = e, !.used = u]],
             Mishap \/ Fine,
             (UNCHANGED <<hub, excused>>) \/
               (hub' = Granted /\ excused' = excused \cup {Born} /\ \E f \in Families : hub[f].status = "unborn")
      PROVE  IInv'
  <2> DEFINE r == [call[c] EXCEPT !.at = "sleep", !.interval = j, !.demanded = e, !.used = u]
  <2>1. /\ r \in Call /\ r.at = "sleep" /\ r.token = None /\ r.leader = None
        /\ r.interval = j /\ r.demanded = e
    BY <1>1, <1>2 DEF Call, Stages
  <2>2. mishaps' \in 0..MaxMishaps /\ starts' \in 0..MaxStarts
    BY <1>1, <1>2, BoundsStay DEF IInv
  <2>3. CASE UNCHANGED <<hub, excused>>
    BY <1>1, <1>2, <2>1, <2>2, <2>3, SignerKeeps DEF IInv, TypeOK
  <2>4. CASE hub' = Granted /\ excused' = excused \cup {Born} /\ \E f \in Families : hub[f].status = "unborn"
    <3>1. /\ Born \in Families /\ hub[Born].status = "unborn" /\ hub'[Born].status # "unborn"
          /\ hub' \in [Families -> [status : {"unborn", "live", "revoked"}, serial : 0..MaxSerial]]
          /\ \A f \in Families : f # Born => hub'[f] = hub[f]
      BY <2>4, GrantedType DEF IInv
    <3>2. excused' \subseteq Families /\ excused \subseteq excused' /\ Born \in excused'
      BY <2>4, <3>1 DEF IInv, TypeOK
    <3> HIDE DEF Born
    <3> QED BY <1>1, <1>2, <2>1, <2>2, <3>1, <3>2, SignerKeeps
  <2> QED BY <1>2, <2>3, <2>4
<1>3. i + SlowDown \in Nat /\ d + SlowDown \in Nat /\ Backoff(i) \in Nat
      /\ (d + SlowDown > BackoffCap \/ i + SlowDown >= d + SlowDown)
      /\ (d > BackoffCap \/ Backoff(i) >= d)
  BY <1>1, TimesAssumption DEF Backoff
<1>4. call[c].used \in BOOLEAN
  BY <1>1 DEF Call
<1>5. ASSUME NEW j \in Nat, NEW e \in Nat
      PROVE  [call[c] EXCEPT !.at = "sleep", !.interval = j, !.demanded = e] =
             [call[c] EXCEPT !.at = "sleep", !.interval = j, !.demanded = e, !.used = call[c].used]
  BY <1>1 DEF Call
<1>6. CASE Fine /\ Sleeping(c, i, d) /\ UNCHANGED <<hub, excused>>
  BY <1>1, <1>2, <1>4, <1>5, <1>6 DEF Sleeping
<1>7. CASE Fine /\ Sleeping(c, Slower(i), d + SlowDown) /\ UNCHANGED <<hub, excused>>
  BY <1>2, <1>3, <1>4, <1>5, <1>7 DEF Sleeping, Slower
<1>8. CASE /\ Fine /\ \E f \in Families : hub[f].status = "unborn"
           /\ hub' = Granted /\ GotoWith(c, "keep", [fam |-> Born, serial |-> 1, fresh |-> TRUE])
           /\ UNCHANGED excused
  BY <1>1, <1>8, GrantKeeps DEF Fine
<1>9. CASE Fine /\ End(c) /\ UNCHANGED <<hub, excused>>
  BY <1>1, <1>9, SignerKeeps, BoundsStay DEF End, IInv, TypeOK
<1>10. CASE Mishap /\ Sleeping(c, Backoff(i), d) /\ UNCHANGED <<hub, excused>>
  BY <1>1, <1>2, <1>3, <1>4, <1>5, <1>10 DEF Sleeping
<1>11. CASE /\ Mishap /\ \E f \in Families : hub[f].status = "unborn"
            /\ hub' = Granted /\ excused' = excused \cup {Born}
            /\ call' = [call EXCEPT ![c] = [@ EXCEPT !.at = "sleep", !.interval = Backoff(i), !.used = TRUE]]
  <2>1. [call[c] EXCEPT !.at = "sleep", !.interval = Backoff(i), !.used = TRUE] =
        [call[c] EXCEPT !.at = "sleep", !.interval = Backoff(i), !.demanded = d, !.used = TRUE]
    BY <1>1 DEF Call
  <2>2. call' = [call EXCEPT ![c] =
                   [call[c] EXCEPT !.at = "sleep", !.interval = Backoff(i), !.demanded = d, !.used = TRUE]]
    BY <1>11, <2>1
  <2> QED BY <1>1, <1>2, <1>3, <1>11, <2>2
<1> QED BY <1>6, <1>7, <1>8, <1>9, <1>10, <1>11 DEF Poll

(* What a signer stores or removes: the session left behind is excused.    *)
LEMMA KeepKeeps ==
  ASSUME IInv, NEW c \in Calls, Keep(c)
  PROVE  IInv'
<1> DEFINE t == call[c].token
<1>1. /\ At(c, "keep") /\ ~At(c, "delete") /\ call[c] # None /\ call[c].at = "keep" /\ Holds(c) /\ c \in Signers
      /\ t \in Session /\ t # None /\ t.fam \in Families
      /\ call' = [call EXCEPT ![c] = None]
      /\ UNCHANGED <<hub, refreshing, unrevoked, starts>>
  BY InSlot, NoneAssumption DEF Keep, End, At, IInv, Session, Holds, Control, ControlOf
<1>2. CASE Mishap /\ Excuse(t) /\ UNCHANGED <<session, signedOut>>
  <2>1. excused' = excused \cup {t.fam} /\ excused' \subseteq Families
    BY <1>1, <1>2 DEF Excuse, IInv, TypeOK
  <2> QED BY <1>1, <1>2, <2>1, SignerKeeps, BoundsStay DEF IInv, TypeOK
<1>3. CASE session' = t /\ signedOut' = FALSE /\ Fine /\ Excuse(session)
  <2>1. /\ excused \subseteq excused' /\ excused' \subseteq Families
        /\ \A f : StoredIs(f) => f \in excused'
    BY <1>3, FamiliesInUse DEF Excuse, IInv, TypeOK, StoredIs
  <2>2. call'[c] = None /\ \A d \in Calls : d # c => call'[d] = call[d]
    BY <1>1, SlotSet DEF IInv
  <2>3. TypeOK'
    BY <1>1, <1>3, <2>1, TypeStays DEF Fine, IInv, TypeOK
  <2>4. Control' /\ Alone' /\ Paced'
    <3>1. Moves(c) /\ ControlOf(c)' /\ PacedAt(c)'
      BY <1>1, <2>2 DEF Moves, ControlOf, PacedAt, At
    <3> QED BY <3>1, ControlStays DEF IInv
  <2>5. /\ InForce(t) /\ session' # None
        /\ \A d \in Calls : d # c /\ Holds(d) => call[d].token.fam # t.fam
    BY <1>1, <1>3 DEF IInv, Exclusive, KeptApart
  <2>6. \A d \in Calls : ~SigningOut(d)' /\ ~At(d, "keep")'
    <3> SUFFICES ASSUME NEW d \in Calls, SigningOut(d)' \/ At(d, "keep")' PROVE FALSE
      OBVIOUS
    <3>1. d # c /\ call[d] # None /\ d \in Signers
      BY <2>2 DEF SigningOut, At, IInv, Control, ControlOf
    <3> QED BY <1>1, <3>1 DEF IInv, Alone
  <2>7. \A d \in Calls : Holds(d)' => d # c /\ call'[d] = call[d] /\ Holds(d) /\ call[d].token.fam \in Families
    BY <2>2, FamiliesInUse DEF Holds, IInv
  <2>8. \A f \in Families : Settled(f) \/ StoredIs(f) => Settled(f)'
    BY <1>1, <2>1 DEF Settled
  <2>9. Accounted'
    <3>1. NothingForgotten'
      <4> SUFFICES ASSUME NEW f \in Families, hub[f].status = "live", f # t.fam
                   PROVE  f \in excused' \cup unrevoked' \cup InHand'
        BY <1>1, <1>3 DEF NothingForgotten
      <4>1. f \in excused \cup unrevoked \cup InHand \/ StoredIs(f)
        BY DEF IInv, Accounted, NothingForgotten, StoredIs
      <4>2. CASE f \in InHand
        <5>1. PICK d \in Calls : Holds(d) /\ call[d].token.fam = f
          BY <4>2 DEF InHand, Holds
        <5>2. call'[d] = call[d]
          BY <2>2, <5>1
        <5> QED BY <5>1, <5>2 DEF InHand, Holds
      <4> QED BY <1>1, <2>1, <4>1, <4>2
    <3>2. hub'[session'.fam].status # "unborn"
      BY <1>1, <1>3 DEF IInv, Accounted
    <3>3. \A d \in Calls : Holds(d)' =>
            hub'[call'[d].token.fam].status # "unborn" /\ Settled(call[d].token.fam)'
      <4> SUFFICES ASSUME NEW d \in Calls, Holds(d)'
                   PROVE  hub'[call'[d].token.fam].status # "unborn" /\ Settled(call[d].token.fam)'
        OBVIOUS
      <4>1. d # c /\ call'[d] = call[d] /\ Holds(d) /\ call[d].token.fam \in Families /\ ~At(d, "keep")
        BY <2>6, <2>7 DEF At
      <4>2. StoredIs(call[d].token.fam) \/ Settled(call[d].token.fam)
        BY <4>1 DEF IInv, Accounted
      <4>3. Settled(call[d].token.fam)'
        BY <1>1, <2>1, <4>1, <4>2 DEF Settled
      <4> QED BY <1>1, <4>1, <4>3 DEF IInv, Accounted
    <3> QED BY <2>6, <3>1, <3>2, <3>3 DEF Accounted, SigningOut
  <2>10. KeptApart' /\ \A d \in Calls : LogoutOf(d)'
    BY <2>6 DEF KeptApart, LogoutOf
  <2>11. ASSUME NEW d \in Calls PROVE RefreshOf(d)'
    <3> SUFFICES ASSUME Refreshing(d)', call'[d].token.fam \notin excused' PROVE FALSE
      BY DEF RefreshOf
    <3>1. call'[d] = call[d] /\ Refreshing(d) /\ call[d].token.fam \notin excused
      BY <2>1, <2>2 DEF Refreshing, At
    <3> QED BY <2>1, <3>1 DEF IInv, Exclusive, RefreshOf
  <2>12. StoredInForce' /\ SignedOut'
    BY <1>1, <1>3, <2>5 DEF StoredInForce, SignedOut, InForce
  <2> QED BY <2>3, <2>4, <2>9, <2>10, <2>11, <2>12 DEF IInv, Exclusive
<1> QED BY <1>1, <1>2, <1>3 DEF Keep

-----------------------------------------------------------------------------
(* The steps of a logout. *)
LEMMA StartLogoutKeeps ==
  ASSUME IInv, NEW c \in Calls, StartLogout(c)
  PROVE  IInv'
<1> DEFINE r == [Blank EXCEPT !.at = IF session = None THEN "delete" ELSE "revoke", !.token = session]
<1>1. /\ c \in Signers /\ MayStart(c) /\ call[c] = None /\ session \in Session \cup {None}
      /\ starts' \in 0..MaxStarts /\ mishaps' = mishaps
      /\ call' = [call EXCEPT ![c] = r]
      /\ UNCHANGED <<hub, session, refreshing, signedOut, unrevoked>> /\ ExcuseRace(c)
  BY BoundsStay DEF StartLogout, LogoutLoads, MayStart, IInv, TypeOK
<1>2. /\ r \in Call /\ r.token = session /\ r.leader = None /\ r # None
      /\ session = None => r.at = "delete"
      /\ session # None => r.at = "revoke"
  <2>1. r \in Call
    BY <1>1, BoundsStay DEF Blank, Call, Stages, IInv
  <2> QED BY <2>1, NoneAssumption DEF Blank
<1>3. call'[c] = r /\ \A d \in Calls : d # c => call'[d] = call[d]
  BY <1>1, <1>2, SlotSet DEF IInv
<1>4. excused \subseteq excused' /\ excused' \subseteq Families
  BY <1>1, FamiliesInUse DEF ExcuseRace, IInv, TypeOK, Raced
<1> HIDE DEF r
<1>5. TypeOK'
  BY <1>1, <1>2, <1>4, TypeStays DEF IInv, TypeOK
<1>6. Control' /\ Alone' /\ Paced'
  <2>1. Moves(c) /\ ControlOf(c)' /\ PacedAt(c)'
    BY <1>1, <1>2, <1>3 DEF Moves, ControlOf, PacedAt, At
  <2> QED BY <2>1, ControlStays DEF IInv
<1>7. /\ ~Refreshing(c)' /\ ~At(c, "keep")' /\ (At(c, "delete")' <=> session = None)
      /\ (At(c, "revoke")' <=> session # None) /\ (Holds(c)' <=> session # None) /\ call'[c].token = session
      /\ \A d \in Calls : d # c => (Holds(d)' <=> Holds(d)) /\ call'[d] = call[d]
  BY <1>1, <1>2, <1>3 DEF Refreshing, At, Holds
<1>8. \A d \in Calls : d # c => ~SigningOut(d) /\ ~At(d, "keep")
  <2> SUFFICES ASSUME NEW d \in Calls, d # c, SigningOut(d) \/ At(d, "keep") PROVE FALSE
    OBVIOUS
  <2>1. call[d] # None /\ d \in Signers
    BY DEF SigningOut, At, IInv, Control, ControlOf
  <2> QED BY <1>1, <2>1 DEF MayStart
<1>9. Accounted'
  <2>1. NothingForgotten'
    <3> SUFFICES ASSUME NEW f \in Families, hub[f].status = "live"
                 PROVE  f \in excused' \cup unrevoked \cup InHand' \/ StoredIs(f)
      BY <1>1 DEF NothingForgotten, StoredIs
    <3>1. f \in excused \cup unrevoked \cup InHand \/ StoredIs(f)
      BY DEF IInv, Accounted, NothingForgotten, StoredIs
    <3>2. CASE f \in InHand
      <4>1. PICK d \in Calls : Holds(d) /\ call[d].token.fam = f
        BY <3>2 DEF InHand, Holds
      <4>2. call'[d] = call[d]
        BY <1>1, <1>3, <4>1 DEF Holds
      <4> QED BY <4>1, <4>2 DEF InHand, Holds
    <3> QED BY <1>4, <3>1, <3>2
  <2>2. ASSUME NEW d \in Calls, Holds(d)'
        PROVE  /\ hub'[call'[d].token.fam].status # "unborn"
               /\ At(d, "keep")' \/ StoredIs(call[d].token.fam)' \/ Settled(call[d].token.fam)'
               /\ At(d, "delete")' => Settled(call[d].token.fam)'
    <3>1. CASE d = c
      BY <1>1, <1>7, <2>2, <3>1 DEF IInv, Accounted, StoredIs
    <3>2. CASE d # c
      BY <1>1, <1>4, <1>7, <2>2, <3>2 DEF IInv, Accounted, StoredIs, Settled, At
    <3> QED BY <3>1, <3>2
  <2>3. ASSUME NEW d \in Calls, session # None
        PROVE  /\ At(d, "revoke")' => session.fam = call'[d].token.fam
               /\ ~At(d, "delete")'
    BY <1>7, <1>8, <2>3 DEF SigningOut, At
  <2> QED BY <1>1, <2>1, <2>2, <2>3 DEF IInv, Accounted
<1>10. KeptApart'
  BY <1>7, <1>8 DEF KeptApart, At
<1>11. ASSUME session # None, session.fam \notin excused', NEW d \in Calls, d # c, Refreshing(d)
       PROVE  call[d].token.fam # session.fam
  <2>1. ~Raced(c)
    BY <1>1, <1>11 DEF ExcuseRace
  <2>2. ProcOf[d] # ProcOf[c] /\ Holds(d)
    BY <1>1, <1>11, FamiliesInUse DEF MayStart, Refreshing, At, IInv
  <2> QED BY <1>11, <2>1, <2>2 DEF Raced, Refreshing, At, Holds
<1>12. ASSUME NEW d \in Calls PROVE RefreshOf(d)' /\ LogoutOf(d)'
  <2>1. CASE d = c
    BY <1>1, <1>7, <2>1 DEF RefreshOf, LogoutOf, SigningOut
  <2>2. CASE d # c
    <3>1. call'[d] = call[d] /\ RefreshOf(d) /\ ~SigningOut(d)
      BY <1>7, <1>8, <2>2 DEF IInv, Exclusive
    <3>2. LogoutOf(d)'
      BY <3>1 DEF LogoutOf, SigningOut, At
    <3>3. RefreshOf(d)'
      <4> SUFFICES ASSUME Refreshing(d), call[d].token.fam \notin excused' PROVE RefreshOf(d)'
        BY <3>1 DEF RefreshOf, Refreshing, At
      <4>1. /\ StoredIs(call[d].token.fam) /\ InForce(call[d].token)
            /\ \A e \in Calls : e # d /\ (Refreshing(e) \/ (SigningOut(e) /\ Holds(e))) =>
                 call[e].token.fam # call[d].token.fam
        BY <1>4, <3>1 DEF RefreshOf
      <4>2. session # None /\ session.fam = call[d].token.fam
        BY <4>1 DEF StoredIs
      <4>3. FALSE
        BY <1>11, <2>2, <4>2
      <4> QED BY <4>3
    <3> QED BY <3>2, <3>3
  <2> QED BY <2>1, <2>2
<1>13. StoredInForce' /\ SignedOut'
  <2>1. \A d \in Calls : At(d, "save") \/ At(d, "delete") => d # c
    BY <1>1 DEF At
  <2> QED BY <1>1, <1>4, <1>7, <2>1 DEF IInv, Exclusive, StoredInForce, SignedOut, InForce, At
<1> QED BY <1>5, <1>6, <1>9, <1>10, <1>12, <1>13 DEF IInv, Exclusive

(* Hub revokes, or the family is put on the books as unrevoked.            *)
LEMMA RevokeKeeps ==
  ASSUME IInv, NEW c \in Calls, Revoke(c)
  PROVE  IInv'
<1> DEFINE t == call[c].token
           r == [call[c] EXCEPT !.at = "delete"]
           revoked == [hub EXCEPT ![t.fam].status = "revoked"]
<1>1. /\ At(c, "revoke") /\ call[c] # None /\ call[c].at = "revoke" /\ call[c] \in Call /\ Holds(c)
      /\ c \in Signers /\ call[c].leader = None /\ t.fam \in Families
      /\ hub[t.fam].status # "unborn"
  BY InSlot, FamiliesInUse DEF Revoke, At, IInv, Holds, Control, ControlOf, Accounted
<1>2. /\ call' = [call EXCEPT ![c] = r] /\ UNCHANGED <<session, refreshing, excused, starts>>
      /\ signedOut' = TRUE /\ unrevoked \subseteq unrevoked' /\ unrevoked' \subseteq Families
      /\ mishaps' \in 0..MaxMishaps /\ hub' \in {hub, revoked}
      /\ hub' = revoked \/ t.fam \in unrevoked'
  BY <1>1, BoundsStay DEF Revoke, Goto, GoesOn, IInv, TypeOK
<1>3. /\ r \in Call /\ r.at = "delete" /\ r.token = t /\ r.leader = None /\ r # None
  <2>1. r \in Call
    BY <1>1 DEF Call, Stages
  <2> QED BY <1>1, <2>1, NoneAssumption DEF Call
<1>4. call'[c] = r /\ \A d \in Calls : d # c => call'[d] = call[d]
  BY <1>2, <1>3, SlotSet DEF IInv
<1>5. /\ hub' \in [Families -> [status : {"unborn", "live", "revoked"}, serial : 0..MaxSerial]]
      /\ \A f \in Families : f # t.fam => hub'[f] = hub[f]
      /\ hub'[t.fam].status = "revoked" \/ t.fam \in unrevoked'
      /\ hub'[t.fam].status # "unborn"
  BY <1>1, <1>2 DEF IInv, TypeOK
<1> HIDE DEF r
<1>6. TypeOK'
  BY <1>2, <1>3, <1>5, TypeStays DEF IInv, TypeOK
<1>7. Control' /\ Alone' /\ Paced'
  <2>1. Moves(c) /\ ControlOf(c)' /\ PacedAt(c)'
    BY <1>1, <1>2, <1>3, <1>4 DEF Moves, ControlOf, PacedAt, At
  <2> QED BY <2>1, ControlStays DEF IInv
<1>8. /\ ~Refreshing(c)' /\ ~At(c, "keep")' /\ ~At(c, "revoke")' /\ At(c, "delete")' /\ Holds(c)'
      /\ SigningOut(c)' /\ call'[c].token = t
      /\ \A d \in Calls : d # c => (Holds(d)' <=> Holds(d)) /\ call'[d] = call[d]
  BY <1>1, <1>3, <1>4 DEF Refreshing, At, Holds, SigningOut
<1>9. \A d \in Calls : d # c => ~SigningOut(d) /\ ~At(d, "keep")
  <2> SUFFICES ASSUME NEW d \in Calls, d # c, SigningOut(d) \/ At(d, "keep") PROVE FALSE
    OBVIOUS
  <2>1. call[d] # None /\ d \in Signers
    BY DEF SigningOut, At, IInv, Control, ControlOf
  <2> QED BY <1>1, <2>1 DEF IInv, Alone
<1>10. /\ \A f \in Families : Settled(f) \/ f = t.fam => Settled(f)'
       /\ \A f \in Families : hub[f].status # "unborn" => hub'[f].status # "unborn"
  BY <1>2, <1>5 DEF Settled
<1>11. Accounted'
  <2>1. NothingForgotten'
    <3> SUFFICES ASSUME NEW f \in Families, hub'[f].status = "live", f # t.fam
                 PROVE  f \in excused \cup unrevoked' \cup InHand' \/ StoredIs(f)
      BY <1>2, <1>5 DEF NothingForgotten, StoredIs
    <3>1. f \in excused \cup unrevoked \cup InHand \/ StoredIs(f)
      BY <1>5 DEF IInv, Accounted, NothingForgotten, StoredIs
    <3>2. CASE f \in InHand
      <4>1. PICK d \in Calls : Holds(d) /\ call[d].token.fam = f
        BY <3>2 DEF InHand, Holds
      <4>2. call'[d] = call[d]
        BY <1>4, <4>1
      <4> QED BY <4>1, <4>2 DEF InHand, Holds
    <3> QED BY <1>2, <3>1, <3>2
  <2>2. ASSUME NEW d \in Calls, Holds(d)'
        PROVE  /\ hub'[call'[d].token.fam].status # "unborn"
               /\ At(d, "keep")' \/ StoredIs(call[d].token.fam)' \/ Settled(call[d].token.fam)'
               /\ At(d, "delete")' => Settled(call[d].token.fam)'
    <3>1. CASE d = c
      BY <1>1, <1>2, <1>5, <1>8, <3>1 DEF Settled
    <3>2. CASE d # c
      <4>1. Holds(d) /\ call'[d] = call[d] /\ ~At(d, "keep") /\ ~At(d, "delete") /\ call[d].token.fam \in Families
        BY <1>8, <1>9, <2>2, <3>2, FamiliesInUse DEF SigningOut, IInv
      <4>2. Settled(call[d].token.fam) => Settled(call[d].token.fam)'
        BY <1>2, <1>5, <4>1 DEF Settled
      <4> QED BY <1>2, <1>10, <4>1, <4>2 DEF IInv, Accounted, StoredIs, At
    <3> QED BY <3>1, <3>2
  <2>3. ASSUME session # None
        PROVE  hub'[session.fam].status # "unborn" /\ Settled(session.fam)'
    <3>1. session.fam \in Families /\ (session.fam = t.fam \/ Settled(session.fam))
      BY <1>1, <2>3, FamiliesInUse DEF IInv, Accounted
    <3>2. Settled(session.fam)'
      BY <1>2, <1>5, <3>1 DEF Settled
    <3> QED BY <1>10, <2>3, <3>1, <3>2 DEF IInv, Accounted
  <2> QED BY <1>2, <1>8, <1>9, <2>1, <2>2, <2>3 DEF Accounted, SigningOut, At
<1>12. KeptApart'
  BY <1>8, <1>9 DEF KeptApart, At
<1>13. ASSUME NEW d \in Calls PROVE RefreshOf(d)' /\ LogoutOf(d)'
  <2>1. CASE d = c
    <3>1. LogoutOf(c) /\ SigningOut(c)
      BY <1>1 DEF IInv, Exclusive, SigningOut
    <3> QED BY <1>1, <1>2, <1>8, <2>1, <3>1 DEF RefreshOf, LogoutOf
  <2>2. CASE d # c
    <3>1. call'[d] = call[d] /\ RefreshOf(d) /\ ~SigningOut(d)
      BY <1>8, <1>9, <2>2 DEF IInv, Exclusive
    <3>2. LogoutOf(d)'
      BY <3>1 DEF LogoutOf, SigningOut, At
    <3>3. RefreshOf(d)'
      <4> SUFFICES ASSUME Refreshing(d), call[d].token.fam \notin excused PROVE RefreshOf(d)'
        BY <1>2, <3>1 DEF RefreshOf, Refreshing, At
      <4>1. /\ StoredIs(call[d].token.fam) /\ InForce(call[d].token)
            /\ \A e \in Calls : e # d /\ (Refreshing(e) \/ (SigningOut(e) /\ Holds(e))) =>
                 call[e].token.fam # call[d].token.fam
        BY <3>1 DEF RefreshOf
      <4>2. call[d].token.fam # t.fam /\ call[d].token.fam \in Families
        BY <1>1, <2>2, <4>1, FamiliesInUse DEF SigningOut, IInv
      <4>3. \A e \in Calls : e # c =>
              ((Refreshing(e) \/ (SigningOut(e) /\ Holds(e)))' => Refreshing(e) \/ (SigningOut(e) /\ Holds(e)))
        BY <1>8 DEF Refreshing, SigningOut, At
      <4> QED BY <1>2, <1>5, <1>8, <3>1, <4>1, <4>2, <4>3 DEF RefreshOf, StoredIs, InForce
    <3> QED BY <3>2, <3>3
  <2> QED BY <2>1, <2>2
<1>14. StoredInForce'
  <2> SUFFICES ASSUME session # None, session.fam \notin excused, session.fam # t.fam PROVE StoredInForce'
    BY <1>2, <1>8 DEF StoredInForce
  <2>1. LogoutOf(c) /\ SigningOut(c)
    BY <1>1 DEF IInv, Exclusive, SigningOut
  <2> QED BY <2>1 DEF LogoutOf
<1>15. SignedOut'
  <2>1. LogoutOf(c) /\ SigningOut(c)
    BY <1>1 DEF IInv, Exclusive, SigningOut
  <2> QED BY <1>2, <1>8, <2>1 DEF LogoutOf, SignedOut
<1> QED BY <1>6, <1>7, <1>11, <1>12, <1>13, <1>14, <1>15 DEF IInv, Exclusive

(* The stored session goes; its family is settled by now.                  *)
LEMMA DeleteKeeps ==
  ASSUME IInv, NEW c \in Calls, Delete(c)
  PROVE  IInv'
<1>1. /\ At(c, "delete") /\ ~At(c, "keep") /\ call[c] # None /\ c \in Signers
      /\ call' = [call EXCEPT ![c] = None]
      /\ UNCHANGED <<hub, refreshing, unrevoked, starts>>
  BY DEF Delete, End, At, IInv, Control, ControlOf
<1>2. CASE Mishap /\ Excuse(session) /\ UNCHANGED <<session, signedOut>>
  <2>1. /\ excused \subseteq excused' /\ excused' \subseteq Families
        /\ session # None => session.fam \in excused'
    BY <1>2, FamiliesInUse DEF Excuse, IInv, TypeOK
  <2> QED BY <1>1, <1>2, <2>1, SignerKeeps, BoundsStay DEF IInv, TypeOK
<1>3. CASE session' = None /\ signedOut' = TRUE /\ Fine /\ UNCHANGED excused
  <2>1. call'[c] = None /\ \A d \in Calls : d # c => call'[d] = call[d]
    BY <1>1, SlotSet DEF IInv
  <2>2. TypeOK'
    BY <1>1, <1>3, TypeStays DEF Fine, IInv, TypeOK
  <2>3. Control' /\ Alone' /\ Paced'
    <3>1. Moves(c) /\ ControlOf(c)' /\ PacedAt(c)'
      BY <1>1, <2>1 DEF Moves, ControlOf, PacedAt, At
    <3> QED BY <3>1, ControlStays DEF IInv
  <2>4. \A d \in Calls : ~SigningOut(d)' /\ ~At(d, "keep")'
    <3> SUFFICES ASSUME NEW d \in Calls, SigningOut(d)' \/ At(d, "keep")' PROVE FALSE
      OBVIOUS
    <3>1. d # c /\ call[d] # None /\ d \in Signers
      BY <2>1 DEF SigningOut, At, IInv, Control, ControlOf
    <3> QED BY <1>1, <3>1 DEF IInv, Alone
  <2>5. \A f \in Families : (StoredIs(f) => Settled(f)) /\ (Settled(f) <=> Settled(f)')
    BY <1>1, <1>3 DEF IInv, Accounted, StoredIs, Settled
  <2>6. \A d \in Calls : Holds(d)' => d # c /\ call'[d] = call[d] /\ Holds(d) /\ call[d].token.fam \in Families
    BY <2>1, FamiliesInUse DEF Holds, IInv
  <2>7. NothingForgotten'
    <3> SUFFICES ASSUME NEW f \in Families, hub[f].status = "live"
                 PROVE  f \in excused \cup unrevoked \cup InHand'
      BY <1>1, <1>3 DEF NothingForgotten
    <3>1. f \in excused \cup unrevoked \cup InHand \/ StoredIs(f)
      BY DEF IInv, Accounted, NothingForgotten, StoredIs
    <3>2. CASE f \in InHand
      <4>1. PICK d \in Calls : Holds(d) /\ call[d].token.fam = f
        BY <3>2 DEF InHand, Holds
      <4>2. CASE d = c
        BY <1>1, <4>1, <4>2 DEF IInv, Accounted, Settled
      <4>3. CASE d # c
        BY <2>1, <4>1, <4>3 DEF InHand, Holds
      <4> QED BY <4>2, <4>3
    <3> QED BY <2>5, <3>1, <3>2 DEF Settled
  <2>8. ASSUME NEW d \in Calls, Holds(d)'
        PROVE  hub'[call'[d].token.fam].status # "unborn" /\ Settled(call[d].token.fam)'
    <3>1. d # c /\ call'[d] = call[d] /\ Holds(d) /\ call[d].token.fam \in Families /\ ~At(d, "keep")
      BY <2>4, <2>6, <2>8 DEF At
    <3>2. Settled(call[d].token.fam)
      BY <2>5, <3>1 DEF IInv, Accounted
    <3>3. Settled(call[d].token.fam)'
      BY <1>1, <1>3, <3>1, <3>2 DEF Settled
    <3> QED BY <1>1, <3>1, <3>3 DEF IInv, Accounted
  <2>9. Accounted'
    BY <1>3, <2>7, <2>8 DEF Accounted
  <2>10. ASSUME NEW d \in Calls PROVE RefreshOf(d)'
    <3> SUFFICES ASSUME Refreshing(d)', call'[d].token.fam \notin excused PROVE FALSE
      BY <1>3 DEF RefreshOf
    <3>1. call'[d] = call[d] /\ Refreshing(d) /\ d # c
      BY <2>1 DEF Refreshing, At
    <3>2. StoredIs(call[d].token.fam) /\ RefreshOf(d)
      BY <3>1 DEF IInv, Exclusive, RefreshOf
    <3>3. LogoutOf(c) /\ SigningOut(c)
      BY <1>1 DEF IInv, Exclusive, SigningOut
    <3> QED BY <3>1, <3>2, <3>3 DEF LogoutOf, RefreshOf, StoredIs
  <2> QED BY <1>3, <2>2, <2>3, <2>4, <2>9, <2>10
          DEF IInv, Exclusive, KeptApart, LogoutOf, StoredInForce, SignedOut
<1> QED BY <1>2, <1>3 DEF Delete

-----------------------------------------------------------------------------
(* The environment.  An access token that runs out takes nothing from the  *)
(* refresh token; a process that dies leaves its families excused.         *)
LEMMA ExpireKeeps ==
  ASSUME IInv, Expire
  PROVE  IInv'
<1>1. /\ session # None /\ session \in Session /\ session' = [session EXCEPT !.fresh = FALSE]
      /\ UNCHANGED <<hub, refreshing, call, signedOut, excused, unrevoked, starts, mishaps>>
  BY DEF Expire, history, IInv, TypeOK
<1>2. /\ session' \in Session /\ session' # None /\ session'.fam = session.fam /\ session'.serial = session.serial
  BY <1>1, NoneAssumption DEF Session
<1>3. TypeOK' /\ Control' /\ Alone' /\ Paced'
  BY <1>1, <1>2
     DEF IInv, TypeOK, Control, ControlOf, Alone, Paced, PacedAt, At
<1>4. NothingForgotten' /\ (\A f : StoredIs(f)' <=> StoredIs(f)) /\ (InForce(session)' <=> InForce(session))
  BY <1>1, <1>2 DEF IInv, Accounted, NothingForgotten, InHand, StoredIs, InForce
<1>5. Accounted'
  BY <1>1, <1>2, <1>4 DEF IInv, Accounted, Holds, At, StoredIs, Settled
<1>6. KeptApart' /\ (\A d \in Calls : RefreshOf(d)' /\ LogoutOf(d)')
  BY <1>1, <1>2, <1>4
     DEF IInv, Exclusive, KeptApart, RefreshOf, LogoutOf, Holds, At, StoredIs, InForce, Refreshing, SigningOut
<1>7. StoredInForce' /\ SignedOut'
  BY <1>1, <1>2, <1>4 DEF IInv, Exclusive, StoredInForce, SignedOut, Holds, At
<1> QED BY <1>3, <1>5, <1>6, <1>7 DEF IInv, Exclusive

(* A process dies with all its calls.                                      *)
LEMMA CrashKeeps ==
  ASSUME IInv, NEW p \in Procs, Crash(p)
  PROVE  IInv'
<1> DEFINE mine == {c \in Calls : ProcOf[c] = p /\ call[c] # None}
<1>1. /\ Mishap /\ call' = [c \in Calls |-> IF c \in mine THEN None ELSE call[c]]
      /\ refreshing' = [refreshing EXCEPT ![p] = None]
      /\ excused' = excused \cup {call[c].token.fam : c \in {d \in mine : call[d].token # None}}
      /\ UNCHANGED <<hub, session, signedOut, unrevoked, starts>>
  BY DEF Crash
<1>2. \A d \in Calls : call'[d] = IF d \in mine THEN None ELSE call[d]
  BY <1>1
<1>3. excused \subseteq excused' /\ excused' \subseteq Families
      /\ \A d \in Calls : d \in mine /\ Holds(d) => call[d].token.fam \in excused'
  BY <1>1, FamiliesInUse DEF IInv, TypeOK, Holds
<1>4. TypeOK'
  <2>1. call' \in [Calls -> Call \cup {None}] /\ mishaps' \in 0..MaxMishaps
    BY <1>1, BoundsStay DEF IInv, TypeOK
  <2>2. \A d \in Calls : call'[d] # None => call'[d] = call[d]
    BY <1>2
  <2> QED BY <1>1, <1>3, <2>1, <2>2 DEF IInv, TypeOK
<1>5. Control' /\ Paced' /\ Alone'
  <2>1. ASSUME NEW d \in Calls PROVE ControlOf(d)' /\ PacedAt(d)'
    <3>1. CASE call'[d] = None
      BY <3>1 DEF ControlOf, PacedAt, At
    <3>2. CASE call'[d] # None
      <4>1. call'[d] = call[d] /\ ProcOf[d] # p /\ ProcOf[d] \in Procs
        BY <1>2, <3>2, ProcOfAssumption
      <4>2. refreshing'[ProcOf[d]] = refreshing[ProcOf[d]]
        BY <1>1, <4>1 DEF IInv, TypeOK
      <4> QED BY <4>1, <4>2 DEF IInv, Control, ControlOf, Paced, PacedAt, At
    <3> QED BY <3>1, <3>2
  <2>2. Alone'
    BY <1>2 DEF IInv, Alone
  <2> QED BY <2>1, <2>2 DEF Control, Paced
<1>6. LetsGo
  <2>1. \A d \in Calls : call'[d] = call[d] \/ Empty(call'[d])
    BY <1>2 DEF Empty
  <2>2. \A d \in Calls : Holds(d) /\ call'[d] # call[d] => call[d].token.fam \in excused'
    BY <1>2, <1>3
  <2> QED BY <1>1, <1>3, <2>1, <2>2 DEF LetsGo
<1> QED BY <1>4, <1>5, <1>6, LettingGo DEF IInv

-----------------------------------------------------------------------------
(* Every step of the specification keeps the invariant.                    *)
LEMMA StepsKeep == IInv /\ [Next]_vars => IInv'
<1> SUFFICES ASSUME IInv, [Next]_vars PROVE IInv'
  OBVIOUS
<1>1. ASSUME NEW c \in Calls, Step(c) PROVE IInv'
  BY <1>1, DecideKeeps, ReloadKeeps, SendKeeps, SaveKeeps, SleepKeeps, PollKeeps, KeepKeeps,
     RevokeKeeps, DeleteKeeps DEF Step
<1>2. ASSUME NEW c \in Calls, CallAccess(c) \/ StartLogin(c) \/ StartLogout(c) PROVE IInv'
  BY <1>2, CallAccessKeeps, StartLoginKeeps, StartLogoutKeeps
<1>3. ASSUME NEW p \in Procs, Crash(p) PROVE IInv'
  BY <1>3, CrashKeeps
<1>4. CASE UNCHANGED vars
  <2>1. TypeOK' /\ Control' /\ Alone' /\ Paced'
    BY <1>4 DEF vars, IInv, TypeOK, Control, ControlOf, Alone, Paced, PacedAt, At
  <2>2. LetsGo
    BY <1>4 DEF vars, LetsGo
  <2> QED BY <2>1, <2>2, LettingGo DEF IInv
<1> QED BY <1>1, <1>2, <1>3, <1>4, ExpireKeeps DEF Next

(* The inductive invariant holds in every instance, whatever the constants. *)
THEOREM SessionInvariant == Spec => []IInv
<1> QED BY Initially, StepsKeep, PTL DEF Spec

(* The session, what Hub knows and every call keep their types.            *)
THEOREM SessionTyped == Spec => []TypeOK
<1>1. IInv => TypeOK
  BY DEF IInv
<1> QED BY <1>1, SessionInvariant, PTL

(* Any number of calls share a session without losing it: the stored       *)
(* refresh token is the one in force, unless a mishap, a second login or   *)
(* another process's concurrent refresh explains otherwise (#refreshes,    *)
(* #refreshOnce).                                                          *)
THEOREM SessionStaysUsable == Spec => []SessionIsUsable
<1>1. IInv => SessionIsUsable
  <2> SUFFICES ASSUME IInv, session # None, session.fam \notin excused, session.fam \notin InHand
               PROVE  hub[session.fam] = [status |-> "live", serial |-> session.serial]
    BY DEF SessionIsUsable
  <2>1. \A c \in Calls : Holds(c) => call[c].token.fam # session.fam
    BY DEF InHand, Holds
  <2>2. InForce(session)
    BY <2>1 DEF IInv, Exclusive, StoredInForce
  <2> QED BY <2>2, FamiliesInUse DEF InForce, IInv, TypeOK
<1> QED BY <1>1, SessionInvariant, PTL

(* No family that Hub still honours is lost from sight (logout, login and  *)
(* refresh with all their failures).                                       *)
THEOREM FamiliesAccounted == Spec => []NothingForgotten
<1>1. IInv => NothingForgotten
  BY DEF IInv, Accounted
<1> QED BY <1>1, SessionInvariant, PTL

(* After a logout nothing is stored, whether or not Hub could be reached,  *)
(* but what a mishap or another process's refresh under way explains.      *)
THEOREM LogoutIsFinal == Spec => []LogoutStands
<1>1. IInv => LogoutStands
  <2>1. ASSUME NEW c \in Calls, Holds(c) PROVE call[c].token.fam \in InHand
    BY <2>1 DEF InHand, Holds
  <2> QED BY <2>1 DEF IInv, Exclusive, SignedOut, LogoutStands
<1> QED BY <1>1, SessionInvariant, PTL

(* The device endpoint is polled no sooner than Hub asked for and never    *)
(* after the code's lifetime (waitForDeviceAuthorization).                 *)
THEOREM PollsArePaced == Spec => []PollsKeepTheirDistance
<1>1. IInv => PollsKeepTheirDistance
  BY DEF IInv, Paced, PacedAt, PollsKeepTheirDistance, At
<1> QED BY <1>1, SessionInvariant, PTL

(* Single flight: however many calls of a process find the access token    *)
(* expired, one of them at a time works on the refresh token.              *)
SingleFlight ==
  \A c, d \in Calls : Refreshing(c) /\ Refreshing(d) /\ ProcOf[c] = ProcOf[d] => c = d
THEOREM OneRefreshPerProcess == Spec => []SingleFlight
<1>1. IInv => SingleFlight
  BY DEF IInv, Control, ControlOf, SingleFlight, Refreshing, At
<1> QED BY <1>1, SessionInvariant, PTL
=============================================================================

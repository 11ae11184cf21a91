--------------------------- MODULE OverlapsProofs ---------------------------
(* What holds of the overlapping parts (Overlaps) for every value of the     *)
(* constants: the accounts stay apart (UserAccounts), a sign-in reported as  *)
(* completed is saved (OAuthSessions), the uses of a code and the slots of a *)
(* template are given once and a disabled code stays disabled (Redemption),  *)
(* and a call of an executor is recorded as what became of it, leaves        *)
(* nothing open and gives up only after the last upstream (ExecutorCalls).   *)
(* Each part has its own inductive invariant (AccountsInv, SInv, RedeemInv,  *)
(* CallFine); PartsStep carries them over to the composition.                *)
EXTENDS Overlaps, NumberLemmas, Sequences, TLAPS

-----------------------------------------------------------------------------
UnderWay == {"waiting", "exchanging", "saving", "complete", "others"}

(* What a session starts with, and what SetOAuthSessionError makes of it. *)
LEMMA SessionTypes ==
    ASSUME SignIns!BoundsAssumption
    PROVE  [status |-> "", left |-> TTL] \in SignIns!Session
           /\ [status |-> "error", left |-> TTL] \in SignIns!Session
<1>1. TTL \in 0..TTL
  BY DEF SignIns!BoundsAssumption
<1> QED BY <1>1 DEF SignIns!Session

(* The values the variables start with and are reset to. *)
LEMMA StartTypes ==
    ASSUME SignIns!BoundsAssumption
    PROVE  /\ [status |-> "", left |-> TTL] \in SignIns!Session
           /\ [status |-> "error", left |-> TTL] \in SignIns!Session
           /\ SignIns!Init => SignIns!TypeOK
<1>1. [status |-> "", left |-> TTL] \in SignIns!Session
      /\ [status |-> "error", left |-> TTL] \in SignIns!Session
  BY SessionTypes
<1>2. ASSUME SignIns!Init PROVE SignIns!TypeOK
  <2>1. oFlow \in [Flows -> [kind : SignIns!RequestToken \cup {None},
                           pc : SignIns!Over \cup UnderWay, left : 0..WaitLimit]]
    BY <1>2 DEF SignIns!Init, SignIns!Over, SignIns!BoundsAssumption
  <2>2. oHandler \in [Handlers -> [pc : {"idle", "checked", "writing"}, flow : Flows \cup {None},
                                 payload : SignIns!Payloads \cup {None}]]
    BY <1>2 DEF SignIns!Init, SignIns!IdleHandler
  <2> QED
    BY <1>2, <2>1, <2>2 DEF SignIns!Init, SignIns!TypeOK, UnderWay
<1> QED
  BY <1>1, <1>2

(* What a step may do to a flow's goroutine and to its session. *)
LEMMA FailTypes ==
    ASSUME SignIns!BoundsAssumption, SignIns!TypeOK, NEW f \in Flows, SignIns!Fails(f)
    PROVE  /\ oSession' \in [Flows -> SignIns!Session \cup {None}]
           /\ oFlow' = [oFlow EXCEPT ![f].pc = "done"]
<1>1. [status |-> "error", left |-> TTL] \in SignIns!Session
  BY SessionTypes
<1> QED
  BY <1>1 DEF SignIns!TypeOK, SignIns!Fails, SignIns!SetError, SignIns!Goto

(* TypeOK survives every step. *)
LEMMA TypeStep ==
    ASSUME SignIns!BoundsAssumption, SignIns!TypeOK, [SignIns!Next]_(SignIns!vars)
    PROVE  SignIns!TypeOK'
<1>1. ASSUME NEW f \in Flows, SignIns!Request(f) PROVE SignIns!TypeOK'
  <2>1. PICK k \in SignIns!RequestToken, label \in {"waiting", "exchanging", "refused"} :
        SignIns!Starts(f, k, label)
    BY <1>1 DEF SignIns!Request
  <2>2. oFlow' \in [Flows -> [kind : SignIns!RequestToken \cup {None},
                             pc : SignIns!Over \cup UnderWay, left : 0..WaitLimit]]
    <3>1. oFlow \in [Flows -> [kind : SignIns!RequestToken \cup {None},
                             pc : SignIns!Over \cup UnderWay, left : 0..WaitLimit]]
      BY DEF SignIns!TypeOK, UnderWay, SignIns!BoundsAssumption
    <3>2. label \in SignIns!Over \cup UnderWay /\ k \in SignIns!RequestToken \cup {None}
      BY DEF SignIns!Over, UnderWay
    <3> QED
      BY <2>1, <3>1, <3>2 DEF SignIns!Starts
  <2>3. oSession' \in [Flows -> SignIns!Session \cup {None}]
    BY <1>1, StartTypes DEF SignIns!Request, SignIns!TypeOK
  <2> QED
    BY <1>1, <2>2, <2>3 DEF SignIns!Request, SignIns!TypeOK, UnderWay
<1>2. ASSUME NEW f \in Flows, NEW label \in UnderWay \cup {"done"}, SignIns!Goto(f, label)
      PROVE  oFlow' \in [Flows -> [kind : SignIns!RequestToken \cup {None},
                                  pc : SignIns!Over \cup UnderWay, left : 0..WaitLimit]]
  BY <1>2 DEF SignIns!Goto, SignIns!TypeOK, SignIns!Over, UnderWay
<1>3. ASSUME NEW f \in Flows, SignIns!Poll(f) \/ SignIns!Exchange(f) \/ SignIns!SaveTokenRecord(f)
             PROVE SignIns!TypeOK'
  <2>1. SignIns!Fails(f)
        \/ (oSession' = oSession /\ \E label \in UnderWay \cup {"done"} : SignIns!Goto(f, label))
    BY <1>3 DEF SignIns!Poll, SignIns!Exchange, SignIns!SaveTokenRecord, UnderWay
  <2>2. /\ oSession' \in [Flows -> SignIns!Session \cup {None}]
        /\ \E label \in UnderWay \cup {"done"} : SignIns!Goto(f, label)
    BY <2>1, FailTypes DEF SignIns!TypeOK, SignIns!Fails
  <2>3. oFile' \in [Flows -> SignIns!Payloads \cup {"torn", None}] /\ oSaved' \subseteq Flows
    BY <1>3 DEF SignIns!Poll, SignIns!Exchange, SignIns!SaveTokenRecord, SignIns!TypeOK
  <2>4. oHandler' = oHandler /\ oExpired' = oExpired
    BY <1>3 DEF SignIns!Poll, SignIns!Exchange, SignIns!SaveTokenRecord
  <2> QED
    BY <1>2, <2>2, <2>3, <2>4 DEF SignIns!TypeOK, UnderWay
<1>4. ASSUME NEW f \in Flows, SignIns!CompleteSession(f) \/ SignIns!CompleteProvider(f)
             PROVE SignIns!TypeOK'
  <2>1. \E label \in UnderWay \cup {"done"} : SignIns!Goto(f, label)
    BY <1>4 DEF SignIns!CompleteSession, SignIns!CompleteProvider, UnderWay
  <2>2. oSession' \in [Flows -> SignIns!Session \cup {None}]
    BY <1>4 DEF SignIns!CompleteSession, SignIns!CompleteProvider, SignIns!TypeOK
  <2> QED
    BY <1>2, <1>4, <2>1, <2>2 DEF SignIns!CompleteSession, SignIns!CompleteProvider,
       SignIns!TypeOK, UnderWay
<1>5. ASSUME NEW h \in Handlers, SignIns!Callback(h) PROVE SignIns!TypeOK'
  <2>1. CASE SignIns!OpenCallbackFile(h)
    <3>1. /\ oHandler[h].flow \in Flows \cup {None}
          /\ oFile' = [oFile EXCEPT ![oHandler[h].flow] = "torn"]
          /\ oHandler' = [oHandler EXCEPT ![h].pc = "writing"]
          /\ UNCHANGED <<oSession, oFlow, oSaved, oExpired>>
      BY <2>1 DEF SignIns!OpenCallbackFile, SignIns!TypeOK
    <3>2. oFile' \in [Flows -> SignIns!Payloads \cup {"torn", None}]
      BY <3>1 DEF SignIns!TypeOK
    <3> QED
      BY <3>1, <3>2 DEF SignIns!TypeOK
  <2>2. CASE SignIns!WriteCallbackFile(h)
    BY <2>2 DEF SignIns!WriteCallbackFile, SignIns!TypeOK, SignIns!IdleHandler
  <2>3. ASSUME NEW f \in Flows, SignIns!CheckPending(h, f) PROVE SignIns!TypeOK'
    BY <2>3 DEF SignIns!CheckPending, SignIns!TypeOK
  <2> QED
    BY <1>5, <2>1, <2>2, <2>3 DEF SignIns!Callback
<1>6. CASE SignIns!Tick
  <2>1. oSession' \in [Flows -> SignIns!Session \cup {None}]
    <3> SUFFICES ASSUME NEW f \in Flows, oSession[f] # None, oSession[f].left # 0
                 PROVE  [oSession[f] EXCEPT !.left = @ - 1] \in SignIns!Session
      BY <1>6 DEF SignIns!Tick, SignIns!Lapsed, SignIns!TypeOK
    <3>1. oSession[f] \in SignIns!Session
      BY DEF SignIns!TypeOK
    <3>2. oSession[f].left \in 0..TTL
      BY <3>1 DEF SignIns!Session
    <3>3. oSession[f].left - 1 \in 0..TTL
      BY <3>2 DEF SignIns!BoundsAssumption
    <3> QED
      BY <3>1, <3>3 DEF SignIns!Session
  <2>2. oFlow' \in [Flows -> [kind : SignIns!RequestToken \cup {None},
                             pc : SignIns!Over \cup UnderWay, left : 0..WaitLimit]]
    <3> SUFFICES ASSUME NEW f \in Flows, oFlow[f].left > 0
                 PROVE  [oFlow[f] EXCEPT !.left = @ - 1] \in
                           [kind : SignIns!RequestToken \cup {None}, pc : SignIns!Over
                           \cup UnderWay, left : 0..WaitLimit]
      BY <1>6 DEF SignIns!Tick, SignIns!TypeOK, UnderWay
    <3> QED
      BY DEF SignIns!TypeOK, UnderWay, SignIns!BoundsAssumption
  <2> QED
    BY <1>6, <2>1, <2>2 DEF SignIns!Tick, SignIns!Lapsed, SignIns!TypeOK, UnderWay
<1>7. CASE UNCHANGED SignIns!vars
  BY <1>7 DEF SignIns!vars, SignIns!TypeOK
<1> QED
  BY <1>1, <1>3, <1>4, <1>5, <1>6, <1>7 DEF SignIns!Next, SignIns!Flow

-----------------------------------------------------------------------------
(* A flow's sign-in succeeded, or one that ends all of its provider's did. *)
Vouched(f) ==
    \/ f \in oSaved
    \/ \E g \in oSaved : SignIns!Provider(g) = SignIns!Provider(f) /\ SignIns!Kind(g).endsOthers

FlowPlaced(f) ==
    /\ oFlow[f].pc = "new" => oSession[f] = None
    /\ oFlow[f].pc # "new" => SignIns!Kind(f) # None
    /\ oFlow[f].pc \in {"complete", "others"} => f \in oSaved
    /\ oFlow[f].pc = "others" => SignIns!Kind(f).endsOthers
    /\ f \in oSaved => oFlow[f].pc # "new"

SInv == SignIns!TypeOK /\ SignIns!OkMeansSaved /\ \A f \in Flows : FlowPlaced(f)

(* A session is something. *)
LEMMA StartSession ==
    ASSUME SignIns!BoundsAssumption
    PROVE  [status |-> "", left |-> TTL] # None /\ [status |-> "error", left |-> TTL] # None
BY SessionTypes DEF SignIns!BoundsAssumption

(* A step that starts nothing keeps OkMeansSaved when the sessions it ends   *)
(* have expired or somebody's success speaks for them.                       *)
LEMMA GoesOn ==
    ASSUME SInv, SignIns!TypeOK', oSaved \subseteq oSaved', oExpired \subseteq oExpired',
           \A g \in Flows : /\ oFlow'[g].kind = oFlow[g].kind
                            /\ oFlow'[g].pc = "new" <=> oFlow[g].pc = "new"
                            /\ oSession'[g] # None => oSession[g] # None
                            /\ oFlow'[g].pc \in {"complete", "others"} => g \in oSaved'
                            /\ oFlow'[g].pc = "others" => SignIns!Kind(g).endsOthers
                            /\ g \in oSaved' => oFlow[g].pc # "new"
                            /\ oSession[g] # None /\ oSession'[g] = None =>
                                   Vouched(g) \/ g \in oSaved' \cup oExpired'
    PROVE  SInv'
<1>1. ASSUME NEW f \in Flows PROVE FlowPlaced(f)'
  BY DEF SInv, FlowPlaced, SignIns!Kind
<1>2. ASSUME NEW f \in Flows, Vouched(f) PROVE Vouched(f)'
  <2>1. oSaved \subseteq Flows
    BY DEF SInv, SignIns!TypeOK
  <2>2. \A g \in Flows : SignIns!Kind(g)' = SignIns!Kind(g) /\ SignIns!Provider(g)' = SignIns!Provider(g)
    BY DEF SignIns!Kind, SignIns!Provider
  <2> QED
    BY <1>2, <2>1, <2>2 DEF Vouched
<1>3. SignIns!OkMeansSaved'
  <2> SUFFICES ASSUME NEW f \in Flows, oFlow'[f].pc # "new", f \notin oExpired', oSession'[f] = None
               PROVE  Vouched(f)'
    BY DEF SignIns!OkMeansSaved, SignIns!GetAuthStatus, Vouched
  <2>1. CASE oSession[f] = None
    <3>1. Vouched(f)
      BY <2>1 DEF SInv, SignIns!OkMeansSaved, SignIns!GetAuthStatus, Vouched
    <3> QED
      BY <1>2, <3>1
  <2>2. CASE oSession[f] # None
    BY <1>2, <2>2 DEF Vouched
  <2> QED
    BY <2>1, <2>2
<1> QED
  BY <1>1, <1>3 DEF SInv

(* Every step keeps SInv. *)
LEMMA SavedStep ==
    ASSUME SignIns!BoundsAssumption, SInv, SignIns!TypeOK', [SignIns!Next]_(SignIns!vars)
    PROVE  SInv'
<1> USE DEF SignIns!Over
<1>1. ASSUME NEW f \in Flows, SignIns!Request(f) PROVE SInv'
  <2>1. PICK k \in SignIns!RequestToken, label \in {"waiting", "exchanging", "refused"} :
           SignIns!Starts(f, k, label)
    BY <1>1 DEF SignIns!Request
  <2>2. /\ oFlow[f].pc = "new" /\ oFlow'[f].kind = k /\ oFlow'[f].pc = label /\ oSession'[f] # None
        /\ \A g \in Flows \ {f} : oFlow'[g] = oFlow[g] /\ oSession'[g] = oSession[g]
        /\ oSaved' = oSaved /\ oExpired' = oExpired
    <3>1. [status |-> "", left |-> TTL] # None
      BY StartSession
    <3>2. /\ oFlow[f].pc = "new" /\ oFlow' = [oFlow EXCEPT ![f].kind = k, ![f].pc = label]
          /\ oSession' = [oSession EXCEPT ![f] = [status |-> "", left |-> TTL]]
          /\ oSaved' = oSaved /\ oExpired' = oExpired
      BY <1>1, <2>1 DEF SignIns!Request, SignIns!Starts
    <3>3. oFlow \in [Flows -> [kind : SignIns!RequestToken \cup {None},
                             pc : SignIns!Over \cup UnderWay, left : 0..WaitLimit]]
          /\ oSession \in [Flows -> SignIns!Session \cup {None}]
      BY DEF SInv, SignIns!TypeOK, UnderWay
    <3>4. oFlow'[f].kind = k /\ oFlow'[f].pc = label /\ \A g \in Flows \ {f} : oFlow'[g] = oFlow[g]
      BY <3>2, <3>3
    <3> QED
      BY <3>1, <3>2, <3>3, <3>4
  <2>3. ASSUME NEW g \in Flows PROVE FlowPlaced(g)'
    BY <2>2 DEF SInv, FlowPlaced, SignIns!Kind, SignIns!BoundsAssumption
  <2>4. SignIns!OkMeansSaved'
    <3> SUFFICES ASSUME NEW g \in Flows \ {f}, oFlow[g].pc # "new", g \notin oExpired, oSession[g] = None
                 PROVE  Vouched(g)'
      BY <2>2 DEF SignIns!OkMeansSaved, SignIns!GetAuthStatus, Vouched
    <3>1. Vouched(g)
      BY DEF SInv, SignIns!OkMeansSaved, SignIns!GetAuthStatus, Vouched
    <3>2. oSaved \subseteq Flows \ {f}
      BY <2>2 DEF SInv, FlowPlaced, SignIns!TypeOK
    <3>3. \A h \in Flows \ {f} : SignIns!Kind(h)' = SignIns!Kind(h) /\ SignIns!Provider(h)' = SignIns!Provider(h)
      BY <2>2 DEF SignIns!Kind, SignIns!Provider
    <3> QED
      BY <2>2, <3>1, <3>2, <3>3 DEF Vouched
  <2> QED
    BY <2>3, <2>4 DEF SInv
<1>2. ASSUME NEW f \in Flows, SignIns!Poll(f) \/ SignIns!Exchange(f) \/ SignIns!SaveTokenRecord(f)
             PROVE SInv'
  <2>1. /\ \E label \in UnderWay \cup {"done"} :
              /\ oFlow' = [oFlow EXCEPT ![f].pc = label]
              /\ label \in {"complete", "others"} => f \in oSaved'
              /\ label # "others"
        /\ oFlow[f].pc \in UnderWay
        /\ \A g \in Flows : oSession'[g] # None <=> oSession[g] # None
        /\ oSaved \subseteq oSaved' /\ oExpired' = oExpired
    <3>1. ASSUME SignIns!Fails(f)
          PROVE  /\ oFlow' = [oFlow EXCEPT ![f].pc = "done"]
                 /\ \A g \in Flows : oSession'[g] # None <=> oSession[g] # None
      <4>1. [status |-> "error", left |-> TTL] # None
        BY StartSession
      <4> QED
        BY <3>1, <4>1 DEF SignIns!Fails, SignIns!SetError, SignIns!Goto, SInv, SignIns!TypeOK
    <3>2. CASE SignIns!Poll(f)
      BY <3>1, <3>2 DEF SignIns!Poll, SignIns!Goto, UnderWay
    <3>3. CASE SignIns!Exchange(f)
      BY <3>1, <3>3 DEF SignIns!Exchange, SignIns!Goto, UnderWay
    <3>4. CASE SignIns!SaveTokenRecord(f)
      BY <3>1, <3>4 DEF SignIns!SaveTokenRecord, SignIns!Goto, UnderWay
    <3> QED
      BY <1>2, <3>2, <3>3, <3>4
  <2>2. \A g \in Flows : g \in oSaved' => g = f \/ g \in oSaved
    BY <1>2 DEF SignIns!Poll, SignIns!Exchange, SignIns!SaveTokenRecord
  <2> QED
    BY <2>1, <2>2, GoesOn DEF SInv, SignIns!TypeOK, FlowPlaced, UnderWay
<1>3. ASSUME NEW f \in Flows, SignIns!CompleteSession(f) PROVE SInv'
  <2>1. /\ oFlow' = [oFlow EXCEPT ![f].pc = IF SignIns!Kind(f).endsOthers THEN "others" ELSE "done"]
        /\ oFlow[f].pc = "complete" /\ f \in oSaved /\ oSession'[f] = None
        /\ \A g \in Flows \ {f} : oSession'[g] = oSession[g]
        /\ oSaved' = oSaved /\ oExpired' = oExpired
    BY <1>3 DEF SignIns!CompleteSession, SignIns!Goto, SInv, FlowPlaced, SignIns!TypeOK
  <2> QED
    BY <2>1, GoesOn DEF SInv, SignIns!TypeOK, FlowPlaced
<1>4. ASSUME NEW f \in Flows, SignIns!CompleteProvider(f) PROVE SInv'
  <2>1. /\ oFlow' = [oFlow EXCEPT ![f].pc = "done"]
        /\ oFlow[f].pc = "others" /\ f \in oSaved
        /\ \A g \in Flows :
           oSession'[g] = IF SignIns!Provider(g) = SignIns!Provider(f) THEN None ELSE oSession[g]
        /\ oSaved' = oSaved /\ oExpired' = oExpired
    BY <1>4 DEF SignIns!CompleteProvider, SignIns!Goto, SInv, FlowPlaced
  <2>2. \A g \in Flows : SignIns!Provider(g) = SignIns!Provider(f) => Vouched(g)
    BY <2>1 DEF SInv, FlowPlaced, Vouched
  <2> QED
    BY <2>1, <2>2, GoesOn DEF SInv, SignIns!TypeOK, FlowPlaced
<1>5. ASSUME NEW h \in Handlers, SignIns!Callback(h) PROVE SInv'
  <2>1. UNCHANGED <<oSession, oFlow, oSaved, oExpired>>
    BY <1>5 DEF SignIns!Callback, SignIns!OpenCallbackFile, SignIns!WriteCallbackFile,
       SignIns!CheckPending
  <2> QED
    BY <2>1, GoesOn DEF SInv, FlowPlaced
<1>6. CASE SignIns!Tick
  <2>1. \A g \in Flows : oFlow'[g].kind = oFlow[g].kind /\ oFlow'[g].pc = oFlow[g].pc
    BY <1>6 DEF SignIns!Tick, SInv, SignIns!TypeOK
  <2>2. \A g \in Flows : /\ oSession'[g] # None => oSession[g] # None
                         /\ oSession[g] # None /\ oSession'[g] = None => g \in oExpired'
    <3> SUFFICES ASSUME NEW g \in Flows
                 PROVE  /\ oSession'[g] # None => oSession[g] # None
                        /\ oSession[g] # None /\ oSession'[g] = None => g \in oExpired'
      OBVIOUS
    <3>1. oSession'[g] = IF oSession[g] = None \/ g \in SignIns!Lapsed THEN None
                        ELSE [oSession[g] EXCEPT !.left = @ - 1]
      BY <1>6 DEF SignIns!Tick
    <3>2. CASE oSession[g] # None /\ g \notin SignIns!Lapsed
      <4>1. oSession[g] \in SignIns!Session
        BY <3>2 DEF SInv, SignIns!TypeOK
      <4>2. oSession'[g] = [oSession[g] EXCEPT !.left = @ - 1] /\ oSession'[g] \in SignIns!Session
            \cup {None}
        BY <3>1, <3>2 DEF SignIns!TypeOK
      <4>3. [oSession[g] EXCEPT !.left = @ - 1] \in SignIns!Session
        <5>1. oSession[g].left \in 0..TTL /\ oSession[g].left # 0
          BY <3>2, <4>1 DEF SignIns!Lapsed, SignIns!Session
        <5>2. oSession[g].left - 1 \in 0..TTL
          BY <5>1 DEF SignIns!BoundsAssumption
        <5> QED
          BY <4>1, <5>2 DEF SignIns!Session
      <4> QED
        BY <3>2, <4>2, <4>3 DEF SignIns!BoundsAssumption
    <3> QED
      BY <1>6, <3>1, <3>2 DEF SignIns!Tick
  <2>3. oSaved' = oSaved /\ oExpired \subseteq oExpired'
    BY <1>6 DEF SignIns!Tick
  <2> QED
    BY <2>1, <2>2, <2>3, GoesOn DEF SInv, FlowPlaced
<1>7. CASE UNCHANGED SignIns!vars
  BY <1>7, GoesOn DEF SignIns!vars, SInv, FlowPlaced
<1> QED
  BY <1>1, <1>2, <1>3, <1>4, <1>5, <1>6, <1>7 DEF SignIns!Next, SignIns!Flow

-----------------------------------------------------------------------------
(* Accounts: UserAccounts.                                                   *)
Registration ==
    [pc : {"idle", "verify", "spend", "expire", "name", "email", "insert"},
     name : Names \cup {None}, email : Emails \cup {NoEmail, None}, code : 0..MaxSends]

\* A registration under way knows what it registers.
RegFine(q) == q.pc # "idle" => q.name \in Names /\ q.email \in Emails \cup {NoEmail}

\* A row that is about to be written back is of the same account.
SameAccount(q) ==
    q.pc = "read" =>
       /\ q.id \in Ids /\ q.row \in Accounts!Row /\ aUsers[q.id] # None
       /\ aUsers[q.id].name = q.row.name /\ aUsers[q.id].email = q.row.email

AccountsInv ==
    /\ Accounts!TypeOK /\ Accounts!OneAccountEach
    /\ \A r \in Registrations : RegFine(aReg[r])
    /\ \A u \in Updates : SameAccount(aUpdate[u])

(* A step that leaves the table of accounts and the updates under way alone *)
(* keeps the invariant, when the registrations it leaves still know what    *)
(* they register.                                                           *)
LEMMA TableKept ==
    ASSUME AccountsInv, Accounts!TypeOK', UNCHANGED <<aUsers, aUpdate>>,
           \A r \in Registrations : RegFine(aReg'[r])
    PROVE  AccountsInv'
<1>1. Accounts!OneAccountEach'
  BY DEF AccountsInv, Accounts!OneAccountEach, Accounts!Taken
<1>2. \A u \in Updates : SameAccount(aUpdate[u])'
  BY DEF AccountsInv, SameAccount, Accounts!Row
<1> QED BY <1>1, <1>2 DEF AccountsInv, RegFine

(* SendVerificationCode and the cleaning of expired codes touch the codes   *)
(* only.                                                                    *)
LEMMA CodesKeep ==
    ASSUME Accounts!BoundsAssumption, AccountsInv,
           (\E e \in Emails : Accounts!SendVerificationCode(e)) \/ Accounts!CleanExpired
    PROVE  AccountsInv'
<1>1. UNCHANGED <<aUsers, aReg, aLogin, aUpdate, aAccess, aRefresh, aDecided>>
  BY DEF Accounts!SendVerificationCode, Accounts!CleanExpired
<1>2. CASE Accounts!CleanExpired
  <2>1. aCodes' \in [Emails -> Accounts!Code \cup {None}] /\ aSends' = aSends
    BY <1>2 DEF Accounts!CleanExpired, AccountsInv, Accounts!TypeOK
  <2>2. Accounts!TypeOK'
    BY <1>1, <2>1 DEF AccountsInv, Accounts!TypeOK
  <2> QED BY <1>1, <2>2, TableKept DEF AccountsInv
<1>3. CASE \E e \in Emails : Accounts!SendVerificationCode(e)
  <2>1. PICK e \in Emails : Accounts!SendVerificationCode(e)
    BY <1>3
  <2>2. aSends' = aSends + 1 /\ aSends \in Nat /\ aSends < MaxSends
        /\ aCodes' = [aCodes EXCEPT ![e] = [code |-> aSends', age |-> 0]]
    BY <2>1 DEF Accounts!SendVerificationCode, AccountsInv, Accounts!TypeOK
  <2>3. aSends' \in 1..MaxSends /\ 0 \in 0..(CodeLife + 1)
    BY <2>2 DEF Accounts!BoundsAssumption
  <2>4. aCodes' \in [Emails -> Accounts!Code \cup {None}]
    BY <2>2, <2>3 DEF Accounts!Code, AccountsInv, Accounts!TypeOK
  <2>5. aSends' \in 0..MaxSends
    BY <2>3
  <2>6. Accounts!TypeOK'
    BY <1>1, <2>4, <2>5 DEF AccountsInv, Accounts!TypeOK
  <2> QED BY <1>1, <2>6, TableKept DEF AccountsInv
<1> QED BY <1>2, <1>3

(* A step of one registration that does not touch the table keeps the       *)
(* invariant.                                                               *)
LEMMA RegMoves ==
    ASSUME AccountsInv, NEW r \in Registrations, NEW q \in Registration, RegFine(q),
           aReg' = [aReg EXCEPT ![r] = q], UNCHANGED <<aUsers, aSends, aLogin, aUpdate, aAccess,
           aRefresh, aDecided>>,
           aCodes' \in [Emails -> Accounts!Code \cup {None}]
    PROVE  AccountsInv'
<1>1. aReg' \in [Registrations -> Registration] /\ \A x \in Registrations : RegFine(aReg'[x])
  BY DEF AccountsInv, Accounts!TypeOK, Registration
<1>2. Accounts!TypeOK'
  BY <1>1 DEF AccountsInv, Accounts!TypeOK, Registration
<1> QED BY <1>1, <1>2, TableKept

(* What RegEnds and RegGoto make of a registration.                         *)
LEMMA RegTypes ==
    ASSUME Accounts!BoundsAssumption, AccountsInv, NEW r \in Registrations
    PROVE  /\ aReg[r] \in Registration /\ RegFine(aReg[r]) /\ Accounts!NoReg \in Registration
           /\ RegFine(Accounts!NoReg)
           /\ Accounts!RegEnds(r) => aReg' = [aReg EXCEPT ![r] = Accounts!NoReg]
           /\ \A pc \in {"idle", "verify", "spend", "expire", "name", "email", "insert"} :
                 /\ [aReg[r] EXCEPT !.pc = pc] \in Registration
                 /\ aReg[r].pc # "idle" => RegFine([aReg[r] EXCEPT !.pc = pc])
                 /\ Accounts!RegGoto(r, pc)
                    => aReg' = [aReg EXCEPT ![r] = [aReg[r] EXCEPT !.pc = pc]]
<1>1. aReg[r] \in Registration /\ RegFine(aReg[r])
  BY DEF AccountsInv, Accounts!TypeOK, Registration
<1>2. Accounts!NoReg \in Registration /\ RegFine(Accounts!NoReg)
  BY DEF Accounts!NoReg, Registration, RegFine, Accounts!BoundsAssumption
<1>3. Accounts!RegEnds(r) => aReg' = [aReg EXCEPT ![r] = Accounts!NoReg]
  BY DEF Accounts!RegEnds
<1>4. ASSUME NEW pc \in {"idle", "verify", "spend", "expire", "name", "email", "insert"}
      PROVE  /\ [aReg[r] EXCEPT !.pc = pc] \in Registration
             /\ aReg[r].pc # "idle" => RegFine([aReg[r] EXCEPT !.pc = pc])
             /\ Accounts!RegGoto(r, pc) => aReg' = [aReg EXCEPT ![r] = [aReg[r] EXCEPT !.pc = pc]]
  BY <1>1 DEF Registration, RegFine, Accounts!RegGoto
<1> QED BY <1>1, <1>2, <1>3, <1>4

(* The steps of Register before its INSERT: the code is verified and spent, *)
(* the name and the e-mail are looked up.                                   *)
LEMMA RegisterKeeps ==
    ASSUME Accounts!BoundsAssumption, AccountsInv, NEW r \in Registrations,
           Accounts!BeginRegister(r) \/ Accounts!VerifyCode(r) \/ Accounts!SpendCode(r)
           \/ Accounts!CheckUsername(r) \/ Accounts!CheckEmail(r)
    PROVE  AccountsInv'
<1>1. UNCHANGED <<aUsers, aSends, aLogin, aUpdate, aAccess, aRefresh, aDecided>>
  BY DEF Accounts!BeginRegister, Accounts!VerifyCode, Accounts!SpendCode, Accounts!CheckUsername,
     Accounts!CheckEmail
<1>2. aCodes' \in [Emails -> Accounts!Code \cup {None}]
  <2>1. aCodes \in [Emails -> Accounts!Code \cup {None}]
    BY DEF AccountsInv, Accounts!TypeOK
  <2>2. aCodes' = aCodes \/ aCodes' = [aCodes EXCEPT ![aReg[r].email] = None]
    BY DEF Accounts!BeginRegister, Accounts!VerifyCode, Accounts!SpendCode, Accounts!CheckUsername,
       Accounts!CheckEmail
  <2> QED BY <2>1, <2>2
<1>3. \E q \in Registration : RegFine(q) /\ aReg' = [aReg EXCEPT ![r] = q]
  <2>1. CASE Accounts!BeginRegister(r)
    <3>1. PICK n \in Names :
            \/ aReg' = [aReg EXCEPT ![r] = [pc |-> "name", name |-> n, email |-> NoEmail,
               code |-> 0]]
            \/ \E e \in Emails, k \in 1..aSends :
                  aReg' = [aReg EXCEPT ![r] = [pc |-> "verify", name |-> n, email |-> e,
                  code |-> k]]
      BY <2>1 DEF Accounts!BeginRegister
    <3>2. CASE aReg' = [aReg EXCEPT ![r] = [pc |-> "name", name |-> n, email |-> NoEmail,
               code |-> 0]]
      <4> DEFINE q == [pc |-> "name", name |-> n, email |-> NoEmail, code |-> 0]
      <4>1. q \in Registration /\ RegFine(q)
        BY DEF Registration, RegFine, Accounts!BoundsAssumption
      <4> QED BY <3>2, <4>1
    <3>3. CASE \E e \in Emails, k \in 1..aSends :
                  aReg' = [aReg EXCEPT ![r] = [pc |-> "verify", name |-> n, email |-> e,
                  code |-> k]]
      <4>1. PICK e \in Emails, k \in 1..aSends :
               aReg' = [aReg EXCEPT ![r] = [pc |-> "verify", name |-> n, email |-> e, code |-> k]]
        BY <3>3
      <4> DEFINE q == [pc |-> "verify", name |-> n, email |-> e, code |-> k]
      <4>2. k \in 0..MaxSends
        BY DEF AccountsInv, Accounts!TypeOK, Accounts!BoundsAssumption
      <4>3. q \in Registration /\ RegFine(q)
        BY <4>2 DEF Registration, RegFine
      <4> QED BY <4>1, <4>3
    <3> QED BY <3>1, <3>2, <3>3
  <2>2. CASE Accounts!VerifyCode(r) \/ Accounts!SpendCode(r) \/ Accounts!CheckUsername(r)
             \/ Accounts!CheckEmail(r)
    <3>1. aReg[r].pc # "idle"
      BY <2>2 DEF Accounts!VerifyCode, Accounts!SpendCode, Accounts!CheckUsername,
         Accounts!CheckEmail
    <3>2. Accounts!RegEnds(r) \/ \E pc \in {"expire", "spend", "name", "insert", "email"} :
          Accounts!RegGoto(r, pc)
      BY <2>2, Zenon DEF Accounts!VerifyCode, Accounts!SpendCode, Accounts!CheckUsername,
         Accounts!CheckEmail
    <3>3. CASE Accounts!RegEnds(r)
      BY <3>3, RegTypes
    <3>4. CASE \E pc \in {"expire", "spend", "name", "insert", "email"} : Accounts!RegGoto(r, pc)
      <4>1. PICK pc \in {"expire", "spend", "name", "insert", "email"} : Accounts!RegGoto(r, pc)
        BY <3>4
      <4> DEFINE q == [aReg[r] EXCEPT !.pc = pc]
      <4>2. q \in Registration /\ RegFine(q) /\ aReg' = [aReg EXCEPT ![r] = q]
        <5>1. q \in Registration /\ RegFine(q)
          BY <3>1, <4>1, RegTypes
        <5> QED BY <4>1, <5>1 DEF Accounts!RegGoto
      <4> QED BY <4>2
    <3> QED BY <3>2, <3>3, <3>4
  <2> QED BY <2>1, <2>2
<1> QED BY <1>1, <1>2, <1>3, RegMoves

(* A pair of tokens issued to an account keeps the tokens within their      *)
(* lives.                                                                   *)
LEMMA IssueTypes ==
    ASSUME Accounts!BoundsAssumption, AccountsInv, NEW i, Accounts!Issue(i)
    PROVE  aAccess' \in [Ids -> 0..AccessLife] /\ aRefresh' \in [Ids -> 0..RefreshLife]
<1>1. AccessLife \in 0..AccessLife /\ RefreshLife \in 0..RefreshLife
  BY DEF Accounts!BoundsAssumption
<1>2. aAccess \in [Ids -> 0..AccessLife] /\ aRefresh \in [Ids -> 0..RefreshLife]
  BY DEF AccountsInv, Accounts!TypeOK
<1> QED BY <1>1, <1>2 DEF Accounts!Issue

(* The INSERT of Register: the UNIQUE columns refuse a name or an e-mail    *)
(* that another registration inserted after the look-ups, so the new row is *)
(* apart from every other.                                                  *)
LEMMA InsertKeeps ==
    ASSUME Accounts!BoundsAssumption, AccountsInv, NEW r \in Registrations, Accounts!Insert(r)
    PROVE  AccountsInv'
<1>1. CASE Accounts!RegEnds(r) /\ UNCHANGED <<aUsers, aCodes, aSends, aLogin, aUpdate, aAccess,
           aRefresh, aDecided>>
  <2>1. aCodes' \in [Emails -> Accounts!Code \cup {None}]
    BY <1>1 DEF AccountsInv, Accounts!TypeOK
  <2> QED BY <1>1, <2>1, RegMoves, RegTypes
<1>2. CASE ~Accounts!HasName(aReg[r].name) /\ ~Accounts!HasEmail(aReg[r].email)
           /\ Accounts!Inserted(r, Min(Ids \ Accounts!Taken))
  <2> DEFINE i == Min(Ids \ Accounts!Taken)
             row == [name |-> aReg[r].name, email |-> aReg[r].email, status |-> "active"]
  <2>1. i \in Ids /\ i \notin Accounts!Taken
    <3>1. Ids \ Accounts!Taken # {} /\ \A x \in Ids \ Accounts!Taken : x \in Nat
      BY DEF Accounts!Insert, Accounts!BoundsAssumption, Accounts!Taken
    <3>2. Min(Ids \ Accounts!Taken) \in Ids \ Accounts!Taken
      BY <3>1, NatMin
    <3> QED BY <3>2
  <2> HIDE DEF i
  <2>2. aUsers' = [aUsers EXCEPT ![i] = row] /\ Accounts!Issue(i) /\ Accounts!RegEnds(r)
        /\ UNCHANGED <<aCodes, aSends, aLogin, aUpdate, aDecided>>
    BY <1>2 DEF Accounts!Inserted, i
  <2>3. row \in Accounts!Row
    BY RegTypes DEF Accounts!Insert, RegFine, Accounts!Row
  <2>4. /\ row.name = aReg[r].name /\ row.email = aReg[r].email
        /\ \A j \in Accounts!Taken : aUsers[j].name # row.name /\ aUsers[j].email # row.email
    BY <1>2 DEF Accounts!HasName, Accounts!HasEmail
  <2> HIDE DEF row
  <2>5. row # None
    BY <2>3 DEF Accounts!BoundsAssumption
  <2>6. aReg' = [aReg EXCEPT ![r] = Accounts!NoReg] /\ aReg' \in [Registrations -> Registration]
        /\ \A x \in Registrations : RegFine(aReg'[x])
    <3>1. aReg' = [aReg EXCEPT ![r] = Accounts!NoReg] /\ Accounts!NoReg \in Registration
          /\ RegFine(Accounts!NoReg)
      BY <2>2, RegTypes
    <3>2. aReg \in [Registrations -> Registration] /\ \A x \in Registrations : RegFine(aReg[x])
      BY DEF AccountsInv, Accounts!TypeOK, Registration
    <3> QED BY <3>1, <3>2
  <2>7. aUsers' \in [Ids -> Accounts!Row \cup {None}]
    BY <2>2, <2>3 DEF AccountsInv, Accounts!TypeOK
  <2>8. Accounts!TypeOK'
    BY <2>2, <2>6, <2>7, IssueTypes DEF AccountsInv, Accounts!TypeOK, Registration
  <2>9. Accounts!Taken' = Accounts!Taken \cup {i} /\ aUsers'[i] = row /\ \A j \in Accounts!Taken :
        aUsers'[j] = aUsers[j]
    BY <2>1, <2>2, <2>5 DEF Accounts!Taken, AccountsInv, Accounts!TypeOK
  <2>10. Accounts!OneAccountEach'
    BY <2>1, <2>4, <2>9 DEF Accounts!OneAccountEach, AccountsInv
  <2>11. ASSUME NEW u \in Updates PROVE SameAccount(aUpdate[u])'
    <3>1. SameAccount(aUpdate[u])
      BY DEF AccountsInv
    <3>2. aUpdate[u].pc = "read" => aUsers'[aUpdate[u].id] = aUsers[aUpdate[u].id]
      BY <2>9, <3>1 DEF SameAccount, Accounts!Taken
    <3> QED BY <2>2, <3>1, <3>2 DEF SameAccount, Accounts!Row
  <2> QED BY <2>6, <2>8, <2>10, <2>11 DEF AccountsInv
<1>3. Min(Ids \ Accounts!Taken) = Accounts!Min(Ids \ Accounts!Taken)
  BY DEF Min, Accounts!Min
<1> QED BY <1>1, <1>2, <1>3 DEF Accounts!Insert

(* Authenticate, RefreshToken and the pair of tokens that follows.          *)
LEMMA LoginKeeps ==
    ASSUME Accounts!BoundsAssumption, AccountsInv, NEW l \in Logins,
           Accounts!GenerateTokenPair(l) \/ \E i \in Ids : Accounts!Authenticate(l, i)
           \/ Accounts!RefreshToken(l, i)
    PROVE  AccountsInv'
<1>1. UNCHANGED <<aUsers, aCodes, aSends, aReg, aUpdate, aDecided>>
  BY DEF Accounts!GenerateTokenPair, Accounts!Authenticate, Accounts!RefreshToken
<1>2. aLogin' \in [Logins -> [pc : {"idle", "checked"}, id : Ids \cup {None}]]
  <2>1. CASE Accounts!GenerateTokenPair(l)
    BY <2>1 DEF Accounts!GenerateTokenPair, Accounts!NoLogin, AccountsInv, Accounts!TypeOK
  <2>2. CASE \E i \in Ids : Accounts!Authenticate(l, i) \/ Accounts!RefreshToken(l, i)
    <3>1. PICK i \in Ids : aLogin' = [aLogin EXCEPT ![l] = [pc |-> "checked", id |-> i]]
      BY <2>2 DEF Accounts!Authenticate, Accounts!RefreshToken, Accounts!LoginChecked
    <3> QED BY <3>1 DEF AccountsInv, Accounts!TypeOK
  <2> QED BY <2>1, <2>2
<1>3. aAccess' \in [Ids -> 0..AccessLife] /\ aRefresh' \in [Ids -> 0..RefreshLife]
  <2>1. UNCHANGED <<aAccess, aRefresh>> \/ \E i : Accounts!Issue(i)
    BY DEF Accounts!GenerateTokenPair, Accounts!Authenticate, Accounts!RefreshToken
  <2> QED BY <2>1, IssueTypes DEF AccountsInv, Accounts!TypeOK
<1>4. Accounts!TypeOK'
  BY <1>1, <1>2, <1>3 DEF AccountsInv, Accounts!TypeOK
<1> QED BY <1>1, <1>4, TableKept DEF AccountsInv

(* The SELECT of an update: the row it keeps is the one in the table.       *)
LEMMA AccountReadKeeps ==
    ASSUME Accounts!BoundsAssumption, AccountsInv, NEW u \in Updates, NEW i \in Ids,
           NEW k \in Accounts!OwnKinds \cup Accounts!AdminKinds,
           Accounts!ReadRow(u, i, k)
    PROVE  AccountsInv'
<1> DEFINE q == [pc |-> "read", kind |-> k, id |-> i, row |-> aUsers[i]]
<1>1. UNCHANGED <<aUsers, aCodes, aSends, aReg, aLogin, aAccess, aRefresh, aDecided>>
      /\ aUsers[i] # None /\ aUpdate' = [aUpdate EXCEPT ![u] = q]
  BY DEF Accounts!ReadRow
<1>2. aUsers[i] \in Accounts!Row
  BY <1>1 DEF AccountsInv, Accounts!TypeOK
<1>3. q \in [pc : {"idle", "read"}, kind : Accounts!OwnKinds \cup Accounts!AdminKinds \cup {None},
             id : Ids \cup {None}, row : Accounts!Row \cup {None}]
      /\ SameAccount(q)
  BY <1>1, <1>2 DEF SameAccount
<1> HIDE DEF q
<1>4. aUpdate' \in [Updates -> [pc : {"idle", "read"}, kind : Accounts!OwnKinds
      \cup Accounts!AdminKinds \cup {None},
                               id : Ids \cup {None}, row : Accounts!Row \cup {None}]]
      /\ \A v \in Updates : SameAccount(aUpdate'[v])
  BY <1>1, <1>3 DEF AccountsInv, Accounts!TypeOK
<1>5. Accounts!TypeOK'
  BY <1>1, <1>4 DEF AccountsInv, Accounts!TypeOK
<1>6. Accounts!OneAccountEach'
  BY <1>1 DEF AccountsInv, Accounts!OneAccountEach, Accounts!Taken
<1>7. \A v \in Updates : SameAccount(aUpdate[v])'
  BY <1>1, <1>4 DEF SameAccount, Accounts!Row
<1> QED BY <1>1, <1>5, <1>6, <1>7 DEF AccountsInv, RegFine

(* The UPDATE of the whole row: whatever else changed in between is lost,   *)
(* but the name and the e-mail it writes are those the account has.         *)
LEMMA UpdateUserKeeps ==
    ASSUME Accounts!BoundsAssumption, AccountsInv, NEW u \in Updates, Accounts!UpdateUser(u)
    PROVE  AccountsInv'
<1> DEFINE new == Accounts!Changed(aUpdate[u].row, aUpdate[u].kind)
           i == aUpdate[u].id
<1>1. /\ UNCHANGED <<aCodes, aSends, aReg, aLogin, aAccess, aRefresh>>
      /\ aUpdate' = [aUpdate EXCEPT ![u] = Accounts!NoUpdate] /\ aUpdate[u].pc = "read"
      /\ \/ /\ aUsers' = [aUsers EXCEPT ![i] = new]
            /\ aDecided' = IF aUpdate[u].kind \in {"BanUser", "UnbanUser"}
                          THEN [aDecided EXCEPT ![i] = new.status] ELSE aDecided
         \/ UNCHANGED <<aUsers, aDecided>>
  BY DEF Accounts!UpdateUser
<1>2. SameAccount(aUpdate[u])
  BY DEF AccountsInv
<1>3. i \in Ids /\ i \in Accounts!Taken /\ aUpdate[u].row \in Accounts!Row
      /\ aUsers[i].name = aUpdate[u].row.name /\ aUsers[i].email = aUpdate[u].row.email
  BY <1>1, <1>2 DEF SameAccount, Accounts!Taken
<1>4. new \in Accounts!Row /\ new.name = aUpdate[u].row.name /\ new.email = aUpdate[u].row.email
  BY <1>3 DEF Accounts!Changed, Accounts!Row
<1> HIDE DEF new, i
<1>5. new # None
  BY <1>4 DEF Accounts!BoundsAssumption
<1>6. aUsers' \in [Ids -> Accounts!Row \cup {None}] /\ aDecided' \in [Ids -> {"active", "banned"}]
  <2>1. aUsers \in [Ids -> Accounts!Row \cup {None}] /\ aDecided \in [Ids -> {"active", "banned"}]
    BY DEF AccountsInv, Accounts!TypeOK
  <2>2. aUsers' \in [Ids -> Accounts!Row \cup {None}]
    BY <1>1, <1>3, <1>4, <2>1
  <2>3. new.status \in {"active", "banned"}
    BY <1>4 DEF Accounts!Row
  <2> QED BY <1>1, <2>1, <2>2, <2>3
<1>7. aUpdate' \in [Updates -> [pc : {"idle", "read"}, kind : Accounts!OwnKinds
      \cup Accounts!AdminKinds \cup {None},
                               id : Ids \cup {None}, row : Accounts!Row \cup {None}]]
  BY <1>1 DEF AccountsInv, Accounts!TypeOK, Accounts!NoUpdate
<1>8. Accounts!TypeOK'
  BY <1>1, <1>6, <1>7 DEF AccountsInv, Accounts!TypeOK
<1>9. /\ Accounts!Taken' = Accounts!Taken
      /\ \A j \in Accounts!Taken : aUsers'[j].name = aUsers[j].name
         /\ aUsers'[j].email = aUsers[j].email
  BY <1>1, <1>3, <1>4, <1>5 DEF Accounts!Taken, AccountsInv, Accounts!TypeOK
<1>10. Accounts!OneAccountEach'
  BY <1>9 DEF Accounts!OneAccountEach, AccountsInv, Accounts!Taken
<1>11. ASSUME NEW v \in Updates PROVE SameAccount(aUpdate[v])'
  <2>1. CASE v = u
    BY <1>1, <2>1 DEF SameAccount, Accounts!NoUpdate, AccountsInv, Accounts!TypeOK
  <2>2. CASE v # u
    <3>1. SameAccount(aUpdate[v]) /\ aUpdate'[v] = aUpdate[v]
      BY <1>1, <2>2 DEF AccountsInv, Accounts!TypeOK
    <3>2. aUpdate[v].pc = "read" => aUpdate[v].id \in Accounts!Taken
      BY <3>1 DEF SameAccount, Accounts!Taken
    <3> QED BY <1>9, <3>1, <3>2 DEF SameAccount, Accounts!Taken, Accounts!Row
  <2> QED BY <2>1, <2>2
<1> QED BY <1>1, <1>8, <1>10, <1>11 DEF AccountsInv, RegFine

(* Time passes for the codes and the tokens.                                *)
LEMMA AccountTickKeeps ==
    ASSUME Accounts!BoundsAssumption, AccountsInv, Accounts!Tick
    PROVE  AccountsInv'
<1>1. UNCHANGED <<aUsers, aSends, aReg, aLogin, aUpdate, aDecided>>
  BY DEF Accounts!Tick
<1>2. \A c \in Accounts!Code \cup {None} : Accounts!Older(c) \in Accounts!Code \cup {None}
  BY DEF Accounts!Older, Accounts!Code, Accounts!BoundsAssumption
<1>3. aCodes' \in [Emails -> Accounts!Code \cup {None}]
  BY <1>2 DEF Accounts!Tick, AccountsInv, Accounts!TypeOK
<1>4. aAccess' \in [Ids -> 0..AccessLife] /\ aRefresh' \in [Ids -> 0..RefreshLife]
  <2>1. aAccess \in [Ids -> 0..AccessLife] /\ aRefresh \in [Ids -> 0..RefreshLife]
    BY DEF AccountsInv, Accounts!TypeOK
  <2>2. ASSUME NEW n \in Nat, NEW t \in 0..n PROVE Accounts!Lower(t) \in 0..n
    BY DEF Accounts!Lower
  <2>3. AccessLife \in Nat /\ RefreshLife \in Nat
    BY DEF Accounts!BoundsAssumption
  <2>4. (\A i \in Ids : Accounts!Lower(aAccess[i]) \in 0..AccessLife) /\ \A i \in Ids :
        Accounts!Lower(aRefresh[i]) \in 0..RefreshLife
    BY <2>1, <2>2, <2>3
  <2>5. aAccess' = [i \in Ids |-> Accounts!Lower(aAccess[i])]
        /\ aRefresh' = [i \in Ids |-> Accounts!Lower(aRefresh[i])]
    BY DEF Accounts!Tick
  <2> QED BY <2>4, <2>5
<1>5. Accounts!TypeOK'
  BY <1>1, <1>3, <1>4 DEF AccountsInv, Accounts!TypeOK
<1> QED BY <1>1, <1>5, TableKept DEF AccountsInv

(* The invariant of the accounts holds at the start.                        *)
LEMMA AccountsStart ==
    ASSUME Accounts!BoundsAssumption, Accounts!Init
    PROVE  AccountsInv
<1>1. Accounts!TypeOK
  BY DEF Accounts!Init, Accounts!TypeOK, Accounts!NoReg, Accounts!NoLogin, Accounts!NoUpdate,
     Accounts!BoundsAssumption
<1> QED BY <1>1 DEF Accounts!Init, AccountsInv, Accounts!OneAccountEach, Accounts!Taken, RegFine,
           Accounts!NoReg, SameAccount, Accounts!NoUpdate

(* Every step of the accounts keeps their invariant.                        *)
LEMMA AccountsStep ==
    ASSUME Accounts!BoundsAssumption, AccountsInv, [Accounts!Next]_(Accounts!vars)
    PROVE  AccountsInv'
<1>1. CASE UNCHANGED Accounts!vars
  BY <1>1, TableKept DEF Accounts!vars, AccountsInv, Accounts!TypeOK
<1> QED BY <1>1, CodesKeep, RegisterKeeps, InsertKeeps, LoginKeeps, AccountReadKeeps,
           UpdateUserKeeps, AccountTickKeeps
        DEF Accounts!Next, Accounts!Register
-----------------------------------------------------------------------------

(* Counting and summing mean the same in the instance as here.              *)
LEMMA SameCounting ==
    /\ Codes!LimitsAssumption => IsFiniteSet(Users) /\ IsFiniteSet(Workers)
    /\ \A op, pcs :
       Codes!Count(op, pcs) = Cardinality({w \in Workers : iWork[w].op = op /\ iWork[w].pc \in pcs})
    /\ \A f : Codes!Total(f) = SumFunctionOnSet(f, Users)
    /\ \A S : Codes!Cardinality(S) = Cardinality(S)
<1>1. \A S : Codes!IsFiniteSet(S) = IsFiniteSet(S)
  BY DEF Codes!IsFiniteSet, IsFiniteSet
<1>2. \A S : Codes!Cardinality(S) = Cardinality(S)
  BY DEF Codes!Cardinality, Cardinality, Codes!IsFiniteSet, IsFiniteSet
<1>3. \A f, S : Codes!SumFunctionOnSet(f, S) = SumFunctionOnSet(f, S)
  BY DEF Codes!SumFunctionOnSet, Codes!FoldFunctionOnSet, Codes!MapThenFoldSet,
         SumFunctionOnSet, FoldFunctionOnSet, MapThenFoldSet
<1> QED BY <1>1, <1>2, <1>3 DEF Codes!LimitsAssumption, Codes!Count, Codes!Total

Using == {"recording", "granting", "writing"}
Owing == {"inviting", "granting", "writing", "rollback"}

\* Where a request may be.
RedeemRequest == [op : Ops \cup {None}, user : Users \cup {None}, invite : Codes!Code \cup {None},
bonus : Nat,
             pc : {"idle", "checking", "taking", "recording", "inviting", "granting",
                   "writing", "rollback"}]

\* A request is where its operation goes.
RedeemPlaced(r) ==
    \/ r = Codes!Idle
    \/ r.op = "redeem" /\ r.user \in Users /\ r.pc \in {"checking", "taking"} \cup Using
    \/ r.op = "claim" /\ r.user \in Users /\ r.pc \in {"checking", "taking"} \cup Owing
    \/ r.op = "disable" /\ r.invite \in Codes!Code /\ r.pc = "writing"

RedeemTypes ==
    /\ iCode \in Codes!Code
    /\ iTemplate \in [issued : Nat, enabled : BOOLEAN]
    /\ iRows \in [Users -> Nat \cup {None}]
    /\ iWork \in [Workers -> RedeemRequest]
    /\ \A w \in Workers : RedeemPlaced(iWork[w])
    /\ iRedeemed \in [Users -> Nat] /\ iClaimed \in [Users -> Nat] /\ iLost \in Nat

RedeemInv == RedeemTypes /\ Codes!UsesCoverRedemptions /\ Codes!EverySlotOwned

\* What a request counts for.
Among(wk, op, pcs) == {w \in Workers : wk[w].op = op /\ wk[w].pc \in pcs}
One(r, op, pcs) == IF r.op = op /\ r.pc \in pcs THEN 1 ELSE 0

Counted(wk, wk2, w, op, pcs) ==
    /\ Cardinality(Among(wk, op, pcs)) \in Nat
    /\ Cardinality(Among(wk2, op, pcs)) \in Nat
    /\ Cardinality(Among(wk2, op, pcs))
         = Cardinality(Among(wk, op, pcs)) - One(wk[w], op, pcs) + One(wk2[w], op, pcs)

(* A step of one request changes a count of requests by what that request   *)
(* counts for before and after.                                             *)
LEMMA CountChange ==
    ASSUME IsFiniteSet(Workers), NEW wk, NEW wk2, NEW w \in Workers,
           \A v \in Workers \ {w} : wk2[v] = wk[v], NEW op, NEW pcs
    PROVE  Counted(wk, wk2, w, op, pcs)
<1> DEFINE A == Among(wk, op, pcs)
           B == Among(wk2, op, pcs)
           C == A \ {w}
<1>1. IsFiniteSet(A) /\ IsFiniteSet(B)
  BY FS_Subset DEF Among
<1>2. B \ {w} = A \ {w}
  BY DEF Among
<1>3. (w \in A <=> One(wk[w], op, pcs) = 1) /\ (w \in B <=> One(wk2[w], op, pcs) = 1)
  BY DEF Among, One
<1>4. One(wk[w], op, pcs) \in {0, 1} /\ One(wk2[w], op, pcs) \in {0, 1}
  BY DEF One
<1> HIDE DEF A, B
<1>5. Cardinality(A \ {w}) = IF w \in A THEN Cardinality(A) - 1 ELSE Cardinality(A)
  BY <1>1, FS_RemoveElement
<1>6. Cardinality(B \ {w}) = IF w \in B THEN Cardinality(B) - 1 ELSE Cardinality(B)
  BY <1>1, FS_RemoveElement
<1>7. Cardinality(A) \in Nat /\ Cardinality(B) \in Nat
  BY <1>1, FS_CardinalityType
<1>8. Cardinality(B) = Cardinality(A) - One(wk[w], op, pcs) + One(wk2[w], op, pcs)
  <2>1. Cardinality(B \ {w}) = Cardinality(A \ {w})
    BY <1>2
  <2>2. Cardinality(A \ {w}) = Cardinality(A) - One(wk[w], op, pcs)
    BY <1>3, <1>4, <1>5, <1>7
  <2>3. Cardinality(B \ {w}) = Cardinality(B) - One(wk2[w], op, pcs)
    BY <1>3, <1>4, <1>6, <1>7
  <2> QED BY <1>4, <1>7, <2>1, <2>2, <2>3
<1> QED BY <1>7, <1>8 DEF A, B, Counted

(* One success more is one more in the total.                               *)
LEMMA TotalChange ==
    ASSUME IsFiniteSet(Users), NEW f \in [Users -> Nat], NEW u \in Users
    PROVE  /\ Codes!Total(f) \in Nat
           /\ [f EXCEPT ![u] = @ + 1] \in [Users -> Nat]
           /\ Codes!Total([f EXCEPT ![u] = @ + 1]) = Codes!Total(f) + 1
<1> DEFINE g == [f EXCEPT ![u] = @ + 1]
<1>1. g \in [Users -> Nat] /\ g[u] = f[u] + 1 /\ \A x \in Users \ {u} : f[x] = g[x]
  OBVIOUS
<1> HIDE DEF g
<1>2. \A x \in Users : f[x] \in Nat /\ g[x] \in Nat
  BY <1>1
<1>3. SumFunctionOnSet(g, Users) = (SumFunctionOnSet(f, Users) - f[u]) + g[u]
  BY <1>1, <1>2, SumChange
<1>4. SumFunctionOnSet(f, Users) \in Nat
  BY <1>2, SumNat
<1>5. Codes!Total(g) = Codes!Total(f) + 1
  BY <1>1, <1>2, <1>3, <1>4, SameCounting
<1> QED BY <1>1, <1>4, <1>5, SameCounting DEF g

(* A total of successes is a number.                                        *)
LEMMA TotalNat ==
    ASSUME Codes!LimitsAssumption, NEW f \in [Users -> Nat]
    PROVE  Codes!Total(f) \in Nat
<1>1. \A u \in Users : f[u] \in Nat
  OBVIOUS
<1> QED BY <1>1, SumNat, SameCounting

(* What a step of one request makes of the requests and of every count.     *)
LEMMA Moves ==
    ASSUME Codes!LimitsAssumption, RedeemTypes, NEW w \in Workers, NEW r \in RedeemRequest,
           RedeemPlaced(r),
           iWork' = [iWork EXCEPT ![w] = r]
    PROVE  /\ iWork' \in [Workers -> RedeemRequest] /\ \A v \in Workers : RedeemPlaced(iWork'[v])
           /\ \A op, pcs : /\ Codes!Count(op, pcs) \in Nat /\ Codes!Count(op, pcs)' \in Nat
                           /\ Codes!Count(op, pcs)' = Codes!Count(op, pcs) - One(iWork[w], op,
                              pcs) + One(r, op, pcs)
<1>1. iWork' \in [Workers -> RedeemRequest] /\ iWork'[w] = r /\ \A v \in Workers \ {w} :
      iWork'[v] = iWork[v]
  BY DEF RedeemTypes
<1>2. \A v \in Workers : RedeemPlaced(iWork'[v])
  BY <1>1 DEF RedeemTypes
<1>3. IsFiniteSet(Workers)
  BY SameCounting
<1>5. \A op, pcs : Counted(iWork, iWork', w, op, pcs)
  BY <1>1, <1>3, CountChange, Zenon
<1>4. \A op, pcs : Codes!Count(op, pcs) = Cardinality(Among(iWork, op, pcs))
                   /\ Codes!Count(op, pcs)' = Cardinality(Among(iWork', op, pcs))
  BY SameCounting DEF Codes!Count, Among
<1> QED BY <1>1, <1>2, <1>4, <1>5 DEF Counted

\* What is left of the code's uses, and who has the slots.
UsesLeft(c, red, r) == c.used - Codes!Total(red) - One(r, "redeem", Using)
SlotsOwed(t, cl, l, r) == t.issued - Codes!Total(cl) - l - One(r, "claim", Owing)

(* A step of one request keeps the invariant when the uses it leaves are no *)
(* fewer and the slots owed the same. A disabled code is owed nothing.      *)
LEMMA Kept ==
    ASSUME Codes!LimitsAssumption, RedeemInv, NEW w \in Workers, NEW r \in RedeemRequest,
           RedeemPlaced(r),
           iWork' = [iWork EXCEPT ![w] = r],
           iCode' \in Codes!Code, iTemplate' \in [issued : Nat, enabled : BOOLEAN],
           iRows' \in [Users -> Nat \cup {None}],
           iRedeemed' \in [Users -> Nat], iClaimed' \in [Users -> Nat], iLost' \in Nat,
           iCode'.active => iCode.active,
           iCode'.active => UsesLeft(iCode, iRedeemed, iWork[w]) <= UsesLeft(iCode', iRedeemed', r),
           SlotsOwed(iTemplate, iClaimed, iLost, iWork[w]) = SlotsOwed(iTemplate', iClaimed',
           iLost', r)
    PROVE  RedeemInv'
<1>1. \A f \in [Users -> Nat] : Codes!Total(f) \in Nat
  <2>1. ASSUME NEW f \in [Users -> Nat] PROVE Codes!Total(f) \in Nat
    <3>1. \A u \in Users : f[u] \in Nat
      OBVIOUS
    <3> QED BY <3>1, SumNat, SameCounting
  <2> QED BY <2>1
<1>2. /\ iWork' \in [Workers -> RedeemRequest] /\ \A v \in Workers : RedeemPlaced(iWork'[v])
      /\ \A op, pcs : /\ Codes!Count(op, pcs) \in Nat /\ Codes!Count(op, pcs)' \in Nat
                      /\ Codes!Count(op, pcs)' = Codes!Count(op, pcs) - One(iWork[w], op,
                         pcs) + One(r, op, pcs)
  BY Moves DEF RedeemInv
<1>3. RedeemTypes'
  BY <1>2 DEF RedeemTypes
<1>4. \A q, op, pcs : One(q, op, pcs) \in {0, 1}
  BY DEF One
<1>5. Codes!UsesCoverRedemptions'
  <2> SUFFICES ASSUME iCode'.active
               PROVE  Codes!Total(iRedeemed') + Codes!Count("redeem", Using)' <= iCode'.used
    BY DEF Codes!UsesCoverRedemptions, Using
  <2> DEFINE a == Codes!Total(iRedeemed)  b == Codes!Total(iRedeemed')
             m == Codes!Count("redeem", Using)  n == Codes!Count("redeem", Using)'
             i == One(iWork[w], "redeem", Using)  j == One(r, "redeem", Using)
             x == iCode.used  y == iCode'.used
  <2>1. a \in Nat /\ b \in Nat /\ m \in Nat /\ n \in Nat /\ i \in Nat /\ j \in Nat
    BY <1>1, <1>2, <1>4 DEF RedeemInv, RedeemTypes
  <2>2. x \in Nat /\ y \in Nat
    BY DEF RedeemInv, RedeemTypes, Codes!Code, Codes!LimitsAssumption
  <2>3. n = m - i + j
    BY <1>2
  <2>4. a + m <= x
    BY DEF RedeemInv, Codes!UsesCoverRedemptions, Using
  <2>5. x - a - i <= y - b - j
    BY DEF UsesLeft
  <2> HIDE DEF a, b, m, n, i, j, x, y
  <2>6. b + n <= y
    BY <2>1, <2>2, <2>3, <2>4, <2>5
  <2> QED BY <2>6 DEF b, n, y
<1>6. Codes!EverySlotOwned'
  <2> DEFINE a == Codes!Total(iClaimed)  b == Codes!Total(iClaimed')
             m == Codes!Count("claim", Owing)  n == Codes!Count("claim", Owing)'
             i == One(iWork[w], "claim", Owing)  j == One(r, "claim", Owing)
             x == iTemplate.issued  y == iTemplate'.issued  k == iLost  l == iLost'
  <2>1. a \in Nat /\ b \in Nat /\ m \in Nat /\ n \in Nat /\ i \in Nat /\ j \in Nat
    BY <1>1, <1>2, <1>4 DEF RedeemInv, RedeemTypes
  <2>2. x \in Nat /\ y \in Nat /\ k \in Nat /\ l \in Nat
    BY DEF RedeemInv, RedeemTypes
  <2>3. n = m - i + j
    BY <1>2
  <2>4. x = a + k + m
    BY DEF RedeemInv, Codes!EverySlotOwned, Owing
  <2>5. x - a - k - i = y - b - l - j
    BY DEF SlotsOwed
  <2> HIDE DEF a, b, m, n, i, j, x, y, k, l
  <2>6. y = b + l + n
    BY <2>1, <2>2, <2>3, <2>4, <2>5
  <2> QED BY <2>6 DEF b, n, y, l, Codes!EverySlotOwned, Owing
<1> QED BY <1>3, <1>5, <1>6 DEF RedeemInv

(* A request counts for nothing or for one.                                 *)
LEMMA OneValue ==
    ASSUME NEW r, NEW op, NEW pcs
    PROVE  One(r, op, pcs) \in {0, 1}
BY DEF One

(* A step that leaves uses, slots and successes alone keeps the invariant.  *)
LEMMA KeptAside ==
    ASSUME Codes!LimitsAssumption, RedeemInv, NEW w \in Workers, NEW r \in RedeemRequest,
           RedeemPlaced(r),
           iWork' = [iWork EXCEPT ![w] = r],
           UNCHANGED <<iCode, iTemplate, iRedeemed, iClaimed, iLost>>,
           iRows' \in [Users -> Nat \cup {None}],
           One(r, "redeem", Using) <= One(iWork[w], "redeem", Using),
           One(r, "claim", Owing) = One(iWork[w], "claim", Owing)
    PROVE  RedeemInv'
<1>1. iCode.used \in Nat /\ Codes!Total(iRedeemed) \in Nat
  <2>1. \A u \in Users : iRedeemed[u] \in Nat
    BY DEF RedeemInv, RedeemTypes
  <2> QED BY <2>1, SumNat, SameCounting DEF Codes!LimitsAssumption, RedeemInv, RedeemTypes,
             Codes!Code
<1>2. UsesLeft(iCode, iRedeemed, iWork[w]) <= UsesLeft(iCode', iRedeemed', r)
  <2> DEFINE i == One(iWork[w], "redeem", Using)  j == One(r, "redeem", Using)
             a == Codes!Total(iRedeemed)  x == iCode.used
  <2>1. i \in Nat /\ j \in Nat /\ j <= i /\ a \in Nat /\ x \in Nat
    BY <1>1, OneValue
  <2>2. UsesLeft(iCode, iRedeemed, iWork[w]) = x - a - i
        /\ UsesLeft(iCode', iRedeemed', r) = x - a - j
    BY DEF UsesLeft
  <2> HIDE DEF i, j, a, x
  <2> QED BY <2>1, <2>2
<1>3. SlotsOwed(iTemplate, iClaimed, iLost, iWork[w]) = SlotsOwed(iTemplate', iClaimed', iLost', r)
  BY DEF SlotsOwed
<1>4. /\ iCode' \in Codes!Code /\ iTemplate' \in [issued : Nat, enabled : BOOLEAN]
      /\ iRedeemed' \in [Users -> Nat] /\ iClaimed' \in [Users -> Nat] /\ iLost' \in Nat
      /\ iCode'.active => iCode.active
  BY DEF RedeemInv, RedeemTypes
<1> QED BY <1>2, <1>3, <1>4, Kept

(* What a request is, and what Return and Goto make of it.                  *)
LEMMA Onward ==
    ASSUME Codes!LimitsAssumption, RedeemInv, NEW w \in Workers
    PROVE  /\ iWork[w] \in RedeemRequest /\ RedeemPlaced(iWork[w])
           /\ Codes!Idle \in RedeemRequest /\ RedeemPlaced(Codes!Idle)
           /\ One(Codes!Idle, "redeem", Using) = 0 /\ One(Codes!Idle, "claim", Owing) = 0
           /\ Codes!Return(w) => iWork' = [iWork EXCEPT ![w] = Codes!Idle]
           /\ \A pc : Codes!Goto(w, pc)
              => iWork' = [iWork EXCEPT ![w] = [iWork[w] EXCEPT !.pc = pc]]
<1>1. iWork[w] \in RedeemRequest /\ RedeemPlaced(iWork[w])
  BY DEF RedeemInv, RedeemTypes
<1>2. Codes!Idle \in RedeemRequest /\ RedeemPlaced(Codes!Idle)
  BY DEF Codes!Idle, RedeemRequest, RedeemPlaced
<1>3. One(Codes!Idle, "redeem", Using) = 0 /\ One(Codes!Idle, "claim", Owing) = 0
  BY DEF One, Codes!Idle, Codes!LimitsAssumption
<1>4. Codes!Return(w) => iWork' = [iWork EXCEPT ![w] = Codes!Idle]
  BY DEF Codes!Return
<1>5. \A pc : Codes!Goto(w, pc) => iWork' = [iWork EXCEPT ![w] = [iWork[w] EXCEPT !.pc = pc]]
  BY DEF Codes!Goto
<1> QED BY <1>1, <1>2, <1>3, <1>4, <1>5

(* Returning without effect, which a claim that owes its slot may not.      *)
LEMMA ReturnAside ==
    ASSUME Codes!LimitsAssumption, RedeemInv, NEW w \in Workers, Codes!Return(w),
           UNCHANGED <<iCode, iTemplate, iRedeemed, iClaimed, iLost, iRows>>,
           ~ (iWork[w].op = "claim" /\ iWork[w].pc \in Owing)
    PROVE  RedeemInv'
<1>1. One(iWork[w], "claim", Owing) = 0 /\ One(iWork[w], "redeem", Using) >= 0
  BY DEF One
<1>2. iRows' \in [Users -> Nat \cup {None}]
  BY DEF RedeemInv, RedeemTypes
<1> QED BY <1>1, <1>2, Onward, KeptAside

(* Going on without effect.                                                 *)
LEMMA GotoAside ==
    ASSUME Codes!LimitsAssumption, RedeemInv, NEW w \in Workers, NEW pc, Codes!Goto(w, pc),
           UNCHANGED <<iCode, iTemplate, iRedeemed, iClaimed, iLost, iRows>>,
           pc \in {"idle", "checking", "taking", "recording", "inviting", "granting",
                   "writing", "rollback"},
           RedeemPlaced([iWork[w] EXCEPT !.pc = pc]),
           iWork[w].op = "redeem" => (pc \in Using => iWork[w].pc \in Using),
           iWork[w].op = "claim" => (pc \in Owing <=> iWork[w].pc \in Owing)
    PROVE  RedeemInv'
<1> DEFINE r == [iWork[w] EXCEPT !.pc = pc]
<1>1. r \in RedeemRequest /\ r.op = iWork[w].op /\ r.pc = pc
  BY Onward DEF RedeemRequest
<1> HIDE DEF r
<1>2. One(r, "redeem", Using) <= One(iWork[w], "redeem", Using)
  BY <1>1 DEF One
<1>3. One(r, "claim", Owing) = One(iWork[w], "claim", Owing)
  BY <1>1 DEF One
<1>4. iRows' \in [Users -> Nat \cup {None}]
  BY DEF RedeemInv, RedeemTypes
<1>5. iWork' = [iWork EXCEPT ![w] = r] /\ RedeemPlaced(r)
  BY Onward DEF r
<1> QED BY <1>1, <1>2, <1>3, <1>4, <1>5, KeptAside

(* RedeemCode, ClaimTemplate and the disabling of a code begin.             *)
LEMMA BeginKeeps ==
    ASSUME Codes!LimitsAssumption, RedeemInv, NEW w \in Workers,
           (\E u \in Users : Codes!BeginRedeem(w, u) \/ Codes!BeginClaim(w, u))
           \/ Codes!BeginDisable(w)
    PROVE  RedeemInv'
<1>1. PICK op \in Ops, user \in Users \cup {None}, invite \in Codes!Code \cup {None},
      pc \in {"checking", "writing"} :
         /\ Codes!Begin(w, op, user, pc, invite)
         /\ UNCHANGED <<iCode, iTemplate, iRedeemed, iClaimed, iLost, iRows>>
         /\ \/ op = "redeem" /\ user \in Users /\ pc = "checking"
            \/ op = "claim" /\ user \in Users /\ pc = "checking"
            \/ op = "disable" /\ invite \in Codes!Code /\ pc = "writing"
  <2>1. iCode \in Codes!Code
    BY DEF RedeemInv, RedeemTypes
  <2>2. CASE \E u \in Users : Codes!BeginRedeem(w, u)
    <3>1. PICK u \in Users : Codes!BeginRedeem(w, u)
      BY <2>2
    <3> QED BY <2>1, <3>1 DEF Codes!BeginRedeem, Codes!Begin, Codes!codeVars, Codes!templateVars
  <2>3. CASE \E u \in Users : Codes!BeginClaim(w, u)
    <3>1. PICK u \in Users : Codes!BeginClaim(w, u)
      BY <2>3
    <3> QED BY <2>1, <3>1 DEF Codes!BeginClaim, Codes!Begin, Codes!codeVars, Codes!templateVars
  <2>4. CASE Codes!BeginDisable(w)
    BY <2>1, <2>4 DEF Codes!BeginDisable, Codes!Begin, Codes!codeVars, Codes!templateVars
  <2> QED BY <2>2, <2>3, <2>4
<1> DEFINE r == [op |-> op, user |-> user, invite |-> invite, bonus |-> 0, pc |-> pc]
<1>2. iWork[w] = Codes!Idle /\ iWork' = [iWork EXCEPT ![w] = r]
  BY <1>1 DEF Codes!Begin
<1>3. r \in RedeemRequest /\ RedeemPlaced(r)
  BY <1>1 DEF RedeemRequest, RedeemPlaced
<1>4. One(r, "redeem", Using) = 0 /\ One(r, "claim", Owing) = 0
  BY <1>1 DEF One, Using, Owing
<1> HIDE DEF r
<1>5. iRows' \in [Users -> Nat \cup {None}]
  BY <1>1 DEF RedeemInv, RedeemTypes
<1>6. /\ One(r, "redeem", Using) <= One(iWork[w], "redeem", Using)
      /\ One(r, "claim", Owing) = One(iWork[w], "claim", Owing)
  <2>1. One(Codes!Idle, "redeem", Using) = 0 /\ One(Codes!Idle, "claim", Owing) = 0
    BY Onward
  <2> QED BY <1>2, <1>4, <2>1
<1>7. UNCHANGED <<iCode, iTemplate, iRedeemed, iClaimed, iLost>>
  BY <1>1
<1> QED BY <1>2, <1>3, <1>5, <1>6, <1>7, KeptAside

(* The look-ups before a use or a slot is taken.                            *)
LEMMA CheckKeeps ==
    ASSUME Codes!LimitsAssumption, RedeemInv, NEW w \in Workers, Codes!CheckUsed(w)
           \/ Codes!CheckClaims(w)
    PROVE  RedeemInv'
<1>1. /\ UNCHANGED <<iCode, iTemplate, iRedeemed, iClaimed, iLost, iRows>>
      /\ iWork[w].pc = "checking" /\ (iWork[w].op = "redeem" \/ iWork[w].op = "claim")
      /\ Codes!Return(w) \/ Codes!Goto(w, "taking")
  BY DEF Codes!CheckUsed, Codes!CheckClaims, Codes!At, Codes!codeVars, Codes!templateVars
<1>2. CASE Codes!Return(w)
  BY <1>1, <1>2, ReturnAside DEF Owing
<1>3. CASE Codes!Goto(w, "taking")
  <2>1. RedeemPlaced([iWork[w] EXCEPT !.pc = "taking"])
    BY <1>1, Onward DEF RedeemPlaced, RedeemRequest, Codes!Idle, Using, Owing
  <2> QED BY <1>1, <1>3, <2>1, GotoAside DEF Using, Owing
<1> QED BY <1>1, <1>2, <1>3

(* TakeUse: the guarded UPDATE takes one use, which the request holds.      *)
LEMMA TakeUseKeeps ==
    ASSUME Codes!LimitsAssumption, RedeemInv, NEW w \in Workers, Codes!TakeUse(w)
    PROVE  RedeemInv'
<1>1. /\ UNCHANGED <<iTemplate, iRedeemed, iClaimed, iLost, iRows>>
      /\ iWork[w].pc = "taking" /\ iWork[w].op = "redeem"
  BY DEF Codes!TakeUse, Codes!At, Codes!templateVars
<1>2. CASE iCode.used >= MaxUses
  BY <1>1, <1>2, ReturnAside DEF Codes!TakeUse, Codes!LimitsAssumption, RedeemInv, RedeemTypes,
     Codes!Code
<1>3. CASE iCode.used < MaxUses
  <2> DEFINE r == [iWork[w] EXCEPT !.pc = "recording"]
  <2>1. /\ iCode' = [iCode EXCEPT !.used = @ + 1]
        /\ iWork' = [iWork EXCEPT ![w] = r]
    BY <1>3 DEF Codes!TakeUse, Codes!Goto
  <2>2. r \in RedeemRequest /\ RedeemPlaced(r) /\ r.op = "redeem" /\ r.pc = "recording"
    BY <1>1, Onward DEF RedeemPlaced, RedeemRequest, Codes!Idle, Using
  <2> HIDE DEF r
  <2>3. iCode' \in Codes!Code /\ iCode'.used = iCode.used + 1 /\ iCode'.active = iCode.active
        /\ iCode.used \in Nat
    BY <1>3, <2>1 DEF RedeemInv, RedeemTypes, Codes!Code, Codes!LimitsAssumption
  <2>4. One(iWork[w], "redeem", Using) = 0 /\ One(r, "redeem", Using) = 1
    BY <1>1, <2>2 DEF One, Using
  <2>5. Codes!Total(iRedeemed) \in Nat
    <3>1. \A u \in Users : iRedeemed[u] \in Nat
      BY DEF RedeemInv, RedeemTypes
    <3> QED BY <3>1, SumNat, SameCounting
  <2>6. UsesLeft(iCode, iRedeemed, iWork[w]) <= UsesLeft(iCode', iRedeemed', r)
    BY <1>1, <2>3, <2>4, <2>5 DEF UsesLeft
  <2>7. One(r, "claim", Owing) = One(iWork[w], "claim", Owing)
    BY <1>1, <2>2 DEF One
  <2>8. SlotsOwed(iTemplate, iClaimed, iLost, iWork[w]) = SlotsOwed(iTemplate', iClaimed', iLost',
        r)
    BY <1>1, <2>7 DEF SlotsOwed
  <2>9. /\ iTemplate' \in [issued : Nat, enabled : BOOLEAN] /\ iRows' \in [Users -> Nat \cup {None}]
        /\ iRedeemed' \in [Users -> Nat] /\ iClaimed' \in [Users -> Nat] /\ iLost' \in Nat
    BY <1>1 DEF RedeemInv, RedeemTypes
  <2> QED BY <2>1, <2>2, <2>3, <2>6, <2>8, <2>9, Kept
<1>4. iCode.used \in Nat /\ MaxUses \in Nat
  BY DEF RedeemInv, RedeemTypes, Codes!Code, Codes!LimitsAssumption
<1> QED BY <1>2, <1>3, <1>4

(* RecordUse: the usage row is written; a code without a bonus is redeemed. *)
LEMMA RecordUseKeeps ==
    ASSUME Codes!LimitsAssumption, RedeemInv, NEW w \in Workers, Codes!RecordUse(w)
    PROVE  RedeemInv'
<1>1. /\ UNCHANGED <<iCode, iTemplate, iClaimed, iLost, iRows>>
      /\ iWork[w].pc = "recording" /\ iWork[w].op = "redeem"
  BY DEF Codes!RecordUse, Codes!At, Codes!templateVars
<1>2. CASE HasBonus
  <2>1. Codes!Goto(w, "granting") /\ UNCHANGED iRedeemed
    BY <1>2 DEF Codes!RecordUse
  <2>2. RedeemPlaced([iWork[w] EXCEPT !.pc = "granting"])
    BY <1>1, Onward DEF RedeemPlaced, RedeemRequest, Codes!Idle, Using, Owing
  <2> QED BY <1>1, <2>1, <2>2, GotoAside DEF Using, Owing
<1>3. CASE ~HasBonus
  <2> DEFINE u == iWork[w].user
  <2>1. u \in Users
    BY <1>1, Onward DEF RedeemPlaced, Codes!Idle
  <2>2. iRedeemed' = [iRedeemed EXCEPT ![u] = @ + 1] /\ Codes!Return(w)
    BY <1>3 DEF Codes!RecordUse
  <2> HIDE DEF u
  <2>3. Codes!Total(iRedeemed) \in Nat /\ iRedeemed' \in [Users -> Nat]
        /\ Codes!Total(iRedeemed') = Codes!Total(iRedeemed) + 1
    BY <2>1, <2>2, TotalChange, SameCounting DEF RedeemInv, RedeemTypes, Codes!LimitsAssumption
  <2>4. One(iWork[w], "redeem", Using) = 1 /\ One(iWork[w], "claim", Owing) = 0
    BY <1>1 DEF One, Using
  <2>5. iCode.used \in Nat
    BY DEF RedeemInv, RedeemTypes, Codes!Code, Codes!LimitsAssumption
  <2>6. UsesLeft(iCode, iRedeemed, iWork[w]) <= UsesLeft(iCode', iRedeemed', Codes!Idle)
    BY <1>1, <2>3, <2>4, <2>5, Onward DEF UsesLeft
  <2>7. SlotsOwed(iTemplate, iClaimed, iLost, iWork[w]) = SlotsOwed(iTemplate', iClaimed', iLost',
        Codes!Idle)
    BY <1>1, <2>4, Onward DEF SlotsOwed
  <2>8. /\ iCode' \in Codes!Code /\ iTemplate' \in [issued : Nat, enabled : BOOLEAN]
        /\ iRows' \in [Users -> Nat \cup {None}] /\ iClaimed' \in [Users -> Nat] /\ iLost' \in Nat
        /\ iCode'.active => iCode.active
    BY <1>1 DEF RedeemInv, RedeemTypes
  <2> QED BY <2>2, <2>3, <2>6, <2>7, <2>8, Onward, Kept
<1> QED BY <1>2, <1>3

(* TakeSlot: the guarded UPDATE takes one slot, which the claim holds.      *)
LEMMA TakeSlotKeeps ==
    ASSUME Codes!LimitsAssumption, RedeemInv, NEW w \in Workers, Codes!TakeSlot(w)
    PROVE  RedeemInv'
<1>1. /\ UNCHANGED <<iCode, iRedeemed, iClaimed, iLost, iRows>>
      /\ iWork[w].pc = "taking" /\ iWork[w].op = "claim"
  BY DEF Codes!TakeSlot, Codes!At, Codes!codeVars
<1>2. iTemplate.issued \in Nat /\ TotalLimit \in Nat
  BY DEF RedeemInv, RedeemTypes, Codes!LimitsAssumption
<1>3. CASE ~ (iTemplate.issued < TotalLimit)
  BY <1>1, <1>3, ReturnAside DEF Codes!TakeSlot, Owing
<1>4. CASE iTemplate.issued < TotalLimit
  <2> DEFINE r == [iWork[w] EXCEPT !.pc = "inviting"]
  <2>1. /\ iTemplate' = [iTemplate EXCEPT !.issued = @ + 1]
        /\ iWork' = [iWork EXCEPT ![w] = r]
    BY <1>4 DEF Codes!TakeSlot, Codes!Goto
  <2>2. r \in RedeemRequest /\ RedeemPlaced(r) /\ r.op = "claim" /\ r.pc = "inviting"
    BY <1>1, Onward DEF RedeemPlaced, RedeemRequest, Codes!Idle, Owing
  <2> HIDE DEF r
  <2>3. /\ iTemplate' \in [issued : Nat, enabled : BOOLEAN]
        /\ iTemplate'.issued = iTemplate.issued + 1
    BY <1>2, <2>1 DEF RedeemInv, RedeemTypes
  <2>4. One(iWork[w], "claim", Owing) = 0 /\ One(r, "claim", Owing) = 1
    BY <1>1, <2>2 DEF One, Owing
  <2>5. One(iWork[w], "redeem", Using) = 0 /\ One(r, "redeem", Using) = 0
    BY <1>1, <2>2 DEF One
  <2>6. Codes!Total(iClaimed) \in Nat /\ iLost \in Nat /\ Codes!Total(iRedeemed) \in Nat
        /\ iCode.used \in Nat
    BY TotalNat DEF RedeemInv, RedeemTypes, Codes!Code, Codes!LimitsAssumption
  <2>7. UsesLeft(iCode, iRedeemed, iWork[w]) <= UsesLeft(iCode', iRedeemed', r)
    BY <1>1, <2>5, <2>6 DEF UsesLeft
  <2>8. SlotsOwed(iTemplate, iClaimed, iLost, iWork[w]) = SlotsOwed(iTemplate', iClaimed', iLost',
        r)
    BY <1>1, <1>2, <2>3, <2>4, <2>6 DEF SlotsOwed
  <2>9. /\ iCode' \in Codes!Code /\ iRows' \in [Users -> Nat \cup {None}]
        /\ iCode'.active => iCode.active
        /\ iRedeemed' \in [Users -> Nat] /\ iClaimed' \in [Users -> Nat] /\ iLost' \in Nat
    BY <1>1 DEF RedeemInv, RedeemTypes
  <2>11. iTemplate' \in [issued : Nat, enabled : BOOLEAN] /\ RedeemPlaced(r) /\ r \in RedeemRequest
    BY <2>2, <2>3
  <2> QED BY <2>1, <2>7, <2>8, <2>9, <2>11, Kept
<1> QED BY <1>3, <1>4

(* The personal code of a claim is inserted.                                *)
LEMMA InviteKeeps ==
    ASSUME Codes!LimitsAssumption, RedeemInv, NEW w \in Workers, Codes!Invite(w)
    PROVE  RedeemInv'
<1>1. /\ UNCHANGED <<iCode, iTemplate, iRedeemed, iClaimed, iLost, iRows>>
      /\ iWork[w].pc = "inviting" /\ iWork[w].op = "claim" /\ Codes!Goto(w, "granting")
  BY DEF Codes!Invite, Codes!At, Codes!codeVars
<1>2. RedeemPlaced([iWork[w] EXCEPT !.pc = "granting"])
  BY <1>1, Onward DEF RedeemPlaced, RedeemRequest, Codes!Idle, Using, Owing
<1> QED BY <1>1, <1>2, GotoAside DEF Using, Owing

(* A failed grant: a claim goes on to give its slot back, a redemption      *)
(* returns and its use stays taken.                                         *)
LEMMA FailKeeps ==
    ASSUME Codes!LimitsAssumption, RedeemInv, NEW w \in Workers, Codes!Fail(w),
           iWork[w].pc \in Owing,
           UNCHANGED <<iCode, iTemplate, iRedeemed, iClaimed, iLost, iRows>>
    PROVE  RedeemInv'
<1>1. CASE iWork[w].op = "claim"
  <2>1. Codes!Goto(w, "rollback")
    BY <1>1 DEF Codes!Fail
  <2>2. RedeemPlaced([iWork[w] EXCEPT !.pc = "rollback"])
    BY <1>1, Onward DEF RedeemPlaced, RedeemRequest, Codes!Idle, Using, Owing,
       Codes!LimitsAssumption
  <2> QED BY <1>1, <2>1, <2>2, GotoAside DEF Using, Owing
<1>2. CASE iWork[w].op # "claim"
  BY <1>2, ReturnAside DEF Codes!Fail
<1> QED BY <1>1, <1>2

(* The SELECT of the quota row, which may be missing.                       *)
LEMMA ReadRowKeeps ==
    ASSUME Codes!LimitsAssumption, RedeemInv, NEW w \in Workers, Codes!ReadRow(w)
    PROVE  RedeemInv'
<1>1. iWork[w].pc = "granting" /\ UNCHANGED <<iCode, iTemplate, iRedeemed, iClaimed, iLost, iRows>>
  BY DEF Codes!ReadRow, Codes!codeVars, Codes!templateVars
<1>2. CASE iRows[iWork[w].user] = None
  BY <1>1, <1>2, FailKeeps DEF Codes!ReadRow, Owing
<1>3. CASE iRows[iWork[w].user] # None
  <2> DEFINE r == [iWork[w] EXCEPT !.pc = "writing", !.bonus = iRows[iWork[w].user]]
  <2>1. iWork[w].user \in Users /\ iWork[w].op \in {"redeem", "claim"}
    BY <1>1, Onward DEF RedeemPlaced, Codes!Idle
  <2>2. iRows[iWork[w].user] \in Nat
    BY <1>3, <2>1 DEF RedeemInv, RedeemTypes
  <2>3. iWork' = [iWork EXCEPT ![w] = r]
    BY <1>3 DEF Codes!ReadRow
  <2>4. r \in RedeemRequest /\ r.op = iWork[w].op /\ r.pc = "writing" /\ r.user = iWork[w].user
    BY <2>2, Onward DEF RedeemRequest
  <2> HIDE DEF r
  <2>5. RedeemPlaced(r)
    BY <2>1, <2>4 DEF RedeemPlaced, Using, Owing
  <2>6. /\ One(r, "redeem", Using) = One(iWork[w], "redeem", Using)
        /\ One(r, "claim", Owing) = One(iWork[w], "claim", Owing)
    BY <1>1, <2>4 DEF One, Using, Owing
  <2>7. One(r, "redeem", Using) <= One(iWork[w], "redeem", Using)
    BY <2>6, OneValue
  <2>8. iRows' \in [Users -> Nat \cup {None}]
    BY <1>1 DEF RedeemInv, RedeemTypes
  <2> QED BY <1>1, <2>3, <2>4, <2>5, <2>6, <2>7, <2>8, KeptAside
<1> QED BY <1>2, <1>3

(* The UPDATE of the quota row: what the request held becomes a success.    *)
LEMMA WriteRowKeeps ==
    ASSUME Codes!LimitsAssumption, RedeemInv, NEW w \in Workers, Codes!WriteRow(w)
    PROVE  RedeemInv'
<1> DEFINE u == iWork[w].user
<1>1. /\ UNCHANGED <<iCode, iTemplate, iLost>>
      /\ iWork[w].pc = "writing" /\ iWork[w].op # "disable" /\ Codes!Return(w)
      /\ iRows' = [iRows EXCEPT ![u] = iWork[w].bonus + 1]
      /\ IF iWork[w].op = "redeem"
         THEN iRedeemed' = [iRedeemed EXCEPT ![u] = @ + 1] /\ UNCHANGED iClaimed
         ELSE iClaimed' = [iClaimed EXCEPT ![u] = @ + 1] /\ UNCHANGED iRedeemed
  BY DEF Codes!WriteRow, Codes!codeVars, Codes!templateVars
<1>2. u \in Users /\ iWork[w].op \in {"redeem", "claim"} /\ iWork[w].bonus \in Nat
  BY <1>1, Onward DEF RedeemPlaced, Codes!Idle, RedeemRequest
<1> HIDE DEF u
<1>3. /\ iCode' \in Codes!Code /\ iTemplate' \in [issued : Nat, enabled : BOOLEAN] /\ iLost' \in Nat
      /\ iRows' \in [Users -> Nat \cup {None}]
      /\ iCode'.active => iCode.active
  BY <1>1, <1>2 DEF RedeemInv, RedeemTypes
<1>4. /\ iCode.used \in Nat /\ iTemplate.issued \in Nat /\ iLost \in Nat
      /\ Codes!Total(iRedeemed) \in Nat /\ Codes!Total(iClaimed) \in Nat
  BY TotalNat DEF RedeemInv, RedeemTypes, Codes!Code, Codes!LimitsAssumption
<1>5. One(Codes!Idle, "redeem", Using) = 0 /\ One(Codes!Idle, "claim", Owing) = 0
      /\ Codes!Idle \in RedeemRequest /\ RedeemPlaced(Codes!Idle)
      /\ iWork' = [iWork EXCEPT ![w] = Codes!Idle]
  BY <1>1, Onward
<1>6. CASE iWork[w].op = "redeem"
  <2>1. iRedeemed' \in [Users -> Nat] /\ Codes!Total(iRedeemed') = Codes!Total(iRedeemed) + 1
    <3>1. iRedeemed' = [iRedeemed EXCEPT ![u] = @ + 1] /\ iRedeemed \in [Users -> Nat]
          /\ IsFiniteSet(Users)
      BY <1>1, <1>6, SameCounting DEF RedeemInv, RedeemTypes, Codes!LimitsAssumption
    <3> QED BY <1>2, <3>1, TotalChange
  <2>2. iClaimed' = iClaimed /\ iClaimed' \in [Users -> Nat]
    BY <1>1, <1>6, SameCounting DEF RedeemInv, RedeemTypes
  <2>3. One(iWork[w], "redeem", Using) = 1 /\ One(iWork[w], "claim", Owing) = 0
    BY <1>1, <1>6 DEF One, Using
  <2>4. UsesLeft(iCode, iRedeemed, iWork[w]) <= UsesLeft(iCode', iRedeemed', Codes!Idle)
    BY <1>1, <1>4, <1>5, <2>1, <2>3 DEF UsesLeft
  <2>5. SlotsOwed(iTemplate, iClaimed, iLost, iWork[w]) = SlotsOwed(iTemplate', iClaimed', iLost',
        Codes!Idle)
    BY <1>1, <1>5, <2>2, <2>3 DEF SlotsOwed
  <2> QED BY <1>3, <1>5, <2>1, <2>2, <2>4, <2>5, Kept
<1>7. CASE iWork[w].op = "claim"
  <2>1. iClaimed' \in [Users -> Nat] /\ Codes!Total(iClaimed') = Codes!Total(iClaimed) + 1
    <3>1. iClaimed' = [iClaimed EXCEPT ![u] = @ + 1] /\ iClaimed \in [Users -> Nat]
          /\ IsFiniteSet(Users)
      BY <1>1, <1>7, SameCounting DEF RedeemInv, RedeemTypes, Codes!LimitsAssumption
    <3> QED BY <1>2, <3>1, TotalChange
  <2>2. iRedeemed' = iRedeemed /\ iRedeemed' \in [Users -> Nat]
    BY <1>1, <1>7, SameCounting DEF RedeemInv, RedeemTypes
  <2>3. One(iWork[w], "redeem", Using) = 0 /\ One(iWork[w], "claim", Owing) = 1
    BY <1>1, <1>7 DEF One, Owing
  <2>4. UsesLeft(iCode, iRedeemed, iWork[w]) <= UsesLeft(iCode', iRedeemed', Codes!Idle)
    BY <1>1, <1>4, <1>5, <2>2, <2>3 DEF UsesLeft
  <2>5. SlotsOwed(iTemplate, iClaimed, iLost, iWork[w]) = SlotsOwed(iTemplate', iClaimed', iLost',
        Codes!Idle)
    BY <1>1, <1>4, <1>5, <2>1, <2>3 DEF SlotsOwed
  <2> QED BY <1>3, <1>5, <2>1, <2>2, <2>4, <2>5, Kept
<1> QED BY <1>2, <1>6, <1>7

(* The slot is given back, or the giving back fails and the slot is lost.   *)
(* It is never given back twice: the request that holds it is counted, so a *)
(* slot is there.                                                           *)
LEMMA RollbackKeeps ==
    ASSUME Codes!LimitsAssumption, RedeemInv, NEW w \in Workers, Codes!Rollback(w)
    PROVE  RedeemInv'
<1>1. /\ UNCHANGED <<iCode, iRows, iRedeemed, iClaimed>>
      /\ iWork[w].pc = "rollback" /\ Codes!Return(w)
      /\ \/ /\ iTemplate' = [iTemplate EXCEPT !.issued = IF @ > 0 THEN @ - 1 ELSE @]
            /\ UNCHANGED iLost
         \/ iLost' = iLost + 1 /\ UNCHANGED iTemplate
  BY DEF Codes!Rollback, Codes!codeVars
<1>2. iWork[w].op = "claim"
  BY <1>1, Onward DEF RedeemPlaced, Codes!Idle, Using
<1>3. /\ iCode.used \in Nat /\ iTemplate.issued \in Nat /\ iLost \in Nat
      /\ Codes!Total(iRedeemed) \in Nat /\ Codes!Total(iClaimed) \in Nat
  BY TotalNat DEF RedeemInv, RedeemTypes, Codes!Code, Codes!LimitsAssumption
<1>4. One(Codes!Idle, "redeem", Using) = 0 /\ One(Codes!Idle, "claim", Owing) = 0
      /\ Codes!Idle \in RedeemRequest /\ RedeemPlaced(Codes!Idle)
      /\ iWork' = [iWork EXCEPT ![w] = Codes!Idle]
  BY <1>1, Onward
<1>5. One(iWork[w], "redeem", Using) = 0 /\ One(iWork[w], "claim", Owing) = 1
  BY <1>1, <1>2 DEF One, Owing
<1>6. iTemplate.issued > 0
  <2>1. /\ Codes!Count("claim", Owing) \in Nat /\ Codes!Count("claim", Owing)' \in Nat
        /\ Codes!Count("claim", Owing)' = Codes!Count("claim", Owing) - One(iWork[w], "claim",
           Owing)
                                     + One(Codes!Idle, "claim", Owing)
    <3>1. RedeemTypes
      BY DEF RedeemInv
    <3>2. \A op, pcs : /\ Codes!Count(op, pcs) \in Nat /\ Codes!Count(op, pcs)' \in Nat
                       /\ Codes!Count(op, pcs)' = Codes!Count(op, pcs) - One(iWork[w], op,
                          pcs) + One(Codes!Idle, op, pcs)
      BY <1>4, <3>1, Moves
    <3> QED BY <3>2
  <2>2. Codes!Count("claim", Owing) > 0
    BY <1>4, <1>5, <2>1
  <2> QED BY <1>3, <2>1, <2>2 DEF RedeemInv, Codes!EverySlotOwned, Owing
<1>7. /\ iTemplate' \in [issued : Nat, enabled : BOOLEAN] /\ iLost' \in Nat
      /\ iTemplate'.issued - iLost' = iTemplate.issued - iLost - 1
      /\ iTemplate'.issued \in Nat
  BY <1>1, <1>3, <1>6 DEF RedeemInv, RedeemTypes
<1>8. /\ iCode' \in Codes!Code /\ iRows' \in [Users -> Nat \cup {None}]
      /\ iCode'.active => iCode.active
      /\ iRedeemed' \in [Users -> Nat] /\ iClaimed' \in [Users -> Nat]
  BY <1>1 DEF RedeemInv, RedeemTypes
<1>9. UsesLeft(iCode, iRedeemed, iWork[w]) <= UsesLeft(iCode', iRedeemed', Codes!Idle)
  BY <1>1, <1>3, <1>4, <1>5, <1>8 DEF UsesLeft
<1>10. SlotsOwed(iTemplate, iClaimed, iLost, iWork[w]) = SlotsOwed(iTemplate', iClaimed', iLost',
       Codes!Idle)
  <2> DEFINE a == Codes!Total(iClaimed)  x == iTemplate.issued  y == iTemplate'.issued
  k == iLost  l == iLost'
  <2>1. /\ SlotsOwed(iTemplate, iClaimed, iLost, iWork[w]) = x - a - k - 1
        /\ SlotsOwed(iTemplate', iClaimed', iLost', Codes!Idle) = y - a - l - 0
    BY <1>1, <1>4, <1>5 DEF SlotsOwed
  <2>2. y - l = x - k - 1 /\ a \in Nat /\ x \in Nat /\ y \in Nat /\ k \in Nat /\ l \in Nat
    BY <1>3, <1>7
  <2> HIDE DEF a, x, y, k, l
  <2> QED BY <2>1, <2>2
<1> QED BY <1>4, <1>7, <1>8, <1>9, <1>10, Kept

(* The request is cancelled between two steps.                              *)
LEMMA AbortKeeps ==
    ASSUME Codes!LimitsAssumption, RedeemInv, NEW w \in Workers, Codes!Abort(w)
    PROVE  RedeemInv'
<1>1. /\ UNCHANGED <<iCode, iTemplate, iRedeemed, iClaimed, iLost, iRows>>
      /\ iWork[w].pc \notin {"idle", "rollback"}
  BY DEF Codes!Abort, Codes!codeVars, Codes!templateVars
<1>2. CASE iWork[w].pc \in {"inviting", "granting", "writing"}
  BY <1>1, <1>2, FailKeeps DEF Codes!Abort, Owing
<1>3. CASE iWork[w].pc \notin {"inviting", "granting", "writing"}
  BY <1>1, <1>3, ReturnAside DEF Codes!Abort, Owing
<1> QED BY <1>2, <1>3

(* The disabling writes the whole row it read, uses included; the code is   *)
(* not active afterwards.                                                   *)
LEMMA WriteDisabledKeeps ==
    ASSUME Codes!LimitsAssumption, RedeemInv, NEW w \in Workers, Codes!WriteDisabled(w)
    PROVE  RedeemInv'
<1>1. /\ UNCHANGED <<iTemplate, iRedeemed, iClaimed, iLost, iRows>>
      /\ iWork[w].pc = "writing" /\ iWork[w].op = "disable" /\ Codes!Return(w)
      /\ iCode' = [iWork[w].invite EXCEPT !.active = FALSE, !.expired = iCode.expired]
  BY DEF Codes!WriteDisabled, Codes!At, Codes!templateVars
<1>2. iWork[w].invite \in Codes!Code
  BY <1>1, Onward DEF RedeemPlaced, Codes!Idle
<1>3. iCode' \in Codes!Code /\ ~iCode'.active
  BY <1>1, <1>2 DEF Codes!Code, RedeemInv, RedeemTypes
<1>4. One(Codes!Idle, "redeem", Using) = 0 /\ One(Codes!Idle, "claim", Owing) = 0
      /\ Codes!Idle \in RedeemRequest /\ RedeemPlaced(Codes!Idle)
      /\ iWork' = [iWork EXCEPT ![w] = Codes!Idle]
  BY <1>1, Onward
<1>5. One(iWork[w], "claim", Owing) = 0
  BY <1>1 DEF One
<1>6. SlotsOwed(iTemplate, iClaimed, iLost, iWork[w]) = SlotsOwed(iTemplate', iClaimed', iLost',
      Codes!Idle)
  BY <1>1, <1>4, <1>5 DEF SlotsOwed
<1>7. /\ iTemplate' \in [issued : Nat, enabled : BOOLEAN] /\ iRows' \in [Users -> Nat \cup {None}]
      /\ iRedeemed' \in [Users -> Nat] /\ iClaimed' \in [Users -> Nat] /\ iLost' \in Nat
  BY <1>1 DEF RedeemInv, RedeemTypes
<1> QED BY <1>3, <1>4, <1>6, <1>7, Kept

(* Time and the administrators: the code expires, the template is switched  *)
(* on or off.                                                               *)
LEMMA AsideKeeps ==
    ASSUME Codes!LimitsAssumption, RedeemInv, UNCHANGED <<iWork, iRedeemed, iClaimed, iLost,
           iRows>>,
           iCode' = iCode \/ iCode' = [iCode EXCEPT !.expired = TRUE],
           iTemplate' = iTemplate \/ iTemplate' = [iTemplate EXCEPT !.enabled = ~@]
    PROVE  RedeemInv'
<1>1. iCode' \in Codes!Code /\ iCode'.used = iCode.used /\ iCode'.active = iCode.active
  BY DEF RedeemInv, RedeemTypes, Codes!Code
<1>2. iTemplate' \in [issued : Nat, enabled : BOOLEAN] /\ iTemplate'.issued = iTemplate.issued
  BY DEF RedeemInv, RedeemTypes
<1>3. RedeemTypes'
  BY <1>1, <1>2 DEF RedeemInv, RedeemTypes
<1>4. \A op, pcs : Codes!Count(op, pcs)' = Codes!Count(op, pcs)
  BY DEF Codes!Count
<1>5. Codes!UsesCoverRedemptions'
  BY <1>1, <1>4 DEF RedeemInv, Codes!UsesCoverRedemptions
<1>6. Codes!EverySlotOwned'
  BY <1>2, <1>4 DEF RedeemInv, Codes!EverySlotOwned
<1> QED BY <1>3, <1>5, <1>6 DEF RedeemInv

(* The invariant of the codes holds at the start.                           *)
LEMMA RedeemStart ==
    ASSUME Codes!LimitsAssumption, Codes!Init
    PROVE  RedeemInv
<1>1. RedeemTypes
  <2>1. \A w \in Workers : iWork[w] = Codes!Idle
    BY DEF Codes!Init
  <2>2. Codes!Idle \in RedeemRequest /\ RedeemPlaced(Codes!Idle)
    BY DEF Codes!Idle, RedeemRequest, RedeemPlaced
  <2>3. iWork \in [Workers -> RedeemRequest] /\ \A w \in Workers : RedeemPlaced(iWork[w])
    BY <2>1, <2>2 DEF Codes!Init
  <2> QED BY <2>3 DEF Codes!Init, RedeemTypes, Codes!Code, Codes!LimitsAssumption
<1>2. Codes!Total([u \in Users |-> 0]) = 0
  <2>1. \A u \in Users : [v \in Users |-> 0][u] = 0
    OBVIOUS
  <2> QED BY <2>1, SumPositive, SameCounting
<1>3. ASSUME NEW op \in {"redeem", "claim"}, NEW pcs PROVE Codes!Count(op, pcs) = 0
  <2>1. {w \in Workers : iWork[w].op = op /\ iWork[w].pc \in pcs} = {}
    BY DEF Codes!Init, Codes!Idle, Codes!LimitsAssumption
  <2> QED BY <2>1, FS_EmptySet, SameCounting
<1> QED BY <1>1, <1>2, <1>3 DEF RedeemInv, Codes!UsesCoverRedemptions, Codes!EverySlotOwned,
           Codes!Init

(* Every step of the codes keeps their invariant.                           *)
LEMMA RedeemStep ==
    ASSUME Codes!LimitsAssumption, RedeemInv, [Codes!Next]_(Codes!vars)
    PROVE  RedeemInv'
<1>1. ASSUME NEW w \in Workers, Codes!Step(w) PROVE RedeemInv'
  BY <1>1, BeginKeeps, CheckKeeps, TakeUseKeeps, RecordUseKeeps, TakeSlotKeeps, InviteKeeps,
     ReadRowKeeps, WriteRowKeeps, RollbackKeeps, AbortKeeps, WriteDisabledKeeps DEF Codes!Step
<1>2. CASE Codes!Expire
  BY <1>2, AsideKeeps DEF Codes!Expire, Codes!templateVars
<1>3. CASE Codes!ToggleTemplate
  BY <1>3, AsideKeeps DEF Codes!ToggleTemplate, Codes!codeVars
<1>4. CASE UNCHANGED Codes!vars
  BY <1>4, AsideKeeps DEF Codes!vars
<1> QED BY <1>1, <1>2, <1>3, <1>4 DEF Codes!Next

(* No step of a request makes a disabled code active: the only whole row    *)
(* that is written back is the one the disabling writes.                    *)
LEMMA StepKeepsDisabled ==
    ASSUME Codes!LimitsAssumption, RedeemInv, NEW w \in Workers, Codes!Step(w)
    PROVE  iCode'.active => iCode.active
<1>1. CASE Codes!TakeUse(w)
  BY <1>1 DEF Codes!TakeUse, RedeemInv, RedeemTypes, Codes!Code
<1>2. CASE Codes!WriteDisabled(w)
  <2>1. iWork[w].invite \in Codes!Code
    BY <1>2, Onward DEF Codes!WriteDisabled, Codes!At, RedeemPlaced, Codes!Idle
  <2> QED BY <1>2, <2>1 DEF Codes!WriteDisabled, Codes!Code
<1>3. CASE ~Codes!TakeUse(w) /\ ~Codes!WriteDisabled(w)
  <2>1. UNCHANGED iCode
    BY <1>3
       DEF Codes!Step, Codes!BeginRedeem, Codes!BeginClaim, Codes!BeginDisable, Codes!CheckUsed,
           Codes!RecordUse, Codes!CheckClaims, Codes!TakeSlot, Codes!Invite, Codes!ReadRow,
           Codes!WriteRow, Codes!Rollback, Codes!Abort, Codes!codeVars
  <2> QED BY <2>1
<1> QED BY <1>1, <1>2, <1>3

(* No step of the codes makes a disabled code active.                       *)
LEMMA DisabledRemains ==
    ASSUME Codes!LimitsAssumption, RedeemInv, [Codes!Next]_(Codes!vars)
    PROVE  iCode'.active => iCode.active
<1>1. (\E w \in Workers : Codes!Step(w)) \/ Codes!Expire \/ Codes!ToggleTemplate
      \/ UNCHANGED Codes!vars
  BY DEF Codes!Next
<1>2. CASE \E w \in Workers : Codes!Step(w)
  BY <1>2, StepKeepsDisabled
<1>3. CASE Codes!Expire
  BY <1>3 DEF Codes!Expire, RedeemInv, RedeemTypes, Codes!Code
<1>4. CASE Codes!ToggleTemplate \/ UNCHANGED Codes!vars
  BY <1>4 DEF Codes!ToggleTemplate, Codes!vars, Codes!codeVars
<1> QED BY <1>1, <1>2, <1>3, <1>4

-----------------------------------------------------------------------------
(* The calls.                                                               *)
CallRec ==
    [operation : Calls!Operations, steps : Seq(Calls!StepNames),
     upstream : 1..BaseURLs, attempt : 0..Retries,
     outcomes : Seq(Calls!Responses \cup Calls!Unheard),
     reported : BOOLEAN, record : {"none", "usage", "failure", "empty"}, told : BOOLEAN,
     deferred : BOOLEAN, body : {"none", "open", "closed"}, broken : BOOLEAN,
     lines : 0..MaxLines, out : Seq({"piece", "error", "closed"}), result : Calls!CallResults]

(* The i-th of the steps a call has before it, if it has so many.           *)
StepOf(r, i) == IF i \in 1..Len(r) THEN r[i] ELSE "over"
AtStep(c) == StepOf(c.steps, 1)
NextStep(c) == StepOf(c.steps, 2)

(* What the lists of steps have in common: which step comes after which, in *)
(* which operation; s is followed by n, and n by m.                         *)
Goes(o, s, n, m) ==
    /\ n = "over" <=> s \in {"return", "close"}
    /\ s = "refuse" => n \in {"report", "credentials", "token", "limit"}
    /\ s = "limit" => n = "report"
    /\ s = "report" => n \in {"prepare", "credentials"}
    /\ s = "credentials" => n \in {"report", "prepare"}
    /\ s = "prepare" => n \in {"send", "tokenize", "token", "relay"}
    /\ s = "token" => n \in {"send", "report", "prepare"}
    /\ s = "tokenize" => n = "return"
    /\ s = "send" => /\ n \in {"defer", "check_decoded", "check_read", "check", "read_close",
                               "check_base_read"}
                     /\ n = "check" => m = "spawn"
    /\ s = "relay" => n \in {"usage", "spawn", "total"}
    /\ s = "check_decoded" => n = "decode"
    /\ s = "decode" => n \in {"defer", "spawn"}
    /\ s = "defer" => n \in {"read", "check"}
    /\ s = "check" => n \in {"read", "spawn", "usage", "return"}
    /\ s = "check_read" => n = "spawn"
    /\ s = "read" => n \in {"usage", "completed", "check", "return"}
    /\ s = "read_close" => n \in {"check", "check_base", "check_models"}
    /\ s = "check_base" => n \in {"usage", "return"}
    /\ s = "check_base_read" => n \in {"lines", "spawn"}
    /\ s = "check_models" => n = "return"
    /\ s = "completed" => n = "usage"
    /\ s = "total" => n = "return"
    /\ s = "usage" => n \in {"ensure", "return"}
    /\ s = "spawn" => n \in {"lines", "alt"}
    /\ s = "alt" => n = "lines"
    /\ s = "lines" => /\ n \in {"tail", "broken"}
                      /\ n = "tail" => m = "broken"
    /\ s = "whole" => n = "tail"
    /\ s = "tail" => n \in {"broken", "close"}
    /\ s = "broken" => /\ n \in {"ensure", "ensure_whole", "close"}
                       /\ n = "ensure" => m = "close"
    /\ s = "ensure" => n \in {"return", "close"}
    /\ s = "ensure_whole" => n \in {"close_body", "close"}
    /\ s = "close_body" => n = "collect"
    /\ s = "collect" => n = "usage"

(* Which operation has which steps.                                         *)
Fits(o, s, n) ==
    /\ s \in {"close_body", "collect"} => o = "antigravity_claude"
    /\ s \in {"spawn", "close"} => o # "antigravity_claude"
    /\ s \in {"relay", "check", "read", "check_base", "completed"} /\ n = "usage"
       => o # "antigravity_claude"
    /\ s \in {"alt", "whole"} => o = "cli_stream"
    /\ s = "check_models" => o = "antigravity_models"
    /\ s = "check_base" => o \in {"antigravity", "antigravity_count"}
    /\ s = "check_base_read" => o \in {"antigravity_claude", "antigravity_stream"}
    /\ o \in Calls!OverBaseURLs
       => s \notin {"tokenize", "relay", "defer", "check", "check_read", "check_decoded",
                    "decode", "read", "completed", "total", "alt", "whole"}
    /\ o \in Calls!Ensuring /\ n \in {"return", "close"} => s \in {"ensure", "ensure_whole"}

(* The steps of r in the order of operation o.                              *)
InOrder(o, r) ==
    \A i \in 1..Len(r) :
        /\ Goes(o, StepOf(r, i), StepOf(r, i + 1), StepOf(r, i + 2))
        /\ Fits(o, StepOf(r, i), StepOf(r, i + 1))

(* Nothing is known of a call at these steps, and at "usage", but the usage *)
(* that an upstream has told.                                               *)
EarlySteps ==
    Calls!StepNames
    \ {"usage", "ensure", "ensure_whole", "close_body", "collect", "close", "return"}
Early(c) ==
    \/ AtStep(c) \in EarlySteps
    \/ AtStep(c) = "usage" /\ c.operation # "antigravity_claude"

(* A body that nothing has deferred to close may be open here: the steps    *)
(* lead to one that closes it.                                              *)
OpenSteps ==
    {"defer", "check_decoded", "decode", "check_read", "check", "read_close", "check_base_read",
     "spawn", "alt", "lines", "whole", "tail", "broken", "ensure", "ensure_whole",
     "close_body", "close"}

(* What looks at an answer, and what comes before one.                      *)
Heeding ==
    {"defer", "check_decoded", "decode", "check_read", "check", "read", "read_close",
     "check_base", "check_base_read", "check_models"}
BeforeAnswer ==
    {"refuse", "limit", "report", "prepare", "credentials", "token", "tokenize", "send", "relay"}

(* The usage record: nothing counts before the call has failed or its usage *)
(* is known, and then the first thing does.                                 *)
RecordFine(c) ==
    /\ c.told <=> c.record = "usage"
    /\ Early(c) => c.record \in {"none", "usage"}
    /\ c.broken => \/ AtStep(c) = "broken"
                   \/ AtStep(c) = "tail" /\ NextStep(c) = "broken"
                   \/ ~ Early(c) /\ c.record \in {"failure", "usage"}
    /\ c.record = "failure" => c.broken \/ (AtStep(c) = "over" /\ c.result \in Calls!Failures)
    /\ AtStep(c) # "over" => c.result \in {"none", "stream"}
    /\ AtStep(c) = "over" /\ c.reported /\ c.result \in Calls!Failures
       => c.record \in {"failure", "usage"}
    /\ c.operation \in Calls!Ensuring /\ c.reported /\ AtStep(c) \in {"return", "close", "over"}
       => c.record # "none"

(* The body of a response.                                                  *)
BodyFine(c) ==
    /\ c.body = "open" => AtStep(c) # "over"
    /\ c.body = "open" /\ ~ c.deferred
       => /\ AtStep(c) \in OpenSteps
          /\ AtStep(c) = "check" => NextStep(c) = "spawn"
          /\ AtStep(c) = "ensure" => NextStep(c) = "close"

(* The channel: "closed" is the last thing sent, an error the one before.   *)
Streams(c) ==
    /\ c.out # <<>> /\ c.out[Len(c.out)] = "closed"
    /\ \A i \in 1..Len(c.out) : c.out[i] = "closed" => i = Len(c.out)
    /\ \A i \in 1..Len(c.out) : c.out[i] = "error" => i = Len(c.out) - 1
    /\ c.broken <=> \E i \in 1..Len(c.out) : c.out[i] = "error"

OutFine(c) ==
    /\ Early(c) => \A i \in 1..Len(c.out) : c.out[i] # "error"
    /\ c.operation # "antigravity_claude" /\ AtStep(c) # "over"
       => /\ \A i \in 1..Len(c.out) :
                c.out[i] # "closed" /\ (c.out[i] = "error" => i = Len(c.out))
          /\ ~ Early(c) => (c.broken <=> \E i \in 1..Len(c.out) : c.out[i] = "error")
    /\ c.result = "stream" /\ AtStep(c) = "over" => Streams(c)

(* What is looked at was heard.                                             *)
HeardFine(c) ==
    AtStep(c) \in Heeding => c.outcomes # <<>> /\ c.outcomes[Len(c.outcomes)] \in Calls!Responses

(* The upstreams: those before this one have failed for a reason another    *)
(* may better.                                                              *)
Tried == Calls!OverBaseURLs \ {"antigravity_models"}
Reasons(o) ==
    {"quota", "busy", "unreachable"}
    \cup IF o \in {"antigravity_claude", "antigravity_stream"} THEN {"error"} ELSE {}

UpFine(c) ==
    c.operation \in Tried =>
        /\ \A i \in 1..(Len(c.outcomes) - 1) : c.outcomes[i] \in Reasons(c.operation)
        /\ Len(c.outcomes) <= c.attempt * BaseURLs + c.upstream
        /\ AtStep(c) \in BeforeAnswer =>
              /\ \A i \in 1..Len(c.outcomes) : c.outcomes[i] \in Reasons(c.operation)
              /\ Len(c.outcomes) < c.attempt * BaseURLs + c.upstream
        /\ AtStep(c) \notin BeforeAnswer \cup Heeding \cup {"over"} =>
              c.outcomes # <<>> /\ c.outcomes[Len(c.outcomes)] = "ok"
        /\ AtStep(c) = "over" /\ c.outcomes # <<>> =>
              /\ c.result \in {"quota", "unreachable"} => c.upstream = BaseURLs
              /\ c.result = "busy" /\ c.operation # "antigravity_count"
                 => c.upstream = BaseURLs /\ c.attempt = Retries
              /\ c.result \in {"answer", "stream"} => c.outcomes[Len(c.outcomes)] = "ok"

(* The invariant of the calls.                                              *)
CallFine(c) ==
    /\ c \in CallRec /\ InOrder(c.operation, c.steps)
    /\ RecordFine(c) /\ BodyFine(c) /\ OutFine(c) /\ HeardFine(c) /\ UpFine(c)

(* What an operation starts with.                                           *)
Whole(o, r) ==
    /\ r \in Seq(Calls!StepNames) /\ InOrder(o, r) /\ r # <<>>
    /\ r[1] \in {"refuse", "report", "prepare", "credentials", "token", "tokenize"}

(* The list of every operation is in order.                                 *)
LEMMA OperationsInOrder ==
    \A o \in Calls!Operations : Whole(o, Calls!Steps[o])
<1>1. Whole("claude", Calls!ClaudeExecute)
  BY DEF Calls!ClaudeExecute, Whole, Calls!StepNames, StepOf, InOrder, Goes, Fits,
     Calls!OverBaseURLs, Calls!Ensuring
<1>2. Whole("claude_stream", Calls!ClaudeExecuteStream)
  BY DEF Calls!ClaudeExecuteStream, Whole, Calls!StepNames, StepOf, InOrder, Goes, Fits,
     Calls!OverBaseURLs, Calls!Ensuring
<1>3. Whole("claude_count", Calls!ClaudeCountTokens)
  BY DEF Calls!ClaudeCountTokens, Whole, Calls!StepNames, StepOf, InOrder, Goes, Fits,
     Calls!OverBaseURLs, Calls!Ensuring
<1>4. Whole("codex", Calls!CodexExecute)
  BY DEF Calls!CodexExecute, Whole, Calls!StepNames, StepOf, InOrder, Goes, Fits,
     Calls!OverBaseURLs, Calls!Ensuring
<1>5. Whole("codex_compact", Calls!CodexExecuteCompact)
  BY DEF Calls!CodexExecuteCompact, Whole, Calls!StepNames, StepOf, InOrder, Goes, Fits,
     Calls!OverBaseURLs, Calls!Ensuring
<1>6. Whole("codex_stream", Calls!CodexExecuteStream)
  BY DEF Calls!CodexExecuteStream, Whole, Calls!StepNames, StepOf, InOrder, Goes, Fits,
     Calls!OverBaseURLs, Calls!Ensuring
<1>7. Whole("codex_count", Calls!CodexCountTokens)
  BY DEF Calls!CodexCountTokens, Whole, Calls!StepNames, StepOf, InOrder, Goes, Fits,
     Calls!OverBaseURLs, Calls!Ensuring
<1>8. Whole("gemini", Calls!GeminiExecute)
  BY DEF Calls!GeminiExecute, Whole, Calls!StepNames, StepOf, InOrder, Goes, Fits,
     Calls!OverBaseURLs, Calls!Ensuring
<1>9. Whole("gemini_stream", Calls!GeminiExecuteStream)
  BY DEF Calls!GeminiExecuteStream, Whole, Calls!StepNames, StepOf, InOrder, Goes, Fits,
     Calls!OverBaseURLs, Calls!Ensuring
<1>10. Whole("gemini_count", Calls!GeminiCountTokens)
  BY DEF Calls!GeminiCountTokens, Whole, Calls!StepNames, StepOf, InOrder, Goes, Fits,
     Calls!OverBaseURLs, Calls!Ensuring
<1>11. Whole("vertex_account", Calls!VertexExecuteAccount)
  BY DEF Calls!VertexExecuteAccount, Calls!VertexDispatch, Whole, Calls!StepNames, StepOf,
     InOrder, Goes, Fits, Calls!OverBaseURLs, Calls!Ensuring
<1>12. Whole("vertex_key", Calls!VertexExecuteKey)
  BY DEF Calls!VertexExecuteKey, Whole, Calls!StepNames, StepOf, InOrder, Goes, Fits,
     Calls!OverBaseURLs, Calls!Ensuring
<1>13. Whole("vertex_account_stream", Calls!VertexStreamAccount)
  BY DEF Calls!VertexStreamAccount, Calls!VertexDispatch, Whole, Calls!StepNames, StepOf, InOrder,
     Goes, Fits, Calls!OverBaseURLs, Calls!Ensuring
<1>14. Whole("vertex_key_stream", Calls!VertexStreamKey)
  BY DEF Calls!VertexStreamKey, Whole, Calls!StepNames, StepOf, InOrder, Goes, Fits,
     Calls!OverBaseURLs, Calls!Ensuring
<1>15. Whole("vertex_account_count", Calls!VertexCountAccount)
  BY DEF Calls!VertexCountAccount, Whole, Calls!StepNames, StepOf, InOrder, Goes, Fits,
     Calls!OverBaseURLs, Calls!Ensuring
<1>16. Whole("vertex_key_count", Calls!VertexCountKey)
  BY DEF Calls!VertexCountKey, Whole, Calls!StepNames, StepOf, InOrder, Goes, Fits,
     Calls!OverBaseURLs, Calls!Ensuring
<1>17. Whole("cli", Calls!GeminiCLIExecute)
  BY DEF Calls!GeminiCLIExecute, Whole, Calls!StepNames, StepOf, InOrder, Goes, Fits,
     Calls!OverBaseURLs, Calls!Ensuring
<1>18. Whole("cli_stream", Calls!GeminiCLIExecuteStream)
  BY DEF Calls!GeminiCLIExecuteStream, Whole, Calls!StepNames, StepOf, InOrder, Goes, Fits,
     Calls!OverBaseURLs, Calls!Ensuring
<1>19. Whole("cli_count", Calls!GeminiCLICountTokens)
  BY DEF Calls!GeminiCLICountTokens, Whole, Calls!StepNames, StepOf, InOrder, Goes, Fits,
     Calls!OverBaseURLs, Calls!Ensuring
<1>20. Whole("antigravity", Calls!AntigravityExecute)
  BY DEF Calls!AntigravityExecute, Whole, Calls!StepNames, StepOf, InOrder, Goes, Fits,
     Calls!OverBaseURLs, Calls!Ensuring
<1>21. Whole("antigravity_claude", Calls!AntigravityExecuteClaude)
  BY DEF Calls!AntigravityExecuteClaude, Whole, Calls!StepNames, StepOf, InOrder, Goes, Fits,
     Calls!OverBaseURLs, Calls!Ensuring
<1>22. Whole("antigravity_stream", Calls!AntigravityExecuteStream)
  BY DEF Calls!AntigravityExecuteStream, Whole, Calls!StepNames, StepOf, InOrder, Goes, Fits,
     Calls!OverBaseURLs, Calls!Ensuring
<1>23. Whole("antigravity_count", Calls!AntigravityCountTokens)
  BY DEF Calls!AntigravityCountTokens, Whole, Calls!StepNames, StepOf, InOrder, Goes, Fits,
     Calls!OverBaseURLs, Calls!Ensuring
<1>24. Whole("antigravity_models", Calls!AntigravityFetchModels)
  BY DEF Calls!AntigravityFetchModels, Whole, Calls!StepNames, StepOf, InOrder, Goes, Fits,
     Calls!OverBaseURLs, Calls!Ensuring
<1>25. Whole("compat", Calls!OpenAICompatExecute)
  BY DEF Calls!OpenAICompatExecute, Whole, Calls!StepNames, StepOf, InOrder, Goes, Fits,
     Calls!OverBaseURLs, Calls!Ensuring
<1>26. Whole("compat_stream", Calls!OpenAICompatExecuteStream)
  BY DEF Calls!OpenAICompatExecuteStream, Whole, Calls!StepNames, StepOf, InOrder, Goes, Fits,
     Calls!OverBaseURLs, Calls!Ensuring
<1>27. Whole("compat_count", Calls!OpenAICompatCountTokens)
  BY DEF Calls!OpenAICompatCountTokens, Whole, Calls!StepNames, StepOf, InOrder, Goes, Fits,
     Calls!OverBaseURLs, Calls!Ensuring
<1>28. Whole("kimi", Calls!KimiExecute)
  BY DEF Calls!KimiExecute, Whole, Calls!StepNames, StepOf, InOrder, Goes, Fits,
     Calls!OverBaseURLs, Calls!Ensuring
<1>29. Whole("kimi_stream", Calls!KimiExecuteStream)
  BY DEF Calls!KimiExecuteStream, Whole, Calls!StepNames, StepOf, InOrder, Goes, Fits,
     Calls!OverBaseURLs, Calls!Ensuring
<1>30. Whole("qwen", Calls!QwenExecute)
  BY DEF Calls!QwenExecute, Whole, Calls!StepNames, StepOf, InOrder, Goes, Fits,
     Calls!OverBaseURLs, Calls!Ensuring
<1>31. Whole("qwen_stream", Calls!QwenExecuteStream)
  BY DEF Calls!QwenExecuteStream, Whole, Calls!StepNames, StepOf, InOrder, Goes, Fits,
     Calls!OverBaseURLs, Calls!Ensuring
<1>32. Whole("qwen_count", Calls!QwenCountTokens)
  BY DEF Calls!QwenCountTokens, Whole, Calls!StepNames, StepOf, InOrder, Goes, Fits,
     Calls!OverBaseURLs, Calls!Ensuring
<1>33. Whole("iflow", Calls!IFlowExecute)
  BY DEF Calls!IFlowExecute, Whole, Calls!StepNames, StepOf, InOrder, Goes, Fits,
     Calls!OverBaseURLs, Calls!Ensuring
<1>34. Whole("iflow_stream", Calls!IFlowExecuteStream)
  BY DEF Calls!IFlowExecuteStream, Whole, Calls!StepNames, StepOf, InOrder, Goes, Fits,
     Calls!OverBaseURLs, Calls!Ensuring
<1>35. Whole("iflow_count", Calls!IFlowCountTokens)
  BY DEF Calls!IFlowCountTokens, Whole, Calls!StepNames, StepOf, InOrder, Goes, Fits,
     Calls!OverBaseURLs, Calls!Ensuring
<1>36. Whole("aistudio", Calls!AIStudioExecute)
  BY DEF Calls!AIStudioExecute, Whole, Calls!StepNames, StepOf, InOrder, Goes, Fits,
     Calls!OverBaseURLs, Calls!Ensuring
<1>37. Whole("aistudio_stream", Calls!AIStudioExecuteStream)
  BY DEF Calls!AIStudioExecuteStream, Whole, Calls!StepNames, StepOf, InOrder, Goes, Fits,
     Calls!OverBaseURLs, Calls!Ensuring
<1>38. Whole("aistudio_count", Calls!AIStudioCountTokens)
  BY DEF Calls!AIStudioCountTokens, Whole, Calls!StepNames, StepOf, InOrder, Goes, Fits,
     Calls!OverBaseURLs, Calls!Ensuring
<1> QED
  BY <1>1, <1>2, <1>3, <1>4, <1>5, <1>6, <1>7, <1>8, <1>9, <1>10, <1>11, <1>12, <1>13, <1>14,
     <1>15,
     <1>16, <1>17, <1>18, <1>19, <1>20, <1>21, <1>22, <1>23, <1>24, <1>25, <1>26, <1>27, <1>28,
         <1>29, <1>30,
     <1>31, <1>32, <1>33, <1>34, <1>35, <1>36, <1>37, <1>38
  DEF Calls!Operations, Calls!Steps

(* A sequence of steps, and what is left of it after some of them.          *)
LEMMA RestInOrder ==
    ASSUME NEW o, NEW r \in Seq(Calls!StepNames), InOrder(o, r), NEW k \in 1..Len(r)
    PROVE  /\ SubSeq(r, k, Len(r)) \in Seq(Calls!StepNames)
           /\ InOrder(o, SubSeq(r, k, Len(r)))
           /\ StepOf(SubSeq(r, k, Len(r)), 1) = r[k]
<1> DEFINE s == SubSeq(r, k, Len(r))
<1>1. s \in Seq(Calls!StepNames) /\ Len(s) = Len(r) - k + 1
          /\ \A i \in 1..Len(s) : s[i] = r[k + i - 1]
  OBVIOUS
<1> HIDE DEF s
<1>2. \A i \in 1..(Len(s) + 2) : StepOf(s, i) = StepOf(r, k + i - 1)
  BY <1>1 DEF StepOf
<1>3. ASSUME NEW i \in 1..Len(s)
      PROVE  /\ Goes(o, StepOf(s, i), StepOf(s, i + 1), StepOf(s, i + 2))
             /\ Fits(o, StepOf(s, i), StepOf(s, i + 1))
  <2>1. k + i - 1 \in 1..Len(r) /\ k + i - 1 + 1 = k + (i + 1) - 1
        /\ k + i - 1 + 2 = k + (i + 2) - 1 /\ Len(s) \in Nat
    <3>1. Len(r) \in Nat /\ k \in Nat
      OBVIOUS
    <3> QED BY <1>1, <3>1
  <2>2. /\ StepOf(s, i) = StepOf(r, k + i - 1) /\ StepOf(s, i + 1) = StepOf(r, k + i - 1 + 1)
        /\ StepOf(s, i + 2) = StepOf(r, k + i - 1 + 2)
    BY <1>1, <1>2, <2>1
  <2> QED BY <2>1, <2>2 DEF InOrder
<1>4. InOrder(o, s)
  BY <1>3 DEF InOrder
<1>5. StepOf(s, 1) = r[k]
  BY <1>1 DEF StepOf
<1> QED BY <1>1, <1>4, <1>5 DEF s

(* A call without steps.                                                    *)
LEMMA NothingInOrder ==
    ASSUME NEW o, NEW r, r = <<>> PROVE InOrder(o, r)
<1>1. Len(r) = 0
  OBVIOUS
<1>2. \A i \in 1..Len(r) : FALSE
  BY <1>1
<1> QED BY <1>2 DEF InOrder

(* The next step is the one that comes after.                               *)
LEMMA TailInOrder ==
    ASSUME NEW o, NEW r \in Seq(Calls!StepNames), InOrder(o, r), r # <<>>
    PROVE  /\ Tail(r) \in Seq(Calls!StepNames) /\ InOrder(o, Tail(r))
           /\ StepOf(Tail(r), 1) = StepOf(r, 2) /\ StepOf(Tail(r), 2) = StepOf(r, 3)
           /\ StepOf(r, 1) = Head(r) /\ StepOf(r, 1) \in Calls!StepNames
           /\ Goes(o, StepOf(r, 1), StepOf(r, 2), StepOf(r, 3))
           /\ Fits(o, StepOf(r, 1), StepOf(r, 2))
<1>1. Len(r) \in Nat /\ Len(r) >= 1 /\ Head(r) = r[1]
  OBVIOUS
<1>2. Goes(o, StepOf(r, 1), StepOf(r, 2), StepOf(r, 3)) /\ Fits(o, StepOf(r, 1), StepOf(r, 2))
  BY <1>1 DEF InOrder
<1>3. StepOf(Tail(r), 1) = StepOf(r, 2) /\ StepOf(Tail(r), 2) = StepOf(r, 3)
  BY <1>1 DEF StepOf
<1>4. StepOf(r, 1) = Head(r) /\ StepOf(r, 1) \in Calls!StepNames
  BY <1>1 DEF StepOf
<1>5. Tail(r) \in Seq(Calls!StepNames)
      /\ (Tail(r) = <<>> \/ (Len(r) > 1 /\ Tail(r) = SubSeq(r, 2, Len(r))))
  BY <1>1
<1>6. Tail(r) = <<>> => InOrder(o, Tail(r))
  BY NothingInOrder
<1>7. Len(r) > 1 => InOrder(o, SubSeq(r, 2, Len(r)))
  <2>1. Len(r) > 1 => 2 \in 1..Len(r)
    BY <1>1
  <2> QED BY <2>1, RestInOrder
<1> QED BY <1>2, <1>3, <1>4, <1>5, <1>6, <1>7

(* The steps before a call, and the first of them.                          *)
LEMMA HereIs ==
    ASSUME NEW c \in CallRec
    PROVE  /\ c.steps \in Seq(Calls!StepNames) /\ c.operation \in Calls!Operations
           /\ c.steps = <<>> <=> AtStep(c) = "over"
           /\ c.steps # <<>> => AtStep(c) = Head(c.steps)
<1>1. c.steps \in Seq(Calls!StepNames) /\ c.operation \in Calls!Operations
  BY DEF CallRec
<1>2. "over" \notin Calls!StepNames
  BY DEF Calls!StepNames
<1>3. ASSUME c.steps = <<>> PROVE AtStep(c) = "over"
  <2>1. Len(c.steps) = 0 /\ 1 \notin 1..Len(c.steps)
    BY <1>3
  <2> QED BY <2>1 DEF AtStep, StepOf
<1>4. ASSUME c.steps # <<>> PROVE AtStep(c) = Head(c.steps) /\ AtStep(c) # "over"
  <2>1. Len(c.steps) \in Nat /\ Len(c.steps) >= 1 /\ Head(c.steps) = c.steps[1]
        /\ c.steps[1] \in Calls!StepNames
    BY <1>1, <1>4
  <2> QED BY <1>2, <1>4, <2>1 DEF AtStep, StepOf
<1> QED BY <1>1, <1>3, <1>4

(* d is what becomes of c when its first step is done.                      *)
StepTaken(c, d) ==
    /\ c \in CallRec /\ d \in CallRec /\ InOrder(c.operation, c.steps) /\ AtStep(c) # "over"
    /\ d.operation = c.operation /\ d.steps = Tail(c.steps)

(* What taking a step leaves and what it moves on to.                       *)
LEMMA OnwardFacts ==
    ASSUME NEW c, NEW d, StepTaken(c, d)
    PROVE  /\ AtStep(d) = NextStep(c) /\ InOrder(d.operation, d.steps)
           /\ AtStep(c) \in Calls!StepNames
           /\ Goes(c.operation, AtStep(c), AtStep(d), NextStep(d))
           /\ Fits(c.operation, AtStep(c), AtStep(d))
           /\ AtStep(d) # "over" => Fits(c.operation, AtStep(d), NextStep(d))
                  /\ AtStep(d) \in Calls!StepNames
<1>1. c.steps \in Seq(Calls!StepNames) /\ c.steps # <<>> /\ d.steps = Tail(c.steps)
      /\ d.operation = c.operation /\ InOrder(c.operation, c.steps)
  BY HereIs DEF StepTaken
<1>2. /\ d.steps \in Seq(Calls!StepNames) /\ InOrder(c.operation, d.steps)
      /\ StepOf(d.steps, 1) = StepOf(c.steps, 2) /\ StepOf(d.steps, 2) = StepOf(c.steps, 3)
      /\ StepOf(c.steps, 1) \in Calls!StepNames
      /\ Goes(c.operation, StepOf(c.steps, 1), StepOf(c.steps, 2), StepOf(c.steps, 3))
      /\ Fits(c.operation, StepOf(c.steps, 1), StepOf(c.steps, 2))
  BY <1>1, TailInOrder
<1>3. ASSUME AtStep(d) # "over"
          PROVE Fits(c.operation, AtStep(d), NextStep(d)) /\ AtStep(d) \in Calls!StepNames
  <2>1. d.steps # <<>>
    BY <1>3, HereIs DEF StepTaken
  <2> QED BY <1>2, <2>1, TailInOrder DEF AtStep, NextStep
<1> QED BY <1>1, <1>2, <1>3 DEF AtStep, NextStep

(* A step is done, and nothing is recorded.                                 *)
LEMMA RecordOnward ==
    ASSUME NEW c, NEW d, StepTaken(c, d), RecordFine(c),
           d.told = c.told, d.record = c.record, d.broken = c.broken,
           d.reported = c.reported \/ AtStep(c) = "report",
           d.result = c.result \/ d.result = "stream",
           AtStep(c) = "broken" => ~ c.broken,
           AtStep(c) \in {"ensure", "ensure_whole"} => c.record # "none"
    PROVE  RecordFine(d)
<1>1. /\ AtStep(c) \in Calls!StepNames /\ AtStep(c) # "over" /\ d.operation = c.operation
      /\ Goes(c.operation, AtStep(c), AtStep(d), NextStep(d))
      /\ Fits(c.operation, AtStep(c), AtStep(d))
      /\ AtStep(d) = NextStep(c)
      /\ AtStep(d) # "over" => AtStep(d) \in Calls!StepNames
  BY OnwardFacts DEF StepTaken
<1>2. Early(d) => Early(c)
  BY <1>1 DEF Early, EarlySteps, Goes, Fits, Calls!StepNames
<1>3. d.broken => \/ AtStep(d) = "broken"
                  \/ AtStep(d) = "tail" /\ NextStep(d) = "broken"
                  \/ ~ Early(d) /\ d.record \in {"failure", "usage"}
  BY <1>1, <1>2 DEF RecordFine
<1>4. d.operation \in Calls!Ensuring /\ d.reported /\ AtStep(d) \in {"return", "close", "over"}
      => d.record # "none"
  <2>1. CASE AtStep(d) \in {"return", "close"}
    BY <1>1, <2>1 DEF Fits
  <2>2. CASE AtStep(d) = "over"
    BY <1>1, <2>2 DEF Goes, RecordFine
  <2> QED BY <2>1, <2>2
<1> QED BY <1>1, <1>2, <1>3, <1>4 DEF RecordFine, Calls!Failures, Calls!Unheard

(* The same for the body,                                                   *)
LEMMA BodyOnward ==
    ASSUME NEW c, NEW d, StepTaken(c, d), BodyFine(c),
           d.body = c.body \/ d.body # "open", d.deferred = c.deferred \/ AtStep(c) = "defer",
           AtStep(c) = "defer" => d.deferred, AtStep(c) # "send",
           AtStep(c) \in {"read_close", "close", "close_body", "return"} => d.body # "open"
    PROVE  BodyFine(d)
<1>1. /\ AtStep(c) \in Calls!StepNames /\ AtStep(c) # "over"
      /\ Goes(c.operation, AtStep(c), AtStep(d), NextStep(d)) /\ AtStep(d) = NextStep(c)
  BY OnwardFacts DEF StepTaken
<1>2. d.body = "open" => AtStep(d) # "over"
  BY <1>1 DEF Goes
<1>3. ASSUME d.body = "open", ~ d.deferred
      PROVE  /\ AtStep(d) \in OpenSteps
             /\ AtStep(d) = "check" => NextStep(d) = "spawn"
             /\ AtStep(d) = "ensure" => NextStep(d) = "close"
  <2>1. /\ AtStep(c) \in OpenSteps \ {"defer", "read_close", "close", "close_body"}
        /\ AtStep(c) = "check" => AtStep(d) = "spawn"
        /\ AtStep(c) = "ensure" => AtStep(d) = "close"
    BY <1>1, <1>3 DEF BodyFine
  <2> QED BY <1>1, <2>1 DEF OpenSteps, Goes
<1> QED BY <1>2, <1>3 DEF BodyFine

(* for the channel,                                                         *)
LEMMA OutOnward ==
    ASSUME NEW c, NEW d, StepTaken(c, d), OutFine(c), RecordFine(c),
           d.out = c.out, d.broken = c.broken,
           AtStep(c) = "broken" => ~ c.broken, AtStep(c) \notin {"return", "close", "close_body"}
    PROVE  OutFine(d)
<1>1. /\ AtStep(c) \in Calls!StepNames /\ AtStep(c) # "over" /\ d.operation = c.operation
      /\ Goes(c.operation, AtStep(c), AtStep(d), NextStep(d))
      /\ Fits(c.operation, AtStep(c), AtStep(d))
      /\ AtStep(d) = NextStep(c)
      /\ AtStep(d) # "over" => AtStep(d) \in Calls!StepNames
  BY OnwardFacts DEF StepTaken
<1>2. Early(d) => Early(c)
  BY <1>1 DEF Early, EarlySteps, Goes, Fits, Calls!StepNames
<1>3. AtStep(d) # "over"
  BY <1>1 DEF Goes
<1>4. Early(c) /\ ~ Early(d) => ~ c.broken
  <2>1. AtStep(d) = "broken" => Early(d)
    BY DEF Early, EarlySteps, Calls!StepNames
  <2> QED BY <1>1, <2>1 DEF RecordFine
<1> QED BY <1>1, <1>2, <1>3, <1>4 DEF OutFine

(* for the answer that is looked at,                                        *)
LEMMA HeardOnward ==
    ASSUME NEW c, NEW d, StepTaken(c, d), HeardFine(c), d.outcomes = c.outcomes,
           AtStep(c) # "send"
    PROVE  HeardFine(d)
<1>1. /\ AtStep(c) \in Calls!StepNames
      /\ Goes(c.operation, AtStep(c), AtStep(d), NextStep(d))
  BY OnwardFacts
<1>2. AtStep(d) \in Heeding => AtStep(c) \in Heeding
  BY <1>1 DEF Goes, Heeding, Calls!StepNames
<1> QED BY <1>2 DEF HeardFine

(* and for the upstreams.                                                   *)
LEMMA UpOnward ==
    ASSUME NEW c, NEW d, StepTaken(c, d), UpFine(c), RecordFine(c),
           d.outcomes = c.outcomes, d.upstream = c.upstream, d.attempt = c.attempt,
           d.result = c.result \/ d.result = "stream", AtStep(c) # "send",
           AtStep(c) \in {"check_base", "check_base_read"}
           => c.outcomes # <<>> /\ c.outcomes[Len(c.outcomes)] = "ok"
    PROVE  UpFine(d)
<1> SUFFICES ASSUME d.operation \in Tried PROVE UpFine(d)
  BY DEF UpFine
<1>1. /\ AtStep(c) \in Calls!StepNames /\ AtStep(c) # "over" /\ d.operation = c.operation
      /\ Goes(c.operation, AtStep(c), AtStep(d), NextStep(d))
      /\ Fits(c.operation, AtStep(c), AtStep(d))
      /\ AtStep(d) # "over" => Fits(c.operation, AtStep(d), NextStep(d))
             /\ AtStep(d) \in Calls!StepNames
  BY OnwardFacts DEF StepTaken
<1>2. c.operation \in Calls!OverBaseURLs /\ c.operation # "antigravity_models"
  BY <1>1 DEF Tried
<1>3. AtStep(d) \in BeforeAnswer => AtStep(c) \in BeforeAnswer
  BY <1>1, <1>2 DEF Goes, BeforeAnswer, Calls!StepNames
<1>4. AtStep(d) \notin BeforeAnswer \cup Heeding \cup {"over"}
      => \/ AtStep(c) \notin BeforeAnswer \cup Heeding \cup {"over"}
         \/ AtStep(c) \in {"check_base", "check_base_read"}
  BY <1>1, <1>2 DEF Goes, Fits, BeforeAnswer, Heeding, Calls!StepNames
<1>5. AtStep(d) = "over" => AtStep(c) \notin BeforeAnswer \cup Heeding \cup {"over"}
  BY <1>1 DEF Goes, BeforeAnswer, Heeding
<1>6. d.result \in {"none", "stream"}
  BY <1>1 DEF RecordFine
<1> QED BY <1>1, <1>3, <1>4, <1>5, <1>6 DEF UpFine

(* What CloseBody and Return leave alone, and what they do.                 *)
LEMMA CloseBodyIs ==
    ASSUME NEW c \in CallRec
    PROVE  /\ Calls!CloseBody(c) \in CallRec
           /\ Calls!CloseBody(c) = [c EXCEPT !.body = Calls!CloseBody(c).body]
           /\ Calls!CloseBody(c).body \in {"none", "closed"}
BY DEF Calls!CloseBody, CallRec

(* A failure counts if nothing came before it.                              *)
LEMMA PublishFailureIs ==
    ASSUME NEW c \in CallRec
    PROVE  LET d == Calls!PublishFailure(c) IN
           /\ d \in CallRec /\ d.steps = c.steps /\ d.operation = c.operation
           /\ d.upstream = c.upstream /\ d.attempt = c.attempt /\ d.outcomes = c.outcomes
           /\ d.reported = c.reported /\ d.deferred = c.deferred /\ d.body = c.body
           /\ d.broken = c.broken /\ d.out = c.out /\ d.result = c.result /\ d.told = c.told
           /\ d.record = IF c.record = "none" THEN "failure" ELSE c.record
BY DEF Calls!PublishFailure, CallRec

(* What a return does.                                                      *)
LEMMA ReturnIs ==
    ASSUME NEW c \in CallRec, NEW r \in Calls!CallResults
    PROVE  LET d == Calls!Return(c, r) IN
           /\ d \in CallRec /\ d.steps = <<>> /\ d.result = r /\ d.operation = c.operation
           /\ d.upstream = c.upstream /\ d.attempt = c.attempt /\ d.outcomes = c.outcomes
           /\ d.reported = c.reported /\ d.told = c.told /\ d.broken = c.broken
           /\ d.record = IF c.reported /\ r \in Calls!Failures /\ c.record = "none" THEN "failure"
                         ELSE c.record
           /\ d.body = "open" => c.body = "open" /\ ~ c.deferred
<1> DEFINE returned == [c EXCEPT !.steps = <<>>, !.result = r]
           failed == c.reported /\ r \in Calls!Failures
           tracked == IF failed THEN Calls!PublishFailure(returned) ELSE returned
<1>1. <<>> \in Seq(Calls!StepNames)
  OBVIOUS
<1>2. /\ returned \in CallRec /\ returned.steps = <<>> /\ returned.result = r
      /\ returned.operation = c.operation /\ returned.upstream = c.upstream
      /\ returned.attempt = c.attempt /\ returned.outcomes = c.outcomes
      /\ returned.reported = c.reported /\ returned.told = c.told /\ returned.broken = c.broken
      /\ returned.record = c.record /\ returned.body = c.body
  BY <1>1 DEF CallRec
<1> HIDE DEF returned
<1>3. /\ tracked \in CallRec /\ tracked.steps = <<>> /\ tracked.result = r
      /\ tracked.operation = c.operation /\ tracked.upstream = c.upstream
      /\ tracked.attempt = c.attempt /\ tracked.outcomes = c.outcomes
      /\ tracked.reported = c.reported /\ tracked.told = c.told /\ tracked.broken = c.broken
      /\ tracked.record = (IF failed /\ c.record = "none" THEN "failure" ELSE c.record)
      /\ tracked.body = c.body
  <2>1. CASE failed
    <3>1. tracked = Calls!PublishFailure(returned)
      BY <2>1
    <3> HIDE DEF tracked
    <3> QED BY <1>2, <2>1, <3>1, PublishFailureIs
  <2>2. CASE ~ failed
    BY <1>2, <2>2
  <2> QED BY <2>1, <2>2
<1>4. Calls!Return(c, r) = IF c.deferred THEN Calls!CloseBody(tracked) ELSE tracked
  BY DEF Calls!Return, returned
<1> HIDE DEF tracked
<1>5. /\ Calls!CloseBody(tracked) \in CallRec
      /\ Calls!CloseBody(tracked) = [tracked EXCEPT !.body = Calls!CloseBody(tracked).body]
      /\ Calls!CloseBody(tracked).body \in {"none", "closed"}
  BY <1>3, CloseBodyIs
<1>6. CASE c.deferred
  <2>1. Calls!Return(c, r) = [tracked EXCEPT !.body = Calls!CloseBody(tracked).body]
    BY <1>4, <1>5, <1>6
  <2>2. Calls!Return(c, r).body \in {"none", "closed"}
    BY <1>4, <1>5, <1>6
  <2> HIDE DEF Calls!Return
  <2>3. tracked \in CallRec /\ Calls!Return(c, r) \in CallRec
    BY <1>3, <1>4, <1>5, <1>6
  <2> QED BY <1>3, <2>1, <2>2, <2>3 DEF CallRec
<1>7. CASE ~ c.deferred
  BY <1>3, <1>4, <1>7
<1> QED BY <1>6, <1>7

(* d is what is left of c when the call is over.                            *)
LEMMA RecordOver ==
    ASSUME NEW c, NEW d, RecordFine(c), AtStep(c) \notin {"over", "broken", "tail"},
           AtStep(d) = "over",
           d.operation = c.operation, d.reported = c.reported, d.told = c.told,
               d.broken = c.broken,
           c.reported \in BOOLEAN,
           c.record \in {"none", "usage", "failure", "empty"},
           d.record = IF c.reported /\ d.result \in Calls!Failures
               /\ c.record = "none" THEN "failure"
                      ELSE c.record,
           d.result \in Calls!Failures => Early(c) \/ c.broken,
           \/ d.result \in Calls!Failures \/ AtStep(c) \in {"return", "close"}
           \/ c.operation = "antigravity_models"
    PROVE  RecordFine(d)
<1>1. ~ Early(d)
  BY DEF Early, EarlySteps, Calls!StepNames
<1>2. "antigravity_models" \notin Calls!Ensuring
  BY DEF Calls!Ensuring
<1>3. c.broken => ~ Early(c) /\ c.record \in {"failure", "usage"}
  BY DEF RecordFine
<1>4. d.told <=> d.record = "usage"
  BY DEF RecordFine
<1>5. d.record = "failure" => d.broken \/ d.result \in Calls!Failures
  BY DEF RecordFine
<1>6. d.reported /\ d.result \in Calls!Failures => d.record \in {"failure", "usage"}
  BY <1>3 DEF RecordFine
<1>7. d.operation \in Calls!Ensuring /\ d.reported => d.record # "none"
  BY <1>2, <1>6 DEF RecordFine
<1>8. d.broken => ~ Early(d) /\ d.record \in {"failure", "usage"}
  BY <1>1, <1>3
<1> QED BY <1>1, <1>4, <1>5, <1>6, <1>7, <1>8 DEF RecordFine

(* A call that is over has no body open and no steps.                       *)
LEMMA RestOver ==
    ASSUME NEW d, AtStep(d) = "over", d.steps = <<>>, d.body # "open", d.result # "stream"
    PROVE  BodyFine(d) /\ OutFine(d) /\ HeardFine(d) /\ InOrder(d.operation, d.steps)
<1>1. ~ Early(d)
  BY DEF Early, EarlySteps, Calls!StepNames
<1>2. AtStep(d) \notin Heeding
  BY DEF Heeding
<1>3. InOrder(d.operation, d.steps)
  BY NothingInOrder
<1> QED BY <1>1, <1>2, <1>3 DEF BodyFine, OutFine, HeardFine

(* The upstreams of a call that is over.                                    *)
LEMMA UpOver ==
    ASSUME NEW d, AtStep(d) = "over",
           d.operation \in Tried =>
              /\ \A i \in 1..(Len(d.outcomes) - 1) : d.outcomes[i] \in Reasons(d.operation)
              /\ Len(d.outcomes) <= d.attempt * BaseURLs + d.upstream
              /\ d.result \in {"quota", "unreachable"} => d.upstream = BaseURLs
              /\ d.result = "busy" /\ d.operation # "antigravity_count"
                 => d.upstream = BaseURLs /\ d.attempt = Retries
              /\ d.result \in {"answer", "stream"} => d.outcomes[Len(d.outcomes)] = "ok"
    PROVE  UpFine(d)
<1>1. AtStep(d) \notin BeforeAnswer
  BY DEF BeforeAnswer
<1> QED BY <1>1 DEF UpFine

(* d is what is left of c when the next base URL or the next attempt is     *)
(* asked.                                                                   *)
LEMMA SendAgain ==
    ASSUME NEW c, NEW d, RecordFine(c), OutFine(c), Early(c),
           AtStep(c) \notin {"over", "broken", "tail"},
           AtStep(d) = "send", d.operation = c.operation, d.told = c.told, d.record = c.record,
           d.broken = c.broken, d.result = c.result, d.out = c.out, d.body = "open" => d.deferred,
           d.operation \in Tried =>
              /\ \A i \in 1..Len(d.outcomes) : d.outcomes[i] \in Reasons(d.operation)
              /\ Len(d.outcomes) < d.attempt * BaseURLs + d.upstream,
           Len(d.outcomes) \in Nat, d.attempt \in Nat, BaseURLs \in Nat, d.upstream \in Nat
    PROVE  RecordFine(d) /\ BodyFine(d) /\ OutFine(d) /\ HeardFine(d) /\ UpFine(d)
<1>1. Early(d) /\ AtStep(d) \notin Heeding /\ AtStep(d) \in BeforeAnswer
  BY DEF Early, EarlySteps, Heeding, BeforeAnswer, Calls!StepNames
<1>2. ~ c.broken
  BY DEF RecordFine
<1>3. d.attempt * BaseURLs + d.upstream \in Nat
  OBVIOUS
<1>4. UpFine(d)
  <2> DEFINE m == d.attempt * BaseURLs + d.upstream
  <2>1. Len(d.outcomes) < m => Len(d.outcomes) <= m
    BY <1>3
  <2> QED BY <1>1, <2>1 DEF UpFine, BeforeAnswer
<1>5. RecordFine(d)
  BY <1>1, <1>2 DEF RecordFine
<1>6. BodyFine(d) /\ HeardFine(d)
  BY <1>1 DEF BodyFine, HeardFine
<1>7. OutFine(d)
  BY <1>1 DEF OutFine
<1> QED BY <1>4, <1>5, <1>6, <1>7

(* The steps from "send" on.                                                *)
SendsOnce(r, k) == k \in 1..Len(r) /\ \A i \in 1..Len(r) : r[i] = "send" <=> i = k

(* One step of each of these operations sends.                              *)
LEMMA OneSend ==
    \A o \in Calls!OverBaseURLs : \E k \in Nat : SendsOnce(Calls!Steps[o], k)
<1>1. SendsOnce(Calls!AntigravityExecute, 5)
  BY DEF Calls!AntigravityExecute, SendsOnce
<1>2. SendsOnce(Calls!AntigravityExecuteClaude, 5)
  BY DEF Calls!AntigravityExecuteClaude, SendsOnce
<1>3. SendsOnce(Calls!AntigravityExecuteStream, 5)
  BY DEF Calls!AntigravityExecuteStream, SendsOnce
<1>4. SendsOnce(Calls!AntigravityCountTokens, 3)
  BY DEF Calls!AntigravityCountTokens, SendsOnce
<1>5. SendsOnce(Calls!AntigravityFetchModels, 2)
  BY DEF Calls!AntigravityFetchModels, SendsOnce
<1> QED BY <1>1, <1>2, <1>3, <1>4, <1>5 DEF Calls!OverBaseURLs, Calls!Steps

(* The steps from "send" on are in order.                                   *)
LEMMA FromSendIs ==
    ASSUME NEW c \in CallRec, c.operation \in Calls!OverBaseURLs
    PROVE  /\ Calls!FromSend(c) \in Seq(Calls!StepNames)
           /\ InOrder(c.operation, Calls!FromSend(c))
           /\ StepOf(Calls!FromSend(c), 1) = "send"
<1> DEFINE all == Calls!Steps[c.operation]
           I == {i \in 1..Len(all) : all[i] = "send"}
<1>1. all \in Seq(Calls!StepNames) /\ InOrder(c.operation, all)
  BY HereIs, OperationsInOrder DEF Whole
<1>2. PICK k \in Nat : SendsOnce(all, k)
  BY OneSend
<1>3. k \in 1..Len(all) /\ all[k] = "send" /\ I = {k}
  BY <1>2 DEF SendsOnce
<1>4. Calls!Min(I) = k
  <2>1. \A x \in {k} : x <= k /\ k <= x
    BY <1>2
  <2> QED BY <1>3, <2>1 DEF Calls!Min
<1>5. Calls!FromSend(c) = SubSeq(all, k, Len(all))
  <2>1. Calls!FromSend(c) = SubSeq(all, IF I # {} THEN Calls!Min(I) ELSE 0, Len(all))
    BY DEF Calls!FromSend, Calls!SelectInSeq
  <2> QED BY <1>3, <1>4, <2>1
<1> HIDE DEF all
<1> QED BY <1>1, <1>3, <1>5, RestInOrder

(* A step that records, tells and hears nothing.                            *)
LEMMA OnwardFine ==
    ASSUME NEW c, NEW d \in CallRec, CallFine(c),
           AtStep(c) \notin {"over", "send", "close", "close_body", "return"},
           d.steps = Tail(c.steps), d.operation = c.operation, d.upstream = c.upstream,
           d.attempt = c.attempt, d.outcomes = c.outcomes, d.record = c.record, d.told = c.told,
           d.broken = c.broken, d.out = c.out,
           d.reported = c.reported \/ AtStep(c) = "report",
           d.deferred = c.deferred \/ AtStep(c) = "defer",
           d.body = c.body \/ d.body # "open",
           d.result = c.result \/ d.result = "stream",
           AtStep(c) = "defer" => d.deferred,
           AtStep(c) = "read_close" => d.body # "open",
           AtStep(c) = "broken" => ~ c.broken,
           AtStep(c) \in {"ensure", "ensure_whole"} => c.record # "none",
           AtStep(c) \in {"check_base", "check_base_read"}
           => c.outcomes # <<>> /\ c.outcomes[Len(c.outcomes)] = "ok"
    PROVE  CallFine(d)
<1>1. c \in CallRec /\ InOrder(c.operation, c.steps) /\ AtStep(c) # "over"
  BY DEF CallFine
<1>2. StepTaken(c, d)
  BY <1>1 DEF StepTaken
<1>3. RecordFine(d)
  BY <1>2, RecordOnward DEF CallFine
<1>4. BodyFine(d)
  BY <1>2, BodyOnward DEF CallFine
<1>5. OutFine(d)
  BY <1>2, OutOnward DEF CallFine
<1>6. HeardFine(d)
  BY <1>2, HeardOnward DEF CallFine
<1>7. UpFine(d)
  BY <1>2, UpOnward DEF CallFine
<1>8. InOrder(d.operation, d.steps)
  BY <1>2, OnwardFacts
<1> QED BY <1>3, <1>4, <1>5, <1>6, <1>7, <1>8 DEF CallFine

(* A step less.                                                             *)
LEMMA AdvancedIs ==
    ASSUME NEW step, Calls!At(step), kCall \in CallRec
    PROVE  /\ AtStep(kCall) = step /\ AtStep(kCall) # "over" /\ Calls!Advanced \in CallRec
           /\ Calls!Advanced.steps = Tail(kCall.steps)
           /\ Calls!Advanced.operation = kCall.operation
           /\ Calls!Advanced.upstream = kCall.upstream /\ Calls!Advanced.attempt = kCall.attempt
           /\ Calls!Advanced.outcomes = kCall.outcomes /\ Calls!Advanced.reported = kCall.reported
           /\ Calls!Advanced.record = kCall.record /\ Calls!Advanced.told = kCall.told
           /\ Calls!Advanced.deferred = kCall.deferred /\ Calls!Advanced.body = kCall.body
           /\ Calls!Advanced.broken = kCall.broken /\ Calls!Advanced.lines = kCall.lines
           /\ Calls!Advanced.out = kCall.out /\ Calls!Advanced.result = kCall.result
           /\ Tail(kCall.steps) \in Seq(Calls!StepNames)
<1>1. AtStep(kCall) = step /\ AtStep(kCall) # "over" /\ kCall.steps # <<>>
  BY HereIs DEF Calls!At
<1>2. Tail(kCall.steps) \in Seq(Calls!StepNames)
  BY <1>1 DEF CallRec
<1> QED BY <1>1, <1>2 DEF Calls!Advanced, CallRec

(* A step without an effect of its own.                                     *)
LEMMA PassedFine ==
    ASSUME NEW step, Calls!At(step), CallFine(kCall), kCall' = Calls!Advanced,
           step \notin {"over", "send", "defer", "read_close", "close", "close_body", "return"},
           step = "broken" => ~ kCall.broken,
           step \in {"ensure", "ensure_whole"} => kCall.record # "none",
           step \in {"check_base", "check_base_read"}
           => kCall.outcomes # <<>> /\ kCall.outcomes[Len(kCall.outcomes)] = "ok"
    PROVE  CallFine(kCall')
<1>1. kCall \in CallRec
  BY DEF CallFine
<1> QED BY <1>1, AdvancedIs, OnwardFine

(* newUsageReporter.                                                        *)
LEMMA ReportFine ==
    ASSUME CallFine(kCall), Calls!Report PROVE CallFine(kCall')
<1>1. kCall \in CallRec /\ Calls!At("report")
      /\ kCall' = [Calls!Advanced EXCEPT !.reported = TRUE]
  BY DEF CallFine, Calls!Report
<1>2. /\ kCall' \in CallRec
      /\ kCall'.steps = Tail(kCall.steps) /\ kCall'.operation = kCall.operation
      /\ kCall'.upstream = kCall.upstream /\ kCall'.attempt = kCall.attempt
      /\ kCall'.outcomes = kCall.outcomes
      /\ kCall'.record = kCall.record /\ kCall'.told = kCall.told
      /\ kCall'.deferred = kCall.deferred /\ kCall'.body = kCall.body
      /\ kCall'.broken = kCall.broken /\ kCall'.out = kCall.out /\ kCall'.result = kCall.result
      /\ AtStep(kCall) = "report"
  BY <1>1, AdvancedIs DEF CallRec
<1> QED BY <1>2, OnwardFine

(* The body will be closed at the return.                                   *)
LEMMA DeferFine ==
    ASSUME CallFine(kCall), Calls!Defer PROVE CallFine(kCall')
<1>1. kCall \in CallRec /\ Calls!At("defer") /\ kCall' = [Calls!Advanced EXCEPT !.deferred = TRUE]
  BY DEF CallFine, Calls!Defer
<1>2. /\ kCall' \in CallRec
      /\ kCall'.steps = Tail(kCall.steps) /\ kCall'.operation = kCall.operation
      /\ kCall'.upstream = kCall.upstream /\ kCall'.attempt = kCall.attempt
      /\ kCall'.outcomes = kCall.outcomes /\ kCall'.reported = kCall.reported
      /\ kCall'.record = kCall.record /\ kCall'.told = kCall.told
      /\ kCall'.deferred /\ kCall'.body = kCall.body
      /\ kCall'.broken = kCall.broken /\ kCall'.out = kCall.out /\ kCall'.result = kCall.result
      /\ AtStep(kCall) = "defer"
  BY <1>1, AdvancedIs DEF CallRec
<1> QED BY <1>2, OnwardFine

(* The caller gets its channel.                                             *)
LEMMA SpawnFine ==
    ASSUME CallFine(kCall), Calls!Spawn PROVE CallFine(kCall')
<1>1. kCall \in CallRec /\ Calls!At("spawn")
      /\ kCall' = [Calls!Advanced EXCEPT !.result = "stream"]
  BY DEF CallFine, Calls!Spawn
<1>2. /\ kCall' \in CallRec
      /\ kCall'.steps = Tail(kCall.steps) /\ kCall'.operation = kCall.operation
      /\ kCall'.upstream = kCall.upstream /\ kCall'.attempt = kCall.attempt
      /\ kCall'.outcomes = kCall.outcomes /\ kCall'.reported = kCall.reported
      /\ kCall'.record = kCall.record /\ kCall'.told = kCall.told
      /\ kCall'.deferred = kCall.deferred /\ kCall'.body = kCall.body
      /\ kCall'.broken = kCall.broken /\ kCall'.out = kCall.out /\ kCall'.result = "stream"
      /\ AtStep(kCall) = "spawn"
  BY <1>1, AdvancedIs DEF CallRec, Calls!CallResults
<1> QED BY <1>2, OnwardFine

(* The requests sent, when the last has been given up.                      *)
TriedSoFar(x) ==
    x.operation \in Tried =>
        /\ \A i \in 1..(Len(x.outcomes) - 1) : x.outcomes[i] \in Reasons(x.operation)
        /\ Len(x.outcomes) <= x.attempt * BaseURLs + x.upstream

(* x is the call with the answer it gives up on, its body perhaps closed.   *)
GivenUp(c, x) ==
    /\ CallFine(c) /\ x \in CallRec /\ AtStep(c) \notin {"over", "broken", "tail"}
    /\ x.operation = c.operation /\ x.reported = c.reported /\ x.told = c.told
    /\ x.broken = c.broken /\ x.record = c.record /\ x.deferred = c.deferred
    /\ x.out = c.out /\ x.result = c.result
    /\ x.body = c.body \/ x.body # "open"
    /\ AtStep(c) \in OpenSteps => x.body # "open"
    /\ TriedSoFar(x)

(* A call that is given up for a fair reason.                               *)
LEMMA ReturnFine ==
    ASSUME NEW c, NEW x, NEW r \in Calls!CallResults, GivenUp(c, x), r \notin {"none", "stream"},
           r \in Calls!Failures => Early(c) \/ c.broken,
           r \in Calls!Failures \/ AtStep(c) = "return" \/ c.operation = "antigravity_models",
           x.operation \in Tried =>
              /\ r \in {"quota", "unreachable"} => x.upstream = BaseURLs
              /\ r = "busy" /\ x.operation # "antigravity_count"
                 => x.upstream = BaseURLs /\ x.attempt = Retries
              /\ r = "answer" => x.outcomes[Len(x.outcomes)] = "ok"
    PROVE  CallFine(Calls!Return(x, r))
<1> DEFINE d == Calls!Return(x, r)
<1>1. /\ d \in CallRec /\ d.steps = <<>> /\ d.result = r /\ d.operation = x.operation
      /\ d.upstream = x.upstream /\ d.attempt = x.attempt /\ d.outcomes = x.outcomes
      /\ d.reported = x.reported /\ d.told = x.told /\ d.broken = x.broken
      /\ d.record = (IF x.reported /\ r \in Calls!Failures /\ x.record = "none" THEN "failure"
                     ELSE x.record)
      /\ d.body = "open" => x.body = "open" /\ ~ x.deferred
  BY ReturnIs DEF GivenUp
<1> HIDE DEF d
<1>2. AtStep(d) = "over"
  BY <1>1, HereIs
<1>3. d.body # "open"
  BY <1>1 DEF GivenUp, CallFine, BodyFine
<1>4. BodyFine(d) /\ OutFine(d) /\ HeardFine(d) /\ InOrder(d.operation, d.steps)
  BY <1>1, <1>2, <1>3, RestOver
<1>5. UpFine(d)
  BY <1>1, <1>2, UpOver DEF GivenUp, TriedSoFar
<1>6. RecordFine(d)
  <2>1. c.reported \in BOOLEAN /\ c.record \in {"none", "usage", "failure", "empty"}
    BY DEF GivenUp, CallFine, CallRec
  <2>2. RecordFine(c) /\ AtStep(c) \notin {"over", "broken", "tail"} /\ d.operation = c.operation
        /\ d.reported = c.reported /\ d.told = c.told /\ d.broken = c.broken
        /\ d.record = IF c.reported /\ d.result \in Calls!Failures
               /\ c.record = "none" THEN "failure"
                      ELSE c.record
    BY <1>1 DEF GivenUp, CallFine
  <2> QED BY <1>1, <1>2, <2>1, <2>2, RecordOver
<1>7. CallFine(d)
  BY <1>1, <1>4, <1>5, <1>6 DEF CallFine
<1> QED BY <1>7 DEF d

(* A call that goes to the next base URL or attempt.                        *)
LEMMA AgainFine ==
    ASSUME Calls!BoundsAssumption, NEW c, NEW x, NEW d, GivenUp(c, x), Early(c),
           c.operation \in Calls!OverBaseURLs,
           d \in {Calls!NextURL(x), Calls!NextAttempt(x)},
           d = Calls!NextURL(x) => x.upstream < BaseURLs,
           d = Calls!NextAttempt(x) => x.attempt < Retries /\ x.upstream = BaseURLs,
           x.operation \in Tried => \A i \in 1..Len(x.outcomes) :
               x.outcomes[i] \in Reasons(x.operation)
    PROVE  CallFine(d)
<1>1. /\ Calls!FromSend(x) \in Seq(Calls!StepNames) /\ InOrder(x.operation, Calls!FromSend(x))
      /\ StepOf(Calls!FromSend(x), 1) = "send"
  BY FromSendIs DEF GivenUp
<1>2. /\ BaseURLs \in Nat /\ Retries \in Nat /\ x.upstream \in 1..BaseURLs
      /\ x.attempt \in 0..Retries
      /\ x \in CallRec /\ x.outcomes \in Seq(Calls!Responses \cup Calls!Unheard)
  BY DEF Calls!BoundsAssumption, GivenUp, CallRec
<1>3. /\ d.steps = Calls!FromSend(x) /\ d.operation = x.operation /\ d.told = x.told
      /\ d.record = x.record /\ d.broken = x.broken /\ d.result = x.result /\ d.out = x.out
      /\ d.body = x.body /\ d.deferred = x.deferred /\ d.outcomes = x.outcomes
      /\ d \in CallRec
      /\ \/ d.attempt = x.attempt /\ d.upstream = x.upstream + 1
         \/ d.attempt = x.attempt + 1 /\ d.upstream = 1 /\ x.upstream = BaseURLs
  <2>1. CASE d = Calls!NextURL(x)
    <3>1. x.upstream + 1 \in 1..BaseURLs
      BY <1>2, <2>1
    <3> QED BY <1>1, <1>2, <2>1, <3>1 DEF Calls!NextURL, CallRec
  <2>2. CASE d = Calls!NextAttempt(x)
    <3>1. x.attempt + 1 \in 0..Retries /\ 1 \in 1..BaseURLs
      BY <1>2, <2>2
    <3> QED BY <1>1, <1>2, <2>2, <3>1 DEF Calls!NextAttempt, CallRec
  <2> QED BY <2>1, <2>2
<1>4. AtStep(d) = "send"
  BY <1>1, <1>3 DEF AtStep
<1>5. /\ d.attempt \in Nat /\ d.upstream \in Nat /\ BaseURLs \in Nat /\ Len(d.outcomes) \in Nat
      /\ x.attempt \in Nat /\ x.upstream \in Nat
  BY <1>2, <1>3
<1>6. Len(d.outcomes) <= x.attempt * BaseURLs + x.upstream
      => Len(d.outcomes) < d.attempt * BaseURLs + d.upstream
  <2>1. (x.attempt + 1) * BaseURLs = x.attempt * BaseURLs + BaseURLs
    BY <1>5
  <2>2. x.attempt * BaseURLs \in Nat
    BY <1>5
  <2> DEFINE m == x.attempt * BaseURLs
  <2>3. d.attempt * BaseURLs + d.upstream = m + x.upstream + 1
    <3>1. CASE d.attempt = x.attempt /\ d.upstream = x.upstream + 1
      BY <1>5, <2>2, <3>1
    <3>2. CASE d.attempt = x.attempt + 1 /\ d.upstream = 1 /\ x.upstream = BaseURLs
      <4>1. d.attempt * BaseURLs = m + BaseURLs
        BY <2>1, <3>2
      <4> QED BY <1>5, <2>2, <3>2, <4>1
    <3> QED BY <1>3, <3>1, <3>2
  <2> HIDE DEF m
  <2>4. m \in Nat
    BY <2>2 DEF m
  <2>5. x.attempt * BaseURLs + x.upstream = m + x.upstream
    BY DEF m
  <2> QED BY <1>5, <2>3, <2>4, <2>5
<1>7. d.operation \in Tried =>
        /\ \A i \in 1..Len(d.outcomes) : d.outcomes[i] \in Reasons(d.operation)
        /\ Len(d.outcomes) < d.attempt * BaseURLs + d.upstream
  BY <1>3, <1>6 DEF GivenUp, TriedSoFar
<1>8. /\ RecordFine(c) /\ OutFine(c) /\ AtStep(c) \notin {"over", "broken", "tail"}
      /\ d.operation = c.operation /\ d.told = c.told /\ d.record = c.record
      /\ d.broken = c.broken /\ d.result = c.result /\ d.out = c.out
      /\ d.body = "open" => d.deferred
  BY <1>3 DEF GivenUp, CallFine, BodyFine
<1>9. RecordFine(d) /\ BodyFine(d) /\ OutFine(d) /\ HeardFine(d) /\ UpFine(d)
  BY <1>4, <1>5, <1>7, <1>8, SendAgain
<1> QED BY <1>1, <1>3, <1>9 DEF CallFine

(* A call as it is, with its body closed, or with an answer more, is given  *)
(* up.                                                                      *)
LEMMA SelfGivenUp ==
    ASSUME NEW c, CallFine(c), AtStep(c) \notin {"over", "broken", "tail"},
           AtStep(c) \notin OpenSteps
    PROVE  GivenUp(c, c)
BY DEF GivenUp, TriedSoFar, CallFine, UpFine

(* Closing the body changes nothing of that,                                *)
LEMMA ClosedGivenUp ==
    ASSUME NEW c, CallFine(c), AtStep(c) \notin {"over", "broken", "tail"}
    PROVE  /\ GivenUp(c, Calls!CloseBody(c))
           /\ Calls!CloseBody(c).outcomes = c.outcomes /\ Calls!CloseBody(c).upstream = c.upstream
           /\ Calls!CloseBody(c).attempt = c.attempt /\ Calls!CloseBody(c).operation = c.operation
<1> DEFINE x == Calls!CloseBody(c)
<1>1. c \in CallRec /\ TriedSoFar(c)
  BY DEF CallFine, UpFine, TriedSoFar
<1>2. x \in CallRec /\ x = [c EXCEPT !.body = x.body] /\ x.body \in {"none", "closed"}
  BY <1>1, CloseBodyIs
<1> HIDE DEF x
<1>3. /\ x.operation = c.operation /\ x.reported = c.reported /\ x.told = c.told
      /\ x.broken = c.broken /\ x.record = c.record /\ x.deferred = c.deferred
      /\ x.out = c.out /\ x.result = c.result /\ x.outcomes = c.outcomes
      /\ x.upstream = c.upstream /\ x.attempt = c.attempt
  BY <1>1, <1>2 DEF CallRec
<1>4. TriedSoFar(x)
  BY <1>1, <1>3 DEF TriedSoFar
<1>5. GivenUp(c, x)
  BY <1>2, <1>3, <1>4 DEF GivenUp
<1> QED BY <1>3, <1>5 DEF x

Heard(c, s) == [c EXCEPT !.outcomes = Append(@, s)]

(* and neither does an answer more.                                         *)
LEMMA HeardGivenUp ==
    ASSUME Calls!BoundsAssumption, NEW c, CallFine(c), AtStep(c) \in {"send", "relay"},
           NEW s \in Calls!Responses \cup Calls!Unheard
    PROVE  /\ GivenUp(c, Heard(c, s)) /\ Early(c)
           /\ Heard(c, s).outcomes = Append(c.outcomes, s)
           /\ Heard(c, s).outcomes[Len(Heard(c, s).outcomes)] = s
           /\ Heard(c, s).operation = c.operation /\ Heard(c, s).upstream = c.upstream
           /\ Heard(c, s).attempt = c.attempt
           /\ c.operation \in Tried /\ s \in Reasons(c.operation)
              => \A i \in 1..Len(Heard(c, s).outcomes) :
                  Heard(c, s).outcomes[i] \in Reasons(c.operation)
<1> DEFINE x == Heard(c, s)
<1>1. c \in CallRec /\ c.outcomes \in Seq(Calls!Responses \cup Calls!Unheard)
  BY DEF CallFine, CallRec
<1>2. Append(c.outcomes, s) \in Seq(Calls!Responses \cup Calls!Unheard)
  BY <1>1
<1>3. /\ x \in CallRec /\ x.outcomes = Append(c.outcomes, s)
      /\ x.operation = c.operation /\ x.reported = c.reported /\ x.told = c.told
      /\ x.broken = c.broken /\ x.record = c.record /\ x.deferred = c.deferred
      /\ x.out = c.out /\ x.result = c.result /\ x.body = c.body
      /\ x.upstream = c.upstream /\ x.attempt = c.attempt
  BY <1>1, <1>2 DEF CallRec, Heard
<1> HIDE DEF x
<1>4. /\ Len(x.outcomes) = Len(c.outcomes) + 1 /\ x.outcomes[Len(x.outcomes)] = s
      /\ \A i \in 1..Len(c.outcomes) : x.outcomes[i] = c.outcomes[i]
      /\ Len(c.outcomes) \in Nat
  BY <1>1, <1>3
<1>5. Early(c) /\ AtStep(c) \in BeforeAnswer /\ AtStep(c) \notin OpenSteps
      /\ AtStep(c) \notin {"over", "broken", "tail"}
  BY DEF Early, EarlySteps, BeforeAnswer, OpenSteps, Calls!StepNames
<1>6. c.attempt * BaseURLs + c.upstream \in Nat
  <2>1. c.attempt \in Nat /\ BaseURLs \in Nat /\ c.upstream \in Nat
    BY <1>1 DEF Calls!BoundsAssumption, CallRec
  <2> QED BY <2>1
<1>7. TriedSoFar(x)
  <2> DEFINE m == c.attempt * BaseURLs + c.upstream
  <2> SUFFICES ASSUME x.operation \in Tried
               PROVE  /\ \A i \in 1..(Len(x.outcomes) - 1) :
                             x.outcomes[i] \in Reasons(x.operation)
                      /\ Len(x.outcomes) <= x.attempt * BaseURLs + x.upstream
    BY DEF TriedSoFar
  <2>1. /\ \A i \in 1..Len(c.outcomes) : c.outcomes[i] \in Reasons(c.operation)
        /\ Len(c.outcomes) < m
    BY <1>3, <1>5 DEF CallFine, UpFine
  <2>2. m \in Nat /\ x.attempt * BaseURLs + x.upstream = m
    BY <1>3, <1>6
  <2> HIDE DEF m
  <2>3. Len(x.outcomes) - 1 = Len(c.outcomes) /\ Len(x.outcomes) <= m
    BY <1>4, <2>1, <2>2
  <2> QED BY <1>3, <1>4, <2>1, <2>2, <2>3
<1>8. GivenUp(c, x)
  BY <1>3, <1>5, <1>7 DEF GivenUp
<1>9. ASSUME c.operation \in Tried, s \in Reasons(c.operation)
      PROVE  \A i \in 1..Len(x.outcomes) : x.outcomes[i] \in Reasons(c.operation)
  <2>1. \A i \in 1..Len(c.outcomes) : c.outcomes[i] \in Reasons(c.operation)
    BY <1>5, <1>9 DEF CallFine, UpFine
  <2>2. \A i \in 1..Len(x.outcomes) : i \in 1..Len(c.outcomes) \/ i = Len(x.outcomes)
    BY <1>4
  <2> QED BY <1>4, <1>9, <2>1, <2>2
<1> QED BY <1>3, <1>4, <1>5, <1>8, <1>9 DEF x

(* Nothing came back: the next base URL, or the end.                        *)
LEMMA UnansweredFine ==
    ASSUME Calls!BoundsAssumption, NEW c, NEW x, NEW why \in Calls!Unheard, GivenUp(c, x),
           Early(c),
           c.operation \in Tried /\ why # "cancelled"
           => \A i \in 1..Len(x.outcomes) : x.outcomes[i] \in Reasons(x.operation)
    PROVE  CallFine(Calls!Unanswered(x, why))
<1>1. x.operation = c.operation /\ x.upstream \in 1..BaseURLs /\ BaseURLs \in Nat
  BY DEF GivenUp, Calls!BoundsAssumption, CallRec
<1>2. why \in Calls!CallResults /\ why \in Calls!Failures /\ "cached" \in Calls!CallResults
      /\ why \notin {"none", "stream", "quota", "busy", "answer"}
      /\ "cached" \notin Calls!Failures
  BY DEF Calls!CallResults, Calls!Failures, Calls!Unheard
<1>3. CASE x.operation = "antigravity_models" /\ (why = "cancelled" \/ ~ Calls!HasNextURL(x))
  <2>1. x.operation \notin Tried
    BY <1>3 DEF Tried
  <2>2. CallFine(Calls!Return(x, "cached"))
    BY <1>1, <1>2, <1>3, <2>1, ReturnFine
  <2> QED BY <1>3, <2>2 DEF Calls!Unanswered
<1>4. CASE ~ (x.operation = "antigravity_models" /\ (why = "cancelled" \/ ~ Calls!HasNextURL(x)))
           /\ why # "cancelled" /\ Calls!HasNextURL(x)
  <2>1. x.operation \in Calls!OverBaseURLs /\ x.upstream < BaseURLs
    BY <1>4 DEF Calls!HasNextURL
  <2>2. Calls!NextURL(x) # Calls!NextAttempt(x)
    <3>1. Calls!NextURL(x).attempt = x.attempt /\ Calls!NextAttempt(x).attempt = x.attempt + 1
          /\ x.attempt \in Nat
      BY DEF Calls!NextURL, Calls!NextAttempt, GivenUp, CallRec, Calls!BoundsAssumption
    <3> QED BY <3>1
  <2>3. CallFine(Calls!NextURL(x))
    BY <1>1, <1>4, <2>1, <2>2, AgainFine
  <2> QED BY <1>4, <2>3 DEF Calls!Unanswered
<1>5. CASE ~ (x.operation = "antigravity_models" /\ (why = "cancelled" \/ ~ Calls!HasNextURL(x)))
           /\ ~ (why # "cancelled" /\ Calls!HasNextURL(x))
  <2>1. x.operation \in Tried /\ why = "unreachable" => x.upstream = BaseURLs
    BY <1>1, <1>5 DEF Calls!HasNextURL, Tried
  <2>2. CallFine(Calls!Return(x, why))
    BY <1>1, <1>2, <2>1, ReturnFine
  <2> QED BY <1>5, <2>2 DEF Calls!Unanswered
<1> QED BY <1>3, <1>4, <1>5

(* The steps of a call.                                                     *)
LEMMA NewCallFine ==
    ASSUME Calls!BoundsAssumption, NEW o \in Calls!Operations
    PROVE  CallFine(Calls!NewCall(o))
<1> DEFINE d == Calls!NewCall(o)
<1>1. /\ Calls!Steps[o] \in Seq(Calls!StepNames) /\ InOrder(o, Calls!Steps[o])
      /\ Calls!Steps[o] # <<>>
      /\ Calls!Steps[o][1] \in {"refuse", "report", "prepare", "credentials", "token", "tokenize"}
  BY OperationsInOrder DEF Whole
<1>2. /\ 1 \in 1..BaseURLs /\ 0 \in 0..Retries /\ 0 \in 0..MaxLines
      /\ <<>> \in Seq(Calls!Responses \cup Calls!Unheard)
      /\ <<>> \in Seq({"piece", "error", "closed"})
      /\ "none" \in Calls!CallResults
  BY DEF Calls!BoundsAssumption, Calls!CallResults
<1>3. /\ d \in CallRec /\ d.steps = Calls!Steps[o] /\ d.operation = o /\ d.upstream = 1
      /\ d.attempt = 0
      /\ d.outcomes = <<>> /\ d.told = FALSE /\ d.record = "none" /\ d.broken = FALSE
      /\ d.body = "none" /\ d.out = <<>> /\ d.result = "none"
  BY <1>1, <1>2 DEF Calls!NewCall, CallRec
<1> HIDE DEF d
<1>4. AtStep(d) \in {"refuse", "report", "prepare", "credentials", "token", "tokenize"}
  <2>1. Len(Calls!Steps[o]) \in Nat /\ Len(Calls!Steps[o]) >= 1
    BY <1>1
  <2> QED BY <1>1, <1>3, <2>1 DEF AtStep, StepOf
<1>5. /\ Early(d) /\ AtStep(d) \in BeforeAnswer /\ AtStep(d) \notin Heeding
      /\ AtStep(d) \notin {"over", "return", "close"}
  BY <1>4 DEF Early, EarlySteps, BeforeAnswer, Heeding, Calls!StepNames
<1>6. RecordFine(d) /\ BodyFine(d) /\ HeardFine(d)
  BY <1>3, <1>5 DEF RecordFine, BodyFine, HeardFine
<1>7. Len(d.outcomes) = 0 /\ Len(d.out) = 0
  BY <1>3
<1>8. OutFine(d)
  BY <1>3, <1>5, <1>7 DEF OutFine
<1>9. UpFine(d)
  <2>1. d.attempt * BaseURLs + d.upstream = 1
    BY <1>3 DEF Calls!BoundsAssumption
  <2> QED BY <1>3, <1>5, <1>7, <2>1 DEF UpFine
<1>10. CallFine(d)
  BY <1>1, <1>3, <1>6, <1>8, <1>9 DEF CallFine
<1> QED BY <1>10 DEF d

(* Nothing is sent.                                                         *)
LEMMA GiveUpFine ==
    ASSUME Calls!BoundsAssumption, CallFine(kCall), Calls!GiveUp
    PROVE  CallFine(kCall')
<1>1. PICK step \in Calls!Fallible : Calls!At(step)
  BY DEF Calls!GiveUp
<1>2. AtStep(kCall) \in Calls!Fallible
  BY <1>1, AdvancedIs DEF CallFine
<1>3. AtStep(kCall) \notin {"over", "broken", "tail"} /\ AtStep(kCall) \notin OpenSteps
      /\ Early(kCall)
  BY <1>2 DEF Calls!Fallible, OpenSteps, Early, EarlySteps, Calls!StepNames
<1>4. GivenUp(kCall, kCall)
  BY <1>3, SelfGivenUp
<1>5. "cached" \in Calls!CallResults /\ "refused" \in Calls!CallResults
      /\ "refused" \in Calls!Failures
      /\ "cached" \notin Calls!Failures
  BY DEF Calls!CallResults, Calls!Failures, Calls!Unheard
<1>6. CallFine(Calls!Return(kCall, "refused"))
  BY <1>3, <1>4, <1>5, ReturnFine
<1>7. kCall.operation = "antigravity_models" => CallFine(Calls!Return(kCall, "cached"))
  BY <1>3, <1>4, <1>5, ReturnFine
<1> QED BY <1>6, <1>7 DEF Calls!GiveUp

(* checkQwenRateLimit.                                                      *)
LEMMA LimitFine ==
    ASSUME Calls!BoundsAssumption, CallFine(kCall), Calls!Limit
    PROVE  CallFine(kCall')
<1>1. Calls!At("limit") /\ (kCall' = Calls!Advanced \/ kCall' = Calls!Return(kCall, "refused"))
  BY DEF Calls!Limit
<1>2. AtStep(kCall) = "limit"
  BY <1>1, AdvancedIs DEF CallFine
<1>3. AtStep(kCall) \notin {"over", "broken", "tail"} /\ AtStep(kCall) \notin OpenSteps
      /\ Early(kCall)
  BY <1>2 DEF OpenSteps, Early, EarlySteps, Calls!StepNames
<1>4. "refused" \in Calls!CallResults /\ "refused" \in Calls!Failures
  BY DEF Calls!CallResults, Calls!Failures
<1>5. CallFine(Calls!Return(kCall, "refused"))
  BY <1>3, <1>4, SelfGivenUp, ReturnFine
<1>6. kCall' = Calls!Advanced => CallFine(kCall')
  BY <1>1, PassedFine
<1> QED BY <1>1, <1>5, <1>6

(* A request, and what comes back.                                          *)
LEMMA SendFine ==
    ASSUME Calls!BoundsAssumption, CallFine(kCall), Calls!Send
    PROVE  CallFine(kCall')
<1>1. Calls!At("send") /\ kCall \in CallRec /\ AtStep(kCall) = "send"
  BY AdvancedIs DEF Calls!Send, CallFine
<1>2. ASSUME NEW s \in Calls!Responses,
          kCall' = [Calls!Advanced EXCEPT !.outcomes = Append(@, s), !.body = "open"]
      PROVE  CallFine(kCall')
  <2>1. Heard(kCall, s) \in CallRec /\ Heard(kCall, s).outcomes = Append(kCall.outcomes, s)
        /\ TriedSoFar(Heard(kCall, s)) /\ Heard(kCall, s).operation = kCall.operation
        /\ Heard(kCall, s).upstream = kCall.upstream /\ Heard(kCall, s).attempt = kCall.attempt
    BY <1>1, HeardGivenUp DEF GivenUp
  <2>2. /\ Append(kCall.outcomes, s) \in Seq(Calls!Responses \cup Calls!Unheard)
        /\ Append(kCall.outcomes, s) # <<>>
        /\ Append(kCall.outcomes, s)[Len(Append(kCall.outcomes, s))] = s
    BY <1>1 DEF CallRec
  <2>3. /\ kCall' \in CallRec
        /\ kCall'.steps = Tail(kCall.steps) /\ kCall'.operation = kCall.operation
        /\ kCall'.upstream = kCall.upstream /\ kCall'.attempt = kCall.attempt
        /\ kCall'.outcomes = Append(kCall.outcomes, s) /\ kCall'.reported = kCall.reported
        /\ kCall'.record = kCall.record /\ kCall'.told = kCall.told
        /\ kCall'.deferred = kCall.deferred /\ kCall'.body = "open"
        /\ kCall'.broken = kCall.broken /\ kCall'.out = kCall.out /\ kCall'.result = kCall.result
    BY <1>1, <1>2, <2>2, AdvancedIs DEF CallRec
  <2>4. StepTaken(kCall, kCall')
    BY <1>1, <2>3 DEF StepTaken, CallFine
  <2>5. /\ AtStep(kCall') \in {"defer", "check_decoded", "check_read", "check", "read_close",
                            "check_base_read"}
        /\ AtStep(kCall') = "check" => NextStep(kCall') = "spawn"
        /\ InOrder(kCall'.operation, kCall'.steps)
    BY <1>1, <2>4, OnwardFacts DEF Goes
  <2>6. RecordFine(kCall') /\ OutFine(kCall')
    BY <1>1, <2>3, <2>4, RecordOnward, OutOnward DEF CallFine
  <2>7. BodyFine(kCall')
    BY <2>5 DEF BodyFine, OpenSteps
  <2>8. HeardFine(kCall')
    BY <2>2, <2>3 DEF HeardFine
  <2>9. UpFine(kCall')
    <3>1. AtStep(kCall') \in Heeding /\ AtStep(kCall') \notin BeforeAnswer
          /\ AtStep(kCall') # "over"
      BY <2>5 DEF Heeding, BeforeAnswer
    <3>2. TriedSoFar(kCall')
      BY <2>1, <2>3 DEF TriedSoFar
    <3> QED BY <3>1, <3>2 DEF UpFine, TriedSoFar
  <2> QED BY <2>3, <2>5, <2>6, <2>7, <2>8, <2>9 DEF CallFine
<1>3. ASSUME NEW why \in {"unreachable", "cancelled"},
          kCall' = Calls!Unanswered(Heard(kCall, why), why)
      PROVE  CallFine(kCall')
  <2>1. /\ why \in Calls!Unheard /\ why \in Calls!Responses \cup Calls!Unheard
        /\ why # "cancelled" => why \in Reasons(kCall.operation)
    BY DEF Calls!Unheard, Reasons
  <2>2. /\ GivenUp(kCall, Heard(kCall, why)) /\ Early(kCall)
        /\ Heard(kCall, why).operation = kCall.operation
        /\ kCall.operation \in Tried /\ why \in Reasons(kCall.operation)
           => \A i \in 1..Len(Heard(kCall, why).outcomes) :
                 Heard(kCall, why).outcomes[i] \in Reasons(kCall.operation)
    BY <1>1, <2>1, HeardGivenUp
  <2> QED BY <1>3, <2>1, <2>2, UnansweredFine
<1> QED BY <1>2, <1>3 DEF Calls!Send, Heard

(* The same through the relay.                                              *)
LEMMA SendByRelayFine ==
    ASSUME Calls!BoundsAssumption, CallFine(kCall), Calls!SendByRelay
    PROVE  CallFine(kCall')
<1>1. Calls!At("relay") /\ kCall \in CallRec /\ AtStep(kCall) = "relay"
  BY AdvancedIs DEF Calls!SendByRelay, CallFine
<1>2. CASE kCall' = [Calls!Advanced EXCEPT !.outcomes = Append(@, "ok")]
  <2>1. Append(kCall.outcomes, "ok") \in Seq(Calls!Responses \cup Calls!Unheard)
    BY <1>1 DEF CallRec, Calls!Responses
  <2>3. /\ kCall' \in CallRec
        /\ kCall'.steps = Tail(kCall.steps) /\ kCall'.operation = kCall.operation
        /\ kCall'.upstream = kCall.upstream /\ kCall'.attempt = kCall.attempt
        /\ kCall'.reported = kCall.reported
        /\ kCall'.record = kCall.record /\ kCall'.told = kCall.told
        /\ kCall'.deferred = kCall.deferred /\ kCall'.body = kCall.body
        /\ kCall'.broken = kCall.broken /\ kCall'.out = kCall.out /\ kCall'.result = kCall.result
    BY <1>1, <1>2, <2>1, AdvancedIs DEF CallRec
  <2>4. StepTaken(kCall, kCall')
    BY <1>1, <2>3 DEF StepTaken, CallFine
  <2>5. /\ AtStep(kCall') \in {"usage", "spawn", "total"} /\ kCall'.operation \notin Tried
        /\ InOrder(kCall'.operation, kCall'.steps)
    BY <1>1, <2>3, <2>4, OnwardFacts DEF Goes, Fits, Tried
  <2>6. RecordFine(kCall') /\ OutFine(kCall') /\ BodyFine(kCall')
    BY <1>1, <2>3, <2>4, RecordOnward, OutOnward, BodyOnward DEF CallFine
  <2>7. HeardFine(kCall') /\ UpFine(kCall')
    BY <2>5 DEF HeardFine, Heeding, UpFine
  <2> QED BY <2>3, <2>5, <2>6, <2>7 DEF CallFine
<1>3. ASSUME NEW s \in Calls!Responses \cup Calls!Unheard, NEW r \in Calls!Failures,
          r \in Calls!CallResults,
             kCall' = Calls!Return(Heard(kCall, s), r)
      PROVE  CallFine(kCall')
  <2>1. GivenUp(kCall, Heard(kCall, s)) /\ Early(kCall)
        /\ Heard(kCall, s).operation = kCall.operation
    BY <1>1, HeardGivenUp
  <2>2. kCall.operation \notin Tried
    <3>1. kCall.steps # <<>> /\ kCall.steps \in Seq(Calls!StepNames)
      BY <1>1, HereIs
    <3>2. Fits(kCall.operation, AtStep(kCall), NextStep(kCall))
      BY <3>1, TailInOrder DEF CallFine, AtStep, NextStep
    <3> QED BY <1>1, <3>2 DEF Fits, Tried
  <2>3. r \notin {"none", "stream"}
    BY DEF Calls!Failures, Calls!Unheard
  <2> QED BY <1>3, <2>1, <2>2, <2>3, ReturnFine
<1>4. /\ \A why \in {"unreachable", "cancelled", "error"} :
            why \in Calls!Responses \cup Calls!Unheard /\ why \in Calls!Failures
            /\ why \in Calls!CallResults
      /\ "ok" \in Calls!Responses \cup Calls!Unheard /\ "incomplete" \in Calls!Failures
      /\ "incomplete" \in Calls!CallResults
  BY DEF Calls!Responses, Calls!Unheard, Calls!Failures, Calls!CallResults
<1> QED BY <1>2, <1>3, <1>4 DEF Calls!SendByRelay, Heard

(* The answer's status, where it is looked at.                              *)
LEMMA StatusIs ==
    ASSUME CallFine(kCall), AtStep(kCall) \in Heeding
    PROVE  /\ Calls!Status = kCall.outcomes[Len(kCall.outcomes)]
           /\ Calls!Status \in Calls!Responses
           /\ kCall.outcomes # <<>>
           /\ Calls!Status # "ok" => Calls!Status \in Calls!Failures
                  /\ Calls!Status \in Calls!CallResults
           /\ "unreadable" \in Calls!Failures /\ "unreadable" \in Calls!CallResults
           /\ "unreadable" \in Calls!Unheard
           /\ AtStep(kCall) \notin {"over", "broken", "tail"} /\ Early(kCall)
BY DEF Calls!Status, Calls!Last, CallFine, HeardFine, Calls!Responses, Calls!Failures,
   Calls!CallResults, Calls!Unheard, Heeding, Early,
       EarlySteps, Calls!StepNames

(* The body is closed, and the call given up.                               *)
LEMMA ClosedFails ==
    ASSUME CallFine(kCall), AtStep(kCall) \in Heeding, kCall.operation \notin Tried,
           NEW r \in Calls!Failures, r \in Calls!CallResults, r \notin {"none", "stream"}
    PROVE  CallFine(Calls!Return(Calls!CloseBody(kCall), r))
<1>1. /\ AtStep(kCall) \notin {"over", "broken", "tail"} /\ Early(kCall)
  BY StatusIs
<1>2. GivenUp(kCall, Calls!CloseBody(kCall)) /\ Calls!CloseBody(kCall).operation = kCall.operation
  BY <1>1, ClosedGivenUp
<1> QED BY <1>1, <1>2, ReturnFine

(* Operations with one upstream.                                            *)
LEMMA Untried ==
    ASSUME CallFine(kCall),
           AtStep(kCall) \in {"defer", "check", "check_read", "check_decoded", "decode", "read",
                                       "completed", "total", "alt", "whole", "check_models"}
    PROVE  kCall.operation \notin Tried
<1>1. kCall.steps # <<>> /\ kCall.steps \in Seq(Calls!StepNames)
  BY HereIs DEF CallFine
<1>2. Fits(kCall.operation, AtStep(kCall), NextStep(kCall))
  BY <1>1, TailInOrder DEF CallFine, AtStep, NextStep
<1> QED BY <1>2 DEF Fits, Tried

(* An error status.                                                         *)
LEMMA CheckFine ==
    ASSUME CallFine(kCall), Calls!Check
    PROVE  CallFine(kCall')
<1>1. Calls!At("check") /\ AtStep(kCall) = "check" /\ AtStep(kCall) \in Heeding
  BY AdvancedIs DEF Calls!Check, CallFine, Heeding
<1>2. Calls!Status = "ok" => CallFine(kCall')
  BY <1>1, PassedFine DEF Calls!Check
<1>3. Calls!Status # "ok" => CallFine(kCall')
  <2>1. Calls!Status # "ok" => Calls!Status \in Calls!Failures
            /\ Calls!Status \in Calls!CallResults
                         /\ Calls!Status \notin {"none", "stream"}
    BY <1>1, StatusIs DEF Calls!Responses
  <2>2. Calls!Status # "ok" => CallFine(Calls!Return(Calls!CloseBody(kCall), Calls!Status))
    BY <1>1, <2>1, Untried, ClosedFails
  <2> QED BY <2>2 DEF Calls!Check
<1> QED BY <1>2, <1>3

(* One whose body is read first,                                            *)
LEMMA CheckReadFine ==
    ASSUME CallFine(kCall), Calls!CheckRead
    PROVE  CallFine(kCall')
<1>1. Calls!At("check_read") /\ AtStep(kCall) = "check_read" /\ AtStep(kCall) \in Heeding
  BY AdvancedIs DEF Calls!CheckRead, CallFine, Heeding
<1>2. CASE Calls!Status = "ok"
  <2>1. kCall' = Calls!Advanced
    BY <1>2 DEF Calls!CheckRead
  <2> QED BY <1>1, <2>1, PassedFine
<1>3. CASE Calls!Status # "ok"
  <2>1. PICK r \in {Calls!Status, "unreadable"} : kCall' = Calls!Return(Calls!CloseBody(kCall), r)
    BY <1>3 DEF Calls!CheckRead
  <2>2. r \in Calls!Failures /\ r \in Calls!CallResults /\ r \notin {"none", "stream"}
    BY <1>1, <1>3, <2>1, StatusIs DEF Calls!Responses
  <2> QED BY <1>1, <2>1, <2>2, Untried, ClosedFails
<1> QED BY <1>2, <1>3

(* or decoded.                                                              *)
LEMMA CheckDecodedFine ==
    ASSUME CallFine(kCall), Calls!CheckDecoded
    PROVE  CallFine(kCall')
<1>1. Calls!At("check_decoded") /\ AtStep(kCall) = "check_decoded" /\ AtStep(kCall) \in Heeding
  BY AdvancedIs DEF Calls!CheckDecoded, CallFine, Heeding
<1>2. CASE Calls!Status = "ok"
  <2>1. kCall' = Calls!Advanced
    BY <1>2 DEF Calls!CheckDecoded
  <2> QED BY <1>1, <2>1, PassedFine
<1>3. CASE Calls!Status # "ok"
  <2>1. kCall' = Calls!Return(Calls!CloseBody(kCall), Calls!Status)
    BY <1>3 DEF Calls!CheckDecoded
  <2>2. Calls!Status \in Calls!Failures /\ Calls!Status \in Calls!CallResults
        /\ Calls!Status \notin {"none", "stream"}
    BY <1>1, <1>3, StatusIs DEF Calls!Responses
  <2> QED BY <1>1, <2>1, <2>2, Untried, ClosedFails
<1> QED BY <1>2, <1>3

(* The body of an answer.                                                   *)
LEMMA DecodeFine ==
    ASSUME CallFine(kCall), Calls!Decode
    PROVE  CallFine(kCall')
<1>1. Calls!At("decode") /\ AtStep(kCall) = "decode" /\ AtStep(kCall) \in Heeding
  BY AdvancedIs DEF Calls!Decode, CallFine, Heeding
<1>2. kCall' = Calls!Advanced => CallFine(kCall')
  BY <1>1, PassedFine
<1>3. "unreadable" \in Calls!Failures /\ "unreadable" \in Calls!CallResults
  BY <1>1, StatusIs
<1>4. CallFine(Calls!Return(Calls!CloseBody(kCall), "unreadable"))
  BY <1>1, <1>3, Untried, ClosedFails
<1> QED BY <1>2, <1>4 DEF Calls!Decode

(* All of it is read.                                                       *)
LEMMA ReadFine ==
    ASSUME CallFine(kCall), Calls!Read
    PROVE  CallFine(kCall')
<1>1. Calls!At("read") /\ AtStep(kCall) = "read" /\ AtStep(kCall) \in Heeding
      /\ AtStep(kCall) \notin OpenSteps
  BY AdvancedIs DEF Calls!Read, CallFine, Heeding, OpenSteps
<1>2. kCall' = Calls!Advanced => CallFine(kCall')
  BY <1>1, PassedFine
<1>3. "unreadable" \in Calls!Failures /\ "unreadable" \in Calls!CallResults /\ Early(kCall)
      /\ AtStep(kCall) \notin {"over", "broken", "tail"}
  BY <1>1, StatusIs
<1>4. CallFine(Calls!Return(kCall, "unreadable"))
  BY <1>1, <1>3, Untried, SelfGivenUp, ReturnFine
<1> QED BY <1>2, <1>4 DEF Calls!Read

(* It is closed at once.                                                    *)
LEMMA ReadAndCloseFine ==
    ASSUME Calls!BoundsAssumption, CallFine(kCall), Calls!ReadAndClose
    PROVE  CallFine(kCall')
<1>1. Calls!At("read_close") /\ AtStep(kCall) = "read_close" /\ AtStep(kCall) \in Heeding
      /\ kCall \in CallRec
  BY AdvancedIs DEF Calls!ReadAndClose, CallFine, Heeding
<1>2. /\ "unreadable" \in Calls!Failures /\ "unreadable" \in Calls!CallResults
      /\ "unreadable" \in Calls!Unheard
      /\ Early(kCall) /\ AtStep(kCall) \notin {"over", "broken", "tail"}
  BY <1>1, StatusIs
<1>3. GivenUp(kCall, Calls!CloseBody(kCall)) /\ Calls!CloseBody(kCall).operation = kCall.operation
  BY <1>2, ClosedGivenUp
<1>4. CASE kCall' = Calls!CloseBody(Calls!Advanced)
  <2>1. /\ Calls!Advanced \in CallRec /\ Calls!CloseBody(Calls!Advanced) \in CallRec
        /\ Calls!CloseBody(Calls!Advanced)
               = [Calls!Advanced EXCEPT !.body = Calls!CloseBody(Calls!Advanced).body]
        /\ Calls!CloseBody(Calls!Advanced).body \in {"none", "closed"}
    BY <1>1, AdvancedIs, CloseBodyIs
  <2>2. /\ kCall' \in CallRec /\ kCall' = [Calls!Advanced EXCEPT !.body = kCall'.body]
        /\ kCall'.body # "open"
    BY <1>4, <2>1
  <2>3. /\ kCall'.steps = Calls!Advanced.steps /\ kCall'.operation = Calls!Advanced.operation
        /\ kCall'.upstream = Calls!Advanced.upstream /\ kCall'.attempt = Calls!Advanced.attempt
        /\ kCall'.outcomes = Calls!Advanced.outcomes /\ kCall'.reported = Calls!Advanced.reported
        /\ kCall'.record = Calls!Advanced.record /\ kCall'.told = Calls!Advanced.told
        /\ kCall'.deferred = Calls!Advanced.deferred /\ kCall'.broken = Calls!Advanced.broken
        /\ kCall'.out = Calls!Advanced.out /\ kCall'.result = Calls!Advanced.result
    BY <2>1, <2>2 DEF CallRec
  <2>4. /\ kCall'.steps = Tail(kCall.steps) /\ kCall'.operation = kCall.operation
        /\ kCall'.upstream = kCall.upstream /\ kCall'.attempt = kCall.attempt
        /\ kCall'.outcomes = kCall.outcomes /\ kCall'.reported = kCall.reported
        /\ kCall'.record = kCall.record /\ kCall'.told = kCall.told
        /\ kCall'.deferred = kCall.deferred /\ kCall'.broken = kCall.broken
        /\ kCall'.out = kCall.out /\ kCall'.result = kCall.result
    BY <1>1, <2>3, AdvancedIs
  <2> QED BY <1>1, <2>2, <2>4, OnwardFine
<1>5. kCall.operation = "antigravity_models"
          => CallFine(Calls!Unanswered(Calls!CloseBody(kCall), "unreadable"))
  BY <1>2, <1>3, UnansweredFine DEF Tried
<1>6. CallFine(Calls!Return(Calls!CloseBody(kCall), "unreadable"))
  BY <1>2, <1>3, ReturnFine
<1> QED BY <1>4, <1>5, <1>6 DEF Calls!ReadAndClose

(* An error of antigravity.                                                 *)
LEMMA AllReasons ==
    ASSUME NEW x \in CallRec, TriedSoFar(x), x.operation \in Tried,
           x.outcomes[Len(x.outcomes)] \in Reasons(x.operation)
    PROVE  \A i \in 1..Len(x.outcomes) : x.outcomes[i] \in Reasons(x.operation)
<1>1. Len(x.outcomes) \in Nat
  BY DEF CallRec
<1>2. \A i \in 1..Len(x.outcomes) : i \in 1..(Len(x.outcomes) - 1) \/ i = Len(x.outcomes)
  BY <1>1
<1> QED BY <1>2 DEF TriedSoFar

(* What is done about it.                                                   *)
LEMMA AfterErrorFine ==
    ASSUME Calls!BoundsAssumption, CallFine(kCall),
           AtStep(kCall) \in {"check_base", "check_base_read"},
           NEW x, GivenUp(kCall, x), x.outcomes = kCall.outcomes, Calls!Status # "ok",
           NEW d \in Calls!AfterError(x)
    PROVE  CallFine(d)
<1>1. /\ AtStep(kCall) \in Heeding
      /\ Calls!Status = x.outcomes[Len(x.outcomes)] /\ Calls!Status \in {"quota", "busy", "error"}
      /\ Calls!Status \in Calls!Failures /\ Calls!Status \in Calls!CallResults
      /\ AtStep(kCall) \notin {"over", "broken", "tail"} /\ Early(kCall)
  BY StatusIs DEF Heeding, Calls!Responses
<1>2. x.operation = kCall.operation /\ kCall.operation \in Calls!OverBaseURLs
      /\ kCall.operation \in Tried
  <2>1. kCall.steps # <<>> /\ kCall.steps \in Seq(Calls!StepNames)
    BY HereIs DEF CallFine
  <2>2. Fits(kCall.operation, AtStep(kCall), NextStep(kCall))
    BY <2>1, TailInOrder DEF CallFine, AtStep, NextStep
  <2> QED BY <2>2 DEF Fits, Tried, Calls!OverBaseURLs, GivenUp
<1>3. /\ x \in CallRec /\ TriedSoFar(x) /\ BaseURLs \in Nat /\ Retries \in Nat
      /\ x.upstream \in 1..BaseURLs /\ x.attempt \in 0..Retries
  BY DEF GivenUp, CallRec, Calls!BoundsAssumption
<1>4. Calls!HasNextURL(x) <=> x.upstream < BaseURLs
  BY <1>2 DEF Calls!HasNextURL
<1>5. Calls!Status \in {"quota", "busy"} => \A i \in 1..Len(x.outcomes) :
          x.outcomes[i] \in Reasons(x.operation)
  BY <1>1, <1>2, <1>3, AllReasons DEF Reasons
<1>6. Calls!NextURL(x) # Calls!NextAttempt(x)
  <2>1. Calls!NextURL(x).attempt = x.attempt /\ Calls!NextAttempt(x).attempt = x.attempt + 1
    BY <1>3 DEF Calls!NextURL, Calls!NextAttempt, CallRec
  <2> QED BY <1>3, <2>1
<1>7. Calls!HasNextURL(x) /\ Calls!Status \in {"quota", "busy"} => CallFine(Calls!NextURL(x))
  BY <1>1, <1>2, <1>4, <1>5, <1>6, AgainFine
<1>8. ~ Calls!HasNextURL(x) => x.upstream = BaseURLs
  BY <1>3, <1>4
<1>9. ~ Calls!HasNextURL(x) /\ Calls!Status = "busy"
          /\ x.attempt < Retries => CallFine(Calls!NextAttempt(x))
  BY <1>1, <1>2, <1>5, <1>6, <1>8, AgainFine
<1>10. CallFine(Calls!Return(x, "cancelled"))
  BY <1>1, ReturnFine DEF Calls!Failures, Calls!CallResults, Calls!Unheard
<1>11. /\ Calls!Status = "quota" => ~ Calls!HasNextURL(x)
       /\ Calls!Status = "busy" => \/ x.operation = "antigravity_count"
                                   \/ ~ Calls!HasNextURL(x) /\ ~ (x.attempt < Retries)
       => CallFine(Calls!Return(x, Calls!Status))
  <2> SUFFICES ASSUME /\ Calls!Status = "quota" => ~ Calls!HasNextURL(x)
                      /\ Calls!Status = "busy" => \/ x.operation = "antigravity_count"
                                                  \/ ~ Calls!HasNextURL(x)
                                                         /\ ~ (x.attempt < Retries)
               PROVE  CallFine(Calls!Return(x, Calls!Status))
    OBVIOUS
  <2>1. /\ Calls!Status \in {"quota", "unreachable"} => x.upstream = BaseURLs
        /\ Calls!Status = "busy" /\ x.operation # "antigravity_count"
           => x.upstream = BaseURLs /\ x.attempt = Retries
        /\ Calls!Status # "answer" /\ Calls!Status \notin {"none", "stream"}
    BY <1>1, <1>3, <1>8
  <2> QED BY <1>1, <2>1, ReturnFine
<1> QED BY <1>1, <1>7, <1>9, <1>10, <1>11 DEF Calls!AfterError

(* With the body read,                                                      *)
LEMMA CheckBaseFine ==
    ASSUME Calls!BoundsAssumption, CallFine(kCall), Calls!CheckBase
    PROVE  CallFine(kCall')
<1>1. /\ Calls!At("check_base") /\ AtStep(kCall) = "check_base" /\ AtStep(kCall) \in Heeding
      /\ AtStep(kCall) \notin OpenSteps
  BY AdvancedIs DEF Calls!CheckBase, CallFine, Heeding, OpenSteps
<1>2. CASE Calls!Status = "ok"
  <2>1. kCall' = Calls!Advanced
    BY <1>2 DEF Calls!CheckBase
  <2>2. kCall.outcomes # <<>> /\ kCall.outcomes[Len(kCall.outcomes)] = "ok"
    BY <1>1, <1>2, StatusIs
  <2> QED BY <1>1, <2>1, <2>2, PassedFine
<1>3. CASE Calls!Status # "ok"
  <2>1. kCall' \in Calls!AfterError(kCall)
    BY <1>3 DEF Calls!CheckBase
  <2>2. AtStep(kCall) \notin {"over", "broken", "tail"}
    BY <1>1
  <2> QED BY <1>1, <1>3, <2>1, <2>2, SelfGivenUp, AfterErrorFine
<1> QED BY <1>2, <1>3

(* and without.                                                             *)
LEMMA CheckBaseReadFine ==
    ASSUME Calls!BoundsAssumption, CallFine(kCall), Calls!CheckBaseRead
    PROVE  CallFine(kCall')
<1>1. /\ Calls!At("check_base_read") /\ AtStep(kCall) = "check_base_read"
      /\ AtStep(kCall) \in Heeding
  BY AdvancedIs DEF Calls!CheckBaseRead, CallFine, Heeding
<1>2. CASE Calls!Status = "ok" /\ kCall' = Calls!Advanced
  <2>1. kCall.outcomes # <<>> /\ kCall.outcomes[Len(kCall.outcomes)] = "ok"
    BY <1>1, <1>2, StatusIs
  <2> QED BY <1>1, <1>2, <2>1, PassedFine
<1>3. /\ AtStep(kCall) \notin {"over", "broken", "tail"} /\ Early(kCall)
      /\ Calls!Status \in Calls!Responses /\ Calls!Status = kCall.outcomes[Len(kCall.outcomes)]
  BY <1>1, StatusIs
<1>4. /\ GivenUp(kCall, Calls!CloseBody(kCall))
      /\ Calls!CloseBody(kCall).outcomes = kCall.outcomes
      /\ Calls!CloseBody(kCall).operation = kCall.operation
  BY <1>3, ClosedGivenUp
<1>5. CASE Calls!Status # "ok" /\ kCall' \in Calls!AfterError(Calls!CloseBody(kCall))
  BY <1>1, <1>4, <1>5, AfterErrorFine
<1>6. CASE Calls!Status # "ok"
               /\ \E why \in {"unreadable", "cancelled"} :
                      kCall' = Calls!Unanswered(Calls!CloseBody(kCall), why)
  <2>1. PICK why \in {"unreadable", "cancelled"} :
            kCall' = Calls!Unanswered(Calls!CloseBody(kCall), why)
    BY <1>6
  <2>2. why \in Calls!Unheard
    BY DEF Calls!Unheard
  <2>3. kCall.operation \in {"antigravity_claude", "antigravity_stream"}
    <3>1. kCall.steps # <<>> /\ kCall.steps \in Seq(Calls!StepNames)
      BY <1>1, HereIs DEF CallFine
    <3>2. Fits(kCall.operation, AtStep(kCall), NextStep(kCall))
      BY <3>1, TailInOrder DEF CallFine, AtStep, NextStep
    <3> QED BY <1>1, <3>2 DEF Fits
  <2>4. Calls!CloseBody(kCall) \in CallRec /\ TriedSoFar(Calls!CloseBody(kCall))
    BY <1>4 DEF GivenUp
  <2>5. Calls!CloseBody(kCall).outcomes[Len(Calls!CloseBody(kCall).outcomes)]
            \in Reasons(Calls!CloseBody(kCall).operation)
    BY <1>3, <1>4, <1>6, <2>3 DEF Reasons, Calls!Responses
  <2>6. kCall.operation \in Tried
        => \A i \in 1..Len(Calls!CloseBody(kCall).outcomes) :
              Calls!CloseBody(kCall).outcomes[i] \in Reasons(Calls!CloseBody(kCall).operation)
    BY <1>4, <2>4, <2>5, AllReasons
  <2> QED BY <1>3, <1>4, <2>1, <2>2, <2>6, UnansweredFine
<1> QED BY <1>2, <1>5, <1>6 DEF Calls!CheckBaseRead

(* FetchAntigravityModels.                                                  *)
LEMMA CheckModelsFine ==
    ASSUME Calls!BoundsAssumption, CallFine(kCall), Calls!CheckModels
    PROVE  CallFine(kCall')
<1>1. /\ Calls!At("check_models") /\ AtStep(kCall) = "check_models" /\ AtStep(kCall) \in Heeding
      /\ AtStep(kCall) \notin OpenSteps
  BY AdvancedIs DEF Calls!CheckModels, CallFine, Heeding, OpenSteps
<1>2. kCall' = Calls!Advanced => CallFine(kCall')
  BY <1>1, PassedFine
<1>3. AtStep(kCall) \notin {"over", "broken", "tail"} /\ Early(kCall)
  BY <1>1, StatusIs
<1>4. GivenUp(kCall, kCall)
  BY <1>1, <1>3, SelfGivenUp
<1>5. kCall.operation = "antigravity_models"
  <2>1. kCall.steps # <<>> /\ kCall.steps \in Seq(Calls!StepNames)
    BY <1>1, HereIs DEF CallFine
  <2>2. Fits(kCall.operation, AtStep(kCall), NextStep(kCall))
    BY <2>1, TailInOrder DEF CallFine, AtStep, NextStep
  <2> QED BY <1>1, <2>2 DEF Fits
<1>6. Calls!NextURL(kCall) # Calls!NextAttempt(kCall)
  <2>1. Calls!NextURL(kCall).attempt = kCall.attempt
        /\ Calls!NextAttempt(kCall).attempt = kCall.attempt + 1
        /\ kCall.attempt \in Nat
    BY DEF Calls!NextURL, Calls!NextAttempt, CallFine, CallRec, Calls!BoundsAssumption
  <2> QED BY <2>1
<1>7. Calls!HasNextURL(kCall) => CallFine(Calls!NextURL(kCall))
  BY <1>3, <1>4, <1>5, <1>6, AgainFine DEF Calls!HasNextURL, Calls!OverBaseURLs, Tried
<1>8. CallFine(Calls!Return(kCall, "cached"))
  BY <1>4, <1>5, ReturnFine DEF Calls!CallResults, Calls!Failures, Calls!Unheard, Tried
<1> QED BY <1>2, <1>7, <1>8 DEF Calls!CheckModels

(* The answer in a stream.                                                  *)
LEMMA FindAnswerFine ==
    ASSUME CallFine(kCall), Calls!FindAnswer
    PROVE  CallFine(kCall')
<1>1. PICK step \in {"completed", "total"} : Calls!At(step)
  BY DEF Calls!FindAnswer
<1>2. /\ AtStep(kCall) = step
      /\ AtStep(kCall) \notin {"over", "broken", "tail"} /\ AtStep(kCall) \notin OpenSteps
      /\ Early(kCall)
  BY <1>1, AdvancedIs DEF CallFine, OpenSteps, Early, EarlySteps, Calls!StepNames
<1>3. kCall' = Calls!Advanced => CallFine(kCall')
  BY <1>1, PassedFine
<1>4. kCall.operation \notin Tried
  BY <1>2, Untried
<1>5. CallFine(Calls!Return(kCall, "incomplete"))
  BY <1>2, <1>4, SelfGivenUp, ReturnFine DEF Calls!CallResults, Calls!Failures
<1> QED BY <1>3, <1>5 DEF Calls!FindAnswer

(* Steps that record or send something.                                     *)
LEMMA PublishIs ==
    ASSUME NEW c \in CallRec, NEW found \in BOOLEAN
    PROVE  LET d == Calls!Publish(c, found) IN
           /\ d \in CallRec /\ d.steps = c.steps /\ d.operation = c.operation
           /\ d.upstream = c.upstream /\ d.attempt = c.attempt /\ d.outcomes = c.outcomes
           /\ d.reported = c.reported /\ d.deferred = c.deferred /\ d.body = c.body
           /\ d.broken = c.broken /\ d.out = c.out /\ d.result = c.result
           /\ d.told <=> c.told \/ found
           /\ d.record = IF found /\ c.record = "none" THEN "usage" ELSE c.record
BY DEF Calls!Publish, CallRec

(* So does a call without usage.                                            *)
LEMMA EnsurePublishedIs ==
    ASSUME NEW c \in CallRec
    PROVE  LET d == Calls!EnsurePublished(c) IN
           /\ d \in CallRec /\ d.steps = c.steps /\ d.operation = c.operation
           /\ d.upstream = c.upstream /\ d.attempt = c.attempt /\ d.outcomes = c.outcomes
           /\ d.reported = c.reported /\ d.deferred = c.deferred /\ d.body = c.body
           /\ d.broken = c.broken /\ d.out = c.out /\ d.result = c.result /\ d.told = c.told
           /\ d.record = IF c.record = "none" THEN "empty" ELSE c.record
BY DEF Calls!EnsurePublished, CallRec

(* Pieces are sent on the channel.                                          *)
LEMMA SentIs ==
    ASSUME NEW c \in CallRec, NEW pieces \in 0..1
    PROVE  LET d == Calls!Sent(c, pieces) IN
           /\ d \in CallRec /\ d.steps = c.steps /\ d.operation = c.operation
           /\ d.upstream = c.upstream /\ d.attempt = c.attempt /\ d.outcomes = c.outcomes
           /\ d.reported = c.reported /\ d.deferred = c.deferred /\ d.body = c.body
           /\ d.broken = c.broken /\ d.result = c.result /\ d.told = c.told /\ d.record = c.record
           /\ \A i \in 1..Len(d.out) : d.out[i] = "piece"
                  \/ (i \in 1..Len(c.out) /\ d.out[i] = c.out[i])
<1> DEFINE add == [i \in 1..pieces |-> "piece"]
           all == c.out \o add
<1>1. c.out \in Seq({"piece", "error", "closed"})
  BY DEF CallRec
<1>2. add \in Seq({"piece", "error", "closed"}) /\ \A i \in 1..Len(add) : add[i] = "piece"
  OBVIOUS
<1> HIDE DEF add
<1>3. /\ all \in Seq({"piece", "error", "closed"}) /\ Len(all) = Len(c.out) + Len(add)
      /\ \A i \in 1..Len(all) : all[i] = IF i <= Len(c.out) THEN c.out[i] ELSE add[i - Len(c.out)]
      /\ Len(c.out) \in Nat /\ Len(add) \in Nat
  BY <1>1, <1>2
<1>4. \A i \in 1..Len(all) : all[i] = "piece" \/ (i \in 1..Len(c.out) /\ all[i] = c.out[i])
  <2> SUFFICES ASSUME NEW i \in 1..Len(all)
               PROVE  all[i] = "piece" \/ (i \in 1..Len(c.out) /\ all[i] = c.out[i])
    OBVIOUS
  <2>1. i <= Len(c.out) => i \in 1..Len(c.out)
    BY <1>3
  <2>2. ~ (i <= Len(c.out)) => i - Len(c.out) \in 1..Len(add)
    BY <1>3
  <2> QED BY <1>2, <1>3, <2>1, <2>2
<1>5. Calls!Sent(c, pieces) = [c EXCEPT !.out = all]
  BY DEF Calls!Sent, add
<1> HIDE DEF all
<1>6. Calls!Sent(c, pieces).out = all /\ Calls!Sent(c, pieces) \in CallRec
  BY <1>3, <1>5 DEF CallRec
<1>7. LET d == Calls!Sent(c, pieces) IN
      /\ d.steps = c.steps /\ d.operation = c.operation
      /\ d.upstream = c.upstream /\ d.attempt = c.attempt /\ d.outcomes = c.outcomes
      /\ d.reported = c.reported /\ d.deferred = c.deferred /\ d.body = c.body
      /\ d.broken = c.broken /\ d.result = c.result /\ d.told = c.told /\ d.record = c.record
  BY <1>5 DEF CallRec
<1> QED BY <1>4, <1>6, <1>7

(* The usage of an answer.                                                  *)
LEMMA UseUsageFine ==
    ASSUME CallFine(kCall), Calls!UseUsage
    PROVE  CallFine(kCall')
<1>1. Calls!At("usage") /\ kCall \in CallRec /\ AtStep(kCall) = "usage"
  BY AdvancedIs DEF Calls!UseUsage, CallFine
<1>2. PICK found \in IF kCall.operation = "antigravity_claude" THEN {kCall.told} ELSE BOOLEAN :
        kCall' = Calls!Publish(Calls!Advanced, found)
  BY DEF Calls!UseUsage
<1>3. found \in BOOLEAN
  BY <1>1 DEF CallRec
<1>4. /\ kCall' \in CallRec
      /\ kCall'.steps = Tail(kCall.steps) /\ kCall'.operation = kCall.operation
      /\ kCall'.upstream = kCall.upstream /\ kCall'.attempt = kCall.attempt
      /\ kCall'.outcomes = kCall.outcomes /\ kCall'.reported = kCall.reported
      /\ kCall'.deferred = kCall.deferred /\ kCall'.body = kCall.body
      /\ kCall'.broken = kCall.broken /\ kCall'.out = kCall.out /\ kCall'.result = kCall.result
      /\ kCall'.told <=> kCall.told \/ found
      /\ kCall'.record = IF found /\ kCall.record = "none" THEN "usage" ELSE kCall.record
  <2>1. Calls!Advanced \in CallRec
    BY <1>1, AdvancedIs
  <2> QED BY <1>1, <1>2, <1>3, <2>1, AdvancedIs, PublishIs
<1>5. StepTaken(kCall, kCall')
  BY <1>1, <1>4 DEF StepTaken, CallFine
<1>6. /\ AtStep(kCall') \in {"ensure", "return"} /\ InOrder(kCall'.operation, kCall'.steps)
      /\ AtStep(kCall') = "return" => kCall.operation \notin Calls!Ensuring
  BY <1>1, <1>5, OnwardFacts DEF Goes, Fits
<1>7. RecordFine(kCall')
  <2>1. CASE kCall.operation = "antigravity_claude"
    <3>1. kCall'.told = kCall.told /\ kCall'.record = kCall.record
      BY <1>1, <1>2, <1>4, <2>1 DEF CallFine, RecordFine, CallRec
    <3> QED BY <1>1, <1>4, <1>5, <3>1, RecordOnward DEF CallFine
  <2>2. CASE kCall.operation # "antigravity_claude"
    <3>1. Early(kCall) /\ ~ kCall.broken /\ kCall.record \in {"none", "usage"}
      BY <1>1, <2>2 DEF Early, CallFine, RecordFine
    <3> QED BY <1>1, <1>4, <1>6, <3>1 DEF CallFine, RecordFine
  <2> QED BY <2>1, <2>2
<1>8. BodyFine(kCall') /\ OutFine(kCall') /\ HeardFine(kCall') /\ UpFine(kCall')
  BY <1>1, <1>4, <1>5, BodyOnward, OutOnward, HeardOnward, UpOnward DEF CallFine
<1> QED BY <1>4, <1>6, <1>7, <1>8 DEF CallFine

(* ensurePublished.                                                         *)
LEMMA EnsureFine ==
    ASSUME CallFine(kCall), Calls!Ensure
    PROVE  CallFine(kCall')
<1>1. PICK step \in {"ensure", "ensure_whole"} : Calls!At(step)
  BY DEF Calls!Ensure
<1>2. kCall \in CallRec /\ AtStep(kCall) = step /\ ~ Early(kCall)
  BY <1>1, AdvancedIs DEF CallFine, Early, EarlySteps
<1>3. CASE kCall' = Calls!Advanced /\ kCall.broken
  <2>1. kCall.record \in {"failure", "usage"}
    BY <1>2, <1>3 DEF CallFine, RecordFine
  <2> QED BY <1>1, <1>3, <2>1, PassedFine
<1>4. CASE kCall' = Calls!EnsurePublished(Calls!Advanced)
  <2>1. /\ kCall' \in CallRec
        /\ kCall'.steps = Tail(kCall.steps) /\ kCall'.operation = kCall.operation
        /\ kCall'.upstream = kCall.upstream /\ kCall'.attempt = kCall.attempt
        /\ kCall'.outcomes = kCall.outcomes /\ kCall'.reported = kCall.reported
        /\ kCall'.deferred = kCall.deferred /\ kCall'.body = kCall.body
        /\ kCall'.broken = kCall.broken /\ kCall'.out = kCall.out /\ kCall'.result = kCall.result
        /\ kCall'.told = kCall.told
        /\ kCall'.record = IF kCall.record = "none" THEN "empty" ELSE kCall.record
    <3>1. Calls!Advanced \in CallRec
      BY <1>1, <1>2, AdvancedIs
    <3> QED BY <1>1, <1>2, <1>4, <3>1, AdvancedIs, EnsurePublishedIs
  <2>2. StepTaken(kCall, kCall')
    BY <1>1, <1>2, <2>1 DEF StepTaken, CallFine
  <2>3. AtStep(kCall') \in {"close_body", "close", "return"}
        /\ InOrder(kCall'.operation, kCall'.steps)
    BY <1>2, <2>2, OnwardFacts DEF Goes
  <2>4. ~ Early(kCall')
    BY <2>3 DEF Early, EarlySteps
  <2>5. RecordFine(kCall')
    BY <1>2, <2>1, <2>3, <2>4 DEF CallFine, RecordFine
  <2>6. BodyFine(kCall') /\ OutFine(kCall') /\ HeardFine(kCall') /\ UpFine(kCall')
    BY <1>2, <2>1, <2>2, BodyOnward, OutOnward, HeardOnward, UpOnward DEF CallFine
  <2> QED BY <2>1, <2>3, <2>5, <2>6 DEF CallFine
<1> QED BY <1>3, <1>4 DEF Calls!Ensure

(* The answer is returned.                                                  *)
LEMMA ReturnAnswerFine ==
    ASSUME CallFine(kCall), Calls!ReturnAnswer
    PROVE  CallFine(kCall')
<1>1. Calls!At("return") /\ AtStep(kCall) = "return" /\ kCall' = Calls!Return(kCall, "answer")
  BY AdvancedIs DEF Calls!ReturnAnswer, CallFine
<1>2. AtStep(kCall) \notin {"over", "broken", "tail"} /\ AtStep(kCall) \notin OpenSteps
      /\ AtStep(kCall) \notin BeforeAnswer \cup Heeding \cup {"over"}
  BY <1>1 DEF OpenSteps, BeforeAnswer, Heeding
<1>3. kCall.operation \in Tried => kCall.outcomes[Len(kCall.outcomes)] = "ok"
  BY <1>2 DEF CallFine, UpFine
<1>4. "answer" \in Calls!CallResults /\ "answer" \notin Calls!Failures
  BY DEF Calls!CallResults, Calls!Failures, Calls!Unheard
<1> QED BY <1>1, <1>2, <1>3, <1>4, SelfGivenUp, ReturnFine

(* Streams.                                                                 *)
LEMMA ReadLineFine ==
    ASSUME Calls!BoundsAssumption, CallFine(kCall), Calls!ReadLine
    PROVE  CallFine(kCall')
<1>1. Calls!At("lines") /\ kCall \in CallRec /\ AtStep(kCall) = "lines" /\ AtStep(kCall) # "over"
  BY AdvancedIs DEF Calls!ReadLine, CallFine
<1>2. PICK found \in BOOLEAN, pieces \in 0..1 :
        kCall' = Calls!Sent(Calls!Publish([kCall EXCEPT !.lines = @ + 1], found), pieces)
  BY DEF Calls!ReadLine
<1> DEFINE more == [kCall EXCEPT !.lines = @ + 1]
<1>3. /\ more \in CallRec /\ more.steps = kCall.steps /\ more.operation = kCall.operation
      /\ more.upstream = kCall.upstream /\ more.attempt = kCall.attempt
      /\ more.outcomes = kCall.outcomes /\ more.reported = kCall.reported
      /\ more.deferred = kCall.deferred /\ more.body = kCall.body
      /\ more.broken = kCall.broken /\ more.out = kCall.out /\ more.result = kCall.result
      /\ more.told = kCall.told /\ more.record = kCall.record
  <2>1. kCall.lines + 1 \in 0..MaxLines
    BY <1>1 DEF Calls!ReadLine, CallRec, Calls!BoundsAssumption
  <2> QED BY <1>1, <2>1 DEF CallRec
<1> HIDE DEF more
<1> DEFINE told == Calls!Publish(more, found)
<1>4. /\ told \in CallRec /\ told.steps = kCall.steps /\ told.operation = kCall.operation
      /\ told.upstream = kCall.upstream /\ told.attempt = kCall.attempt
      /\ told.outcomes = kCall.outcomes /\ told.reported = kCall.reported
      /\ told.deferred = kCall.deferred /\ told.body = kCall.body
      /\ told.broken = kCall.broken /\ told.out = kCall.out /\ told.result = kCall.result
      /\ told.told <=> kCall.told \/ found
      /\ told.record = IF found /\ kCall.record = "none" THEN "usage" ELSE kCall.record
  BY <1>2, <1>3, PublishIs
<1> HIDE DEF told
<1>5. /\ kCall' \in CallRec /\ kCall'.steps = kCall.steps /\ kCall'.operation = kCall.operation
      /\ kCall'.upstream = kCall.upstream /\ kCall'.attempt = kCall.attempt
      /\ kCall'.outcomes = kCall.outcomes /\ kCall'.reported = kCall.reported
      /\ kCall'.deferred = kCall.deferred /\ kCall'.body = kCall.body
      /\ kCall'.broken = kCall.broken /\ kCall'.result = kCall.result
      /\ kCall'.told <=> kCall.told \/ found
      /\ kCall'.record = IF found /\ kCall.record = "none" THEN "usage" ELSE kCall.record
      /\ \A i \in 1..Len(kCall'.out) :
            kCall'.out[i] = "piece" \/ (i \in 1..Len(kCall.out) /\ kCall'.out[i] = kCall.out[i])
  <2>1. kCall' = Calls!Sent(told, pieces)
    BY <1>2 DEF told, more
  <2>2. /\ kCall' \in CallRec /\ kCall'.steps = told.steps /\ kCall'.operation = told.operation
        /\ kCall'.upstream = told.upstream /\ kCall'.attempt = told.attempt
        /\ kCall'.outcomes = told.outcomes /\ kCall'.reported = told.reported
        /\ kCall'.deferred = told.deferred /\ kCall'.body = told.body
        /\ kCall'.broken = told.broken /\ kCall'.result = told.result
        /\ kCall'.told = told.told /\ kCall'.record = told.record
        /\ \A i \in 1..Len(kCall'.out) :
              kCall'.out[i] = "piece" \/ (i \in 1..Len(told.out) /\ kCall'.out[i] = told.out[i])
    <3>1. pieces \in 0..1 /\ told \in CallRec
      BY <1>4
    <3> QED BY <2>1, <3>1, SentIs
  <2> QED BY <1>4, <2>2
<1>6. AtStep(kCall') = "lines" /\ NextStep(kCall') = NextStep(kCall)
      /\ InOrder(kCall'.operation, kCall'.steps)
  BY <1>1, <1>5 DEF AtStep, NextStep, CallFine
<1>7. Early(kCall) /\ Early(kCall')
  BY <1>1, <1>6 DEF Early, EarlySteps, Calls!StepNames
<1>8. kCall.record \in {"none", "usage"} /\ ~ kCall.broken
  BY <1>1, <1>7 DEF CallFine, RecordFine
<1>9. RecordFine(kCall')
  BY <1>1, <1>5, <1>6, <1>8 DEF CallFine, RecordFine
<1>10. BodyFine(kCall') /\ HeardFine(kCall')
  BY <1>1, <1>5, <1>6 DEF CallFine, BodyFine, HeardFine, Heeding
<1>11. OutFine(kCall')
  <2>1. \A i \in 1..Len(kCall'.out) : kCall'.out[i] # "error"
    BY <1>5, <1>7 DEF CallFine, OutFine
  <2>2. kCall'.operation # "antigravity_claude" => \A i \in 1..Len(kCall'.out) :
            kCall'.out[i] # "closed"
    BY <1>1, <1>5 DEF CallFine, OutFine
  <2> QED BY <1>6, <1>7, <2>1, <2>2 DEF OutFine
<1>12. UpFine(kCall')
  <2>1. AtStep(kCall') \notin BeforeAnswer \cup Heeding \cup {"over"}
        /\ AtStep(kCall) = AtStep(kCall')
    BY <1>1, <1>6 DEF BeforeAnswer, Heeding
  <2> QED BY <1>5, <2>1 DEF CallFine, UpFine
<1> QED BY <1>5, <1>6, <1>9, <1>10, <1>11, <1>12 DEF CallFine

(* The stream ends or breaks off.                                           *)
LEMMA EndOfLinesFine ==
    ASSUME CallFine(kCall), Calls!EndOfLines
    PROVE  CallFine(kCall')
<1>1. Calls!At("lines") /\ kCall \in CallRec /\ AtStep(kCall) = "lines"
  BY AdvancedIs DEF Calls!EndOfLines, CallFine
<1>2. PICK failed \in BOOLEAN : kCall' = [Calls!Advanced EXCEPT !.broken = failed]
  BY DEF Calls!EndOfLines
<1>3. /\ kCall' \in CallRec
      /\ kCall'.steps = Tail(kCall.steps) /\ kCall'.operation = kCall.operation
      /\ kCall'.upstream = kCall.upstream /\ kCall'.attempt = kCall.attempt
      /\ kCall'.outcomes = kCall.outcomes /\ kCall'.reported = kCall.reported
      /\ kCall'.record = kCall.record /\ kCall'.told = kCall.told
      /\ kCall'.deferred = kCall.deferred /\ kCall'.body = kCall.body
      /\ kCall'.out = kCall.out /\ kCall'.result = kCall.result
  BY <1>1, <1>2, AdvancedIs DEF CallRec
<1>4. StepTaken(kCall, kCall')
  BY <1>1, <1>3 DEF StepTaken, CallFine
<1>5. /\ AtStep(kCall') \in {"tail", "broken"}
      /\ AtStep(kCall') = "tail" => NextStep(kCall') = "broken"
      /\ InOrder(kCall'.operation, kCall'.steps)
  BY <1>1, <1>4, OnwardFacts DEF Goes
<1>6. Early(kCall) /\ Early(kCall')
  BY <1>1, <1>5 DEF Early, EarlySteps, Calls!StepNames
<1>7. RecordFine(kCall')
  BY <1>1, <1>3, <1>5, <1>6 DEF CallFine, RecordFine
<1>8. OutFine(kCall')
  BY <1>1, <1>3, <1>5, <1>6 DEF CallFine, OutFine
<1>9. BodyFine(kCall') /\ HeardFine(kCall') /\ UpFine(kCall')
  BY <1>1, <1>3, <1>4, BodyOnward, HeardOnward, UpOnward DEF CallFine
<1> QED BY <1>3, <1>5, <1>7, <1>8, <1>9 DEF CallFine

(* [DONE].                                                                  *)
LEMMA SendTailFine ==
    ASSUME CallFine(kCall), Calls!SendTail
    PROVE  CallFine(kCall')
<1>1. Calls!At("tail") /\ kCall \in CallRec /\ AtStep(kCall) = "tail"
  BY AdvancedIs DEF Calls!SendTail, CallFine
<1>2. PICK pieces \in 0..1 : kCall' = Calls!Sent(Calls!Advanced, pieces)
  BY DEF Calls!SendTail
<1>3. /\ kCall' \in CallRec
      /\ kCall'.steps = Tail(kCall.steps) /\ kCall'.operation = kCall.operation
      /\ kCall'.upstream = kCall.upstream /\ kCall'.attempt = kCall.attempt
      /\ kCall'.outcomes = kCall.outcomes /\ kCall'.reported = kCall.reported
      /\ kCall'.record = kCall.record /\ kCall'.told = kCall.told
      /\ kCall'.deferred = kCall.deferred /\ kCall'.body = kCall.body
      /\ kCall'.broken = kCall.broken /\ kCall'.result = kCall.result
      /\ \A i \in 1..Len(kCall'.out) :
            kCall'.out[i] = "piece" \/ (i \in 1..Len(kCall.out) /\ kCall'.out[i] = kCall.out[i])
  <2>1. Calls!Advanced \in CallRec
    BY <1>1, AdvancedIs
  <2> QED BY <1>1, <1>2, <2>1, AdvancedIs, SentIs
<1>4. StepTaken(kCall, kCall')
  BY <1>1, <1>3 DEF StepTaken, CallFine
<1>5. /\ AtStep(kCall') \in {"broken", "close"} /\ AtStep(kCall') = NextStep(kCall)
      /\ InOrder(kCall'.operation, kCall'.steps)
  BY <1>1, <1>4, OnwardFacts DEF Goes
<1>6. Early(kCall) /\ (AtStep(kCall') = "broken" <=> Early(kCall'))
  BY <1>1, <1>5 DEF Early, EarlySteps, Calls!StepNames
<1>7. AtStep(kCall') = "close" => ~ kCall.broken
  BY <1>1, <1>5, <1>6 DEF CallFine, RecordFine
<1>8. OutFine(kCall')
  <2>1. \A i \in 1..Len(kCall'.out) : kCall'.out[i] # "error"
    BY <1>3, <1>6 DEF CallFine, OutFine
  <2>2. kCall'.operation # "antigravity_claude" => \A i \in 1..Len(kCall'.out) :
            kCall'.out[i] # "closed"
    BY <1>1, <1>3 DEF CallFine, OutFine
  <2> QED BY <1>3, <1>5, <1>6, <1>7, <2>1, <2>2 DEF OutFine
<1>9. RecordFine(kCall') /\ BodyFine(kCall') /\ HeardFine(kCall') /\ UpFine(kCall')
  BY <1>1, <1>3, <1>4, RecordOnward, BodyOnward, HeardOnward, UpOnward DEF CallFine
<1> QED BY <1>3, <1>5, <1>8, <1>9 DEF CallFine

(* The error is told on the channel.                                        *)
LEMMA TellBrokenFine ==
    ASSUME CallFine(kCall), Calls!TellBroken
    PROVE  CallFine(kCall')
<1>1. Calls!At("broken") /\ kCall \in CallRec /\ AtStep(kCall) = "broken"
  BY AdvancedIs DEF Calls!TellBroken, CallFine
<1>2. CASE ~ kCall.broken
  <2>1. kCall' = Calls!Advanced
    BY <1>2 DEF Calls!TellBroken
  <2> QED BY <1>1, <1>2, <2>1, PassedFine
<1>3. CASE kCall.broken
  <2>1. kCall' = [Calls!PublishFailure(Calls!Advanced) EXCEPT !.out = Append(@, "error")]
    BY <1>3 DEF Calls!TellBroken
  <2> DEFINE told == Calls!PublishFailure(Calls!Advanced)
  <2>2. /\ told \in CallRec
        /\ told.steps = Tail(kCall.steps) /\ told.operation = kCall.operation
        /\ told.upstream = kCall.upstream /\ told.attempt = kCall.attempt
        /\ told.outcomes = kCall.outcomes /\ told.reported = kCall.reported
        /\ told.deferred = kCall.deferred /\ told.body = kCall.body /\ told.told = kCall.told
        /\ told.broken = kCall.broken /\ told.result = kCall.result /\ told.out = kCall.out
        /\ told.record = IF kCall.record = "none" THEN "failure" ELSE kCall.record
    <3>1. Calls!Advanced \in CallRec
      BY <1>1, AdvancedIs
    <3> QED BY <1>1, <3>1, AdvancedIs, PublishFailureIs
  <2>3. kCall' = [told EXCEPT !.out = Append(@, "error")]
    BY <2>1
  <2> HIDE DEF told
  <2>4. /\ Append(kCall.out, "error") \in Seq({"piece", "error", "closed"})
        /\ Len(Append(kCall.out, "error")) = Len(kCall.out) + 1
        /\ Append(kCall.out, "error")[Len(kCall.out) + 1] = "error"
        /\ \A i \in 1..Len(kCall.out) : Append(kCall.out, "error")[i] = kCall.out[i]
        /\ Len(kCall.out) \in Nat
    BY <1>1 DEF CallRec
  <2>5. /\ kCall' \in CallRec
        /\ kCall'.steps = Tail(kCall.steps) /\ kCall'.operation = kCall.operation
        /\ kCall'.upstream = kCall.upstream /\ kCall'.attempt = kCall.attempt
        /\ kCall'.outcomes = kCall.outcomes /\ kCall'.reported = kCall.reported
        /\ kCall'.deferred = kCall.deferred /\ kCall'.body = kCall.body
        /\ kCall'.told = kCall.told
        /\ kCall'.broken /\ kCall'.result = kCall.result
        /\ kCall'.out = Append(kCall.out, "error")
        /\ kCall'.record = IF kCall.record = "none" THEN "failure" ELSE kCall.record
    BY <1>3, <2>2, <2>3, <2>4 DEF CallRec
  <2>6. StepTaken(kCall, kCall')
    BY <1>1, <2>5 DEF StepTaken, CallFine
  <2>7. AtStep(kCall') \in {"ensure", "ensure_whole", "close"}
        /\ InOrder(kCall'.operation, kCall'.steps)
    BY <1>1, <2>6, OnwardFacts DEF Goes
  <2>8. Early(kCall) /\ ~ Early(kCall') /\ kCall.record \in {"none", "usage"}
    BY <1>1, <2>7 DEF Early, EarlySteps, Calls!StepNames, CallFine, RecordFine
  <2>9. RecordFine(kCall')
    BY <1>1, <2>5, <2>7, <2>8 DEF CallFine, RecordFine
  <2>10. OutFine(kCall')
    <3>1. \A i \in 1..Len(kCall'.out) : i \in 1..Len(kCall.out) \/ i = Len(kCall'.out)
      BY <2>4, <2>5
    <3>2. Len(kCall'.out) \in 1..Len(kCall'.out) /\ kCall'.out[Len(kCall'.out)] = "error"
      BY <2>4, <2>5
    <3>3. kCall'.operation # "antigravity_claude" => \A i \in 1..Len(kCall'.out) :
              kCall'.out[i] # "closed"
      BY <1>1, <2>4, <2>5, <3>1, <3>2 DEF CallFine, OutFine
    <3>4. \A i \in 1..Len(kCall'.out) : kCall'.out[i] = "error" => i = Len(kCall'.out)
      BY <2>4, <2>5, <2>8, <3>1 DEF CallFine, OutFine
    <3> QED BY <2>5, <2>7, <2>8, <3>2, <3>3, <3>4 DEF OutFine
  <2>11. BodyFine(kCall') /\ HeardFine(kCall') /\ UpFine(kCall')
    BY <1>1, <1>3, <2>5, <2>6, BodyOnward, HeardOnward, UpOnward DEF CallFine
  <2> QED BY <2>5, <2>7, <2>9, <2>10, <2>11 DEF CallFine
<1> QED BY <1>2, <1>3

(* gemini-cli's other form.                                                 *)
LEMMA WholeInOrder ==
    /\ InOrder("cli_stream", Calls!GeminiCLIWhole)
    /\ Calls!GeminiCLIWhole \in Seq(Calls!StepNames)
    /\ StepOf(Calls!GeminiCLIWhole, 1) = "whole"
    /\ InOrder("cli_stream", <<"close">>) /\ <<"close">> \in Seq(Calls!StepNames)
    /\ StepOf(<<"close">>, 1) = "close"
BY DEF Calls!GeminiCLIWhole, Calls!StepNames, StepOf, InOrder, Goes, Fits, Calls!OverBaseURLs,
   Calls!Ensuring

(* Steps of gemini-cli alone.                                               *)
LEMMA OfGeminiCLI ==
    ASSUME CallFine(kCall), AtStep(kCall) \in {"alt", "whole"}
    PROVE  kCall.operation = "cli_stream" /\ kCall.operation \notin Tried \cup Calls!Ensuring
<1>1. kCall.steps # <<>> /\ kCall.steps \in Seq(Calls!StepNames)
  BY HereIs DEF CallFine
<1>2. Fits(kCall.operation, AtStep(kCall), NextStep(kCall))
  BY <1>1, TailInOrder DEF CallFine, AtStep, NextStep
<1> QED BY <1>2 DEF Fits, Tried, Calls!OverBaseURLs, Calls!Ensuring

(* Events, or the whole answer at once.                                     *)
LEMMA ChooseFormFine ==
    ASSUME CallFine(kCall), Calls!ChooseForm
    PROVE  CallFine(kCall')
<1>1. Calls!At("alt") /\ kCall \in CallRec /\ AtStep(kCall) = "alt"
  BY AdvancedIs DEF Calls!ChooseForm, CallFine
<1>2. CASE kCall' = Calls!Advanced
  BY <1>1, <1>2, PassedFine
<1>3. CASE kCall' = [kCall EXCEPT !.steps = Calls!GeminiCLIWhole]
  <2>1. /\ kCall' \in CallRec
        /\ kCall'.steps = Calls!GeminiCLIWhole /\ kCall'.operation = kCall.operation
        /\ kCall'.outcomes = kCall.outcomes /\ kCall'.reported = kCall.reported
        /\ kCall'.record = kCall.record /\ kCall'.told = kCall.told
        /\ kCall'.deferred = kCall.deferred /\ kCall'.body = kCall.body
        /\ kCall'.broken = kCall.broken /\ kCall'.out = kCall.out /\ kCall'.result = kCall.result
    BY <1>1, <1>3, WholeInOrder DEF CallRec
  <2>2. /\ AtStep(kCall') = "whole" /\ InOrder(kCall'.operation, kCall'.steps)
        /\ kCall'.operation \notin Tried \cup Calls!Ensuring
    BY <1>1, <2>1, WholeInOrder, OfGeminiCLI DEF AtStep
  <2>3. Early(kCall) /\ Early(kCall')
    BY <1>1, <2>2 DEF Early, EarlySteps, Calls!StepNames
  <2>4. RecordFine(kCall') /\ BodyFine(kCall') /\ HeardFine(kCall')
    BY <1>1, <2>1, <2>2, <2>3 DEF CallFine, RecordFine, BodyFine, OpenSteps, HeardFine, Heeding
  <2>5. OutFine(kCall') /\ UpFine(kCall')
    BY <1>1, <2>1, <2>2, <2>3 DEF CallFine, OutFine, UpFine
  <2> QED BY <2>1, <2>2, <2>4, <2>5 DEF CallFine
<1> QED BY <1>2, <1>3 DEF Calls!ChooseForm

(* The whole answer.                                                        *)
LEMMA ReadWholeFine ==
    ASSUME CallFine(kCall), Calls!ReadWhole
    PROVE  CallFine(kCall')
<1>1. Calls!At("whole") /\ kCall \in CallRec /\ AtStep(kCall) = "whole"
  BY AdvancedIs DEF Calls!ReadWhole, CallFine
<1>2. Early(kCall) /\ ~ kCall.broken /\ kCall.record \in {"none", "usage"}
  BY <1>1 DEF Early, EarlySteps, Calls!StepNames, CallFine, RecordFine
<1>3. ASSUME NEW found \in BOOLEAN, NEW pieces \in 0..1,
             kCall' = Calls!Sent(Calls!Publish(Calls!Advanced, found), pieces)
      PROVE  CallFine(kCall')
  <2> DEFINE told == Calls!Publish(Calls!Advanced, found)
  <2>1. /\ told \in CallRec
        /\ told.steps = Tail(kCall.steps) /\ told.operation = kCall.operation
        /\ told.upstream = kCall.upstream /\ told.attempt = kCall.attempt
        /\ told.outcomes = kCall.outcomes /\ told.reported = kCall.reported
        /\ told.deferred = kCall.deferred /\ told.body = kCall.body
        /\ told.broken = kCall.broken /\ told.out = kCall.out /\ told.result = kCall.result
        /\ told.told <=> kCall.told \/ found
        /\ told.record = IF found /\ kCall.record = "none" THEN "usage" ELSE kCall.record
    <3>1. Calls!Advanced \in CallRec
      BY <1>1, AdvancedIs
    <3> QED BY <1>1, <3>1, AdvancedIs, PublishIs
  <2>2. kCall' = Calls!Sent(told, pieces)
    BY <1>3
  <2> HIDE DEF told
  <2>3. /\ kCall' \in CallRec /\ kCall'.steps = told.steps /\ kCall'.operation = told.operation
        /\ kCall'.upstream = told.upstream /\ kCall'.attempt = told.attempt
        /\ kCall'.outcomes = told.outcomes /\ kCall'.reported = told.reported
        /\ kCall'.deferred = told.deferred /\ kCall'.body = told.body
        /\ kCall'.broken = told.broken /\ kCall'.result = told.result
        /\ kCall'.told = told.told /\ kCall'.record = told.record
        /\ \A i \in 1..Len(kCall'.out) :
              kCall'.out[i] = "piece" \/ (i \in 1..Len(told.out) /\ kCall'.out[i] = told.out[i])
    BY <2>1, <2>2, SentIs
  <2>4. StepTaken(kCall, kCall')
    BY <1>1, <2>1, <2>3 DEF StepTaken, CallFine
  <2>5. AtStep(kCall') = "tail" /\ InOrder(kCall'.operation, kCall'.steps)
    BY <1>1, <2>4, OnwardFacts DEF Goes
  <2>6. Early(kCall')
    BY <2>5 DEF Early, EarlySteps, Calls!StepNames
  <2>7. RecordFine(kCall')
    BY <1>1, <1>2, <2>1, <2>3, <2>5, <2>6 DEF CallFine, RecordFine
  <2>8. OutFine(kCall')
    <3>1. \A i \in 1..Len(kCall'.out) : kCall'.out[i] # "error"
      BY <1>2, <2>1, <2>3 DEF CallFine, OutFine
    <3>2. kCall'.operation # "antigravity_claude" => \A i \in 1..Len(kCall'.out) :
              kCall'.out[i] # "closed"
      BY <1>1, <2>1, <2>3 DEF CallFine, OutFine
    <3> QED BY <2>5, <2>6, <3>1, <3>2 DEF OutFine
  <2>9. HeardFine(kCall')
    BY <2>5 DEF HeardFine, Heeding
  <2>10. UpFine(kCall')
    BY <1>1, <2>1, <2>3, OfGeminiCLI DEF UpFine
  <2>11. BodyFine(kCall')
    BY <1>1, <2>1, <2>3, <2>4, BodyOnward DEF CallFine
  <2> QED BY <2>3, <2>5, <2>7, <2>8, <2>9, <2>10, <2>11 DEF CallFine
<1>4. CASE kCall' = [Calls!PublishFailure(kCall) EXCEPT !.steps = <<"close">>, !.broken = TRUE,
                                                !.out = Append(@, "error")]
  <2> DEFINE told == Calls!PublishFailure(kCall)
  <2>1. /\ told \in CallRec
        /\ told.operation = kCall.operation
        /\ told.upstream = kCall.upstream /\ told.attempt = kCall.attempt
        /\ told.outcomes = kCall.outcomes /\ told.reported = kCall.reported
        /\ told.deferred = kCall.deferred /\ told.body = kCall.body /\ told.told = kCall.told
        /\ told.result = kCall.result /\ told.out = kCall.out
        /\ told.record = IF kCall.record = "none" THEN "failure" ELSE kCall.record
    BY <1>1, PublishFailureIs
  <2>2. kCall' = [told EXCEPT !.steps = <<"close">>, !.broken = TRUE, !.out = Append(@, "error")]
    BY <1>4
  <2> HIDE DEF told
  <2>3. /\ Append(kCall.out, "error") \in Seq({"piece", "error", "closed"})
        /\ Len(Append(kCall.out, "error")) = Len(kCall.out) + 1
        /\ Append(kCall.out, "error")[Len(kCall.out) + 1] = "error"
        /\ \A i \in 1..Len(kCall.out) : Append(kCall.out, "error")[i] = kCall.out[i]
        /\ Len(kCall.out) \in Nat
    BY <1>1 DEF CallRec
  <2>4. /\ kCall' \in CallRec
        /\ kCall'.steps = <<"close">> /\ kCall'.operation = kCall.operation
        /\ kCall'.upstream = kCall.upstream /\ kCall'.attempt = kCall.attempt
        /\ kCall'.outcomes = kCall.outcomes /\ kCall'.reported = kCall.reported
        /\ kCall'.deferred = kCall.deferred /\ kCall'.body = kCall.body
        /\ kCall'.told = kCall.told
        /\ kCall'.broken /\ kCall'.result = kCall.result
        /\ kCall'.out = Append(kCall.out, "error")
        /\ kCall'.record = IF kCall.record = "none" THEN "failure" ELSE kCall.record
    BY <2>1, <2>2, <2>3, WholeInOrder DEF CallRec
  <2>5. /\ AtStep(kCall') = "close" /\ InOrder(kCall'.operation, kCall'.steps)
        /\ kCall'.operation \notin Tried \cup Calls!Ensuring
    BY <1>1, <2>4, WholeInOrder, OfGeminiCLI DEF AtStep
  <2>6. ~ Early(kCall')
    BY <2>5 DEF Early, EarlySteps
  <2>7. RecordFine(kCall')
    BY <1>1, <1>2, <2>4, <2>5, <2>6 DEF CallFine, RecordFine
  <2>8. BodyFine(kCall') /\ HeardFine(kCall') /\ UpFine(kCall')
    BY <2>5 DEF BodyFine, OpenSteps, HeardFine, Heeding, UpFine
  <2>9. OutFine(kCall')
    <3>1. \A i \in 1..Len(kCall'.out) : i \in 1..Len(kCall.out) \/ i = Len(kCall'.out)
      BY <2>3, <2>4
    <3>2. Len(kCall'.out) \in 1..Len(kCall'.out) /\ kCall'.out[Len(kCall'.out)] = "error"
      BY <2>3, <2>4
    <3>3. kCall'.operation # "antigravity_claude" => \A i \in 1..Len(kCall'.out) :
              kCall'.out[i] # "closed"
      BY <1>1, <2>3, <2>4, <3>1, <3>2 DEF CallFine, OutFine
    <3>4. \A i \in 1..Len(kCall'.out) : kCall'.out[i] = "error" => i = Len(kCall'.out)
      BY <1>2, <2>3, <2>4, <3>1 DEF CallFine, OutFine
    <3> QED BY <2>4, <2>5, <2>6, <3>2, <3>3, <3>4 DEF OutFine
  <2> QED BY <2>4, <2>5, <2>7, <2>8, <2>9 DEF CallFine
<1> QED BY <1>3, <1>4 DEF Calls!ReadWhole

(* The goroutine returns: the body, then the channel.                       *)
LEMMA CloseStreamFine ==
    ASSUME CallFine(kCall), Calls!CloseStream
    PROVE  CallFine(kCall')
<1>1. PICK step \in {"close", "close_body"} : Calls!At(step)
  BY DEF Calls!CloseStream
<1>2. kCall \in CallRec /\ AtStep(kCall) = step /\ kCall' = Calls!Closed(Calls!Advanced)
  BY <1>1, AdvancedIs DEF Calls!CloseStream, CallFine
<1> DEFINE closed == Calls!CloseBody(Calls!Advanced)
<1>3. /\ closed \in CallRec
      /\ closed = [Calls!Advanced EXCEPT !.body = closed.body]
      /\ closed.body \in {"none", "closed"}
      /\ Calls!Advanced \in CallRec
  BY <1>1, <1>2, AdvancedIs, CloseBodyIs
<1>4. kCall' = [closed EXCEPT !.out = Append(@, "closed")]
  BY <1>2 DEF Calls!Closed
<1> HIDE DEF closed
<1>5. /\ closed.steps = Calls!Advanced.steps /\ closed.operation = Calls!Advanced.operation
      /\ closed.upstream = Calls!Advanced.upstream /\ closed.attempt = Calls!Advanced.attempt
      /\ closed.outcomes = Calls!Advanced.outcomes /\ closed.reported = Calls!Advanced.reported
      /\ closed.record = Calls!Advanced.record /\ closed.told = Calls!Advanced.told
      /\ closed.deferred = Calls!Advanced.deferred /\ closed.broken = Calls!Advanced.broken
      /\ closed.out = Calls!Advanced.out /\ closed.result = Calls!Advanced.result
  BY <1>3 DEF CallRec
<1>6. /\ closed.steps = Tail(kCall.steps) /\ closed.operation = kCall.operation
      /\ closed.upstream = kCall.upstream /\ closed.attempt = kCall.attempt
      /\ closed.outcomes = kCall.outcomes /\ closed.reported = kCall.reported
      /\ closed.record = kCall.record /\ closed.told = kCall.told
      /\ closed.deferred = kCall.deferred /\ closed.broken = kCall.broken
      /\ closed.out = kCall.out /\ closed.result = kCall.result
  BY <1>1, <1>2, <1>5, AdvancedIs
<1>7. /\ Append(kCall.out, "closed") \in Seq({"piece", "error", "closed"})
      /\ Len(Append(kCall.out, "closed")) = Len(kCall.out) + 1
      /\ Append(kCall.out, "closed")[Len(kCall.out) + 1] = "closed"
      /\ \A i \in 1..Len(kCall.out) : Append(kCall.out, "closed")[i] = kCall.out[i]
      /\ Len(kCall.out) \in Nat
  BY <1>2 DEF CallRec
<1>8. /\ kCall' \in CallRec
      /\ kCall'.steps = Tail(kCall.steps) /\ kCall'.operation = kCall.operation
      /\ kCall'.upstream = kCall.upstream /\ kCall'.attempt = kCall.attempt
      /\ kCall'.outcomes = kCall.outcomes /\ kCall'.reported = kCall.reported
      /\ kCall'.record = kCall.record /\ kCall'.told = kCall.told
      /\ kCall'.deferred = kCall.deferred /\ kCall'.broken = kCall.broken
      /\ kCall'.out = Append(kCall.out, "closed") /\ kCall'.result = kCall.result
      /\ kCall'.body # "open"
  BY <1>3, <1>4, <1>6, <1>7 DEF CallRec
<1>9. StepTaken(kCall, kCall')
  BY <1>1, <1>2, <1>8 DEF StepTaken, CallFine
<1>10. /\ \/ AtStep(kCall') = "collect" /\ kCall.operation = "antigravity_claude"
          \/ AtStep(kCall') = "over" /\ step = "close" /\ kCall.operation # "antigravity_claude"
       /\ InOrder(kCall'.operation, kCall'.steps)
  BY <1>1, <1>2, <1>9, OnwardFacts DEF Goes, Fits
<1>11. ~ Early(kCall') /\ ~ Early(kCall)
  BY <1>2, <1>10 DEF Early, EarlySteps, Calls!StepNames
<1>12. OutFine(kCall')
  <2>1. CASE AtStep(kCall') = "collect" /\ kCall.operation = "antigravity_claude"
    BY <1>8, <1>11, <2>1 DEF OutFine
  <2>2. CASE AtStep(kCall') = "over" /\ step = "close" /\ kCall.operation # "antigravity_claude"
    <3>1. /\ \A i \in 1..Len(kCall.out) : kCall.out[i] # "closed"
                                         /\ (kCall.out[i] = "error" => i = Len(kCall.out))
          /\ kCall.broken <=> \E i \in 1..Len(kCall.out) : kCall.out[i] = "error"
      BY <1>2, <1>11, <2>2 DEF CallFine, OutFine
    <3>2. \A i \in 1..Len(kCall'.out) : i \in 1..Len(kCall.out) \/ i = Len(kCall'.out)
      BY <1>7, <1>8
    <3>3. Len(kCall'.out) \in 1..Len(kCall'.out) /\ kCall'.out[Len(kCall'.out)] = "closed"
          /\ Len(kCall'.out) - 1 = Len(kCall.out) /\ kCall'.out # <<>>
      BY <1>7, <1>8
    <3>4. \A i \in 1..Len(kCall.out) : i \in 1..Len(kCall'.out) /\ kCall'.out[i] = kCall.out[i]
      BY <1>7, <1>8
    <3>5. \A i \in 1..Len(kCall'.out) : kCall'.out[i] = "closed" => i = Len(kCall'.out)
      BY <3>1, <3>2, <3>4
    <3>6. \A i \in 1..Len(kCall'.out) : kCall'.out[i] = "error" => i = Len(kCall'.out) - 1
      BY <3>1, <3>2, <3>3, <3>4
    <3>7. kCall'.broken <=> \E i \in 1..Len(kCall'.out) : kCall'.out[i] = "error"
      BY <1>8, <3>1, <3>2, <3>3, <3>4
    <3>8. Streams(kCall')
      BY <3>3, <3>5, <3>6, <3>7 DEF Streams
    <3> QED BY <1>11, <2>2, <3>8 DEF OutFine
  <2> QED BY <1>10, <2>1, <2>2
<1>13. RecordFine(kCall') /\ BodyFine(kCall') /\ HeardFine(kCall') /\ UpFine(kCall')
  BY <1>1, <1>2, <1>8, <1>9, RecordOnward, BodyOnward, HeardOnward, UpOnward DEF CallFine
<1> QED BY <1>8, <1>10, <1>12, <1>13 DEF CallFine

(* executeClaudeNonStream reads the channel.                                *)
LEMMA CollectFine ==
    ASSUME CallFine(kCall), Calls!Collect
    PROVE  CallFine(kCall')
<1>1. Calls!At("collect") /\ AtStep(kCall) = "collect"
  BY AdvancedIs DEF Calls!Collect, CallFine
<1>2. CASE ~ kCall.broken
  <2>1. kCall' = Calls!Advanced
    BY <1>2 DEF Calls!Collect
  <2> QED BY <1>1, <2>1, PassedFine
<1>3. CASE kCall.broken
  <2>1. kCall' = Calls!Return(kCall, "unreadable")
    BY <1>3 DEF Calls!Collect
  <2>2. AtStep(kCall) \notin {"over", "broken", "tail"} /\ AtStep(kCall) \notin OpenSteps
    BY <1>1 DEF OpenSteps
  <2>3. "unreadable" \in Calls!CallResults /\ "unreadable" \in Calls!Failures
    BY DEF Calls!CallResults, Calls!Failures, Calls!Unheard
  <2> QED BY <1>3, <2>1, <2>2, <2>3, SelfGivenUp, ReturnFine
<1> QED BY <1>2, <1>3

(* What may fail does not.                                                  *)
LEMMA PassFine ==
    ASSUME CallFine(kCall), Calls!Pass
    PROVE  CallFine(kCall')
<1>1. PICK step \in Calls!Fallible : Calls!At(step)
  BY DEF Calls!Pass
<1>2. kCall' = Calls!Advanced
  BY DEF Calls!Pass
<1>3. step \in {"refuse", "credentials", "token", "prepare", "tokenize"}
  BY <1>1 DEF Calls!Fallible
<1> QED BY <1>1, <1>2, <1>3, PassedFine

(* Every step keeps the calls in order.                                     *)
LEMMA CallStep ==
    ASSUME Calls!BoundsAssumption, CallFine(kCall), [Calls!Next]_(Calls!vars)
    PROVE  CallFine(kCall')
<1>1. ASSUME NEW o \in Calls!Operations, Calls!Begin(o) PROVE CallFine(kCall')
  BY <1>1, NewCallFine DEF Calls!Begin
<1>2. CASE Calls!MinutePasses
  BY <1>2 DEF Calls!MinutePasses
<1>3. CASE UNCHANGED Calls!vars
  BY <1>3 DEF Calls!vars
<1>4. CASE Calls!Pass \/ Calls!GiveUp \/ Calls!Limit \/ Calls!Report \/ Calls!Send
               \/ Calls!SendByRelay \/ Calls!Defer \/ Calls!Check \/ Calls!CheckRead
  BY <1>4, PassFine, GiveUpFine, LimitFine, ReportFine, SendFine, SendByRelayFine, DeferFine,
     CheckFine, CheckReadFine
<1>5. CASE Calls!CheckDecoded \/ Calls!Decode \/ Calls!Read \/ Calls!ReadAndClose
               \/ Calls!CheckBase \/ Calls!CheckBaseRead
           \/ Calls!CheckModels \/ Calls!FindAnswer \/ Calls!UseUsage \/ Calls!Ensure
                  \/ Calls!ReturnAnswer
  BY <1>5, CheckDecodedFine, DecodeFine, ReadFine, ReadAndCloseFine, CheckBaseFine,
     CheckBaseReadFine, CheckModelsFine, FindAnswerFine, UseUsageFine, EnsureFine,
         ReturnAnswerFine
<1>6. CASE Calls!Spawn \/ Calls!ReadLine \/ Calls!EndOfLines \/ Calls!SendTail
               \/ Calls!TellBroken \/ Calls!ChooseForm \/ Calls!ReadWhole
           \/ Calls!CloseStream \/ Calls!Collect
  BY <1>6, SpawnFine, ReadLineFine, EndOfLinesFine, SendTailFine, TellBrokenFine, ChooseFormFine,
     ReadWholeFine, CloseStreamFine, CollectFine
<1> QED BY <1>1, <1>2, <1>3, <1>4, <1>5, <1>6 DEF Calls!Next

(* What is fine agrees with the properties.                                 *)
LEMMA FineRecorded ==
    ASSUME CallFine(kCall)
    PROVE  Calls!CallsRecorded
<1> SUFFICES ASSUME Calls!Over
             PROVE  /\ kCall.told => kCall.record = "usage"
                    /\ Calls!Failed /\ kCall.reported /\ ~ kCall.told => kCall.record = "failure"
                    /\ kCall.record = "failure" => Calls!Failed
                    /\ kCall.operation \in Calls!Ensuring /\ kCall.reported
                       => kCall.record # "none"
  BY DEF Calls!CallsRecorded
<1>1. AtStep(kCall) = "over"
  BY HereIs DEF Calls!Over, CallFine
<1>2. kCall.broken => kCall.record \in {"failure", "usage"}
  BY <1>1 DEF CallFine, RecordFine
<1> QED BY <1>1, <1>2 DEF CallFine, RecordFine, Calls!Failed

(* The same for what was opened and for the upstreams.                      *)
LEMMA FineConcluded ==
    ASSUME CallFine(kCall)
    PROVE  Calls!NothingLeftOpen /\ Calls!UpstreamsExhausted
<1>1. Calls!Over => AtStep(kCall) = "over"
  BY HereIs DEF Calls!Over, CallFine
<1>2. Calls!NothingLeftOpen
  <2> SUFFICES ASSUME Calls!Over
               PROVE  /\ kCall.body # "open"
                      /\ kCall.result = "stream" =>
                            /\ Calls!Last(kCall.out) = "closed"
                            /\ \A i \in 1..(Len(kCall.out) - 1) : kCall.out[i] # "closed"
                            /\ \A i \in 1..Len(kCall.out) :
                                   kCall.out[i] = "error" => i = Len(kCall.out) - 1
                            /\ kCall.broken <=> "error" \in Calls!Range(kCall.out)
    BY DEF Calls!NothingLeftOpen
  <2>1. kCall.body # "open"
    BY <1>1 DEF CallFine, BodyFine
  <2>2. ASSUME kCall.result = "stream"
        PROVE  /\ Calls!Last(kCall.out) = "closed"
               /\ \A i \in 1..(Len(kCall.out) - 1) : kCall.out[i] # "closed"
               /\ \A i \in 1..Len(kCall.out) : kCall.out[i] = "error" => i = Len(kCall.out) - 1
               /\ kCall.broken <=> "error" \in Calls!Range(kCall.out)
    <3>1. Streams(kCall)
      BY <1>1, <2>2 DEF CallFine, OutFine
    <3>2. Len(kCall.out) \in Nat /\ kCall.out \in Seq({"piece", "error", "closed"})
      BY DEF CallFine, CallRec
    <3>3. \A i \in 1..(Len(kCall.out) - 1) : i \in 1..Len(kCall.out) /\ i # Len(kCall.out)
      BY <3>2
    <3>4. Calls!Range(kCall.out) = {kCall.out[i] : i \in 1..Len(kCall.out)}
      BY <3>2 DEF Calls!Range
    <3> QED BY <3>1, <3>3, <3>4 DEF Streams, Calls!Last
  <2> QED BY <2>1, <2>2
<1>3. Calls!UpstreamsExhausted
  BY <1>1 DEF CallFine, UpFine, Calls!UpstreamsExhausted, Tried, Reasons, Calls!Last
<1> QED BY <1>2, <1>3


(* The calls start in order.                                                *)
LEMMA CallsStart ==
    ASSUME Calls!BoundsAssumption, Calls!Init
    PROVE  CallFine(kCall)
<1>1. PICK o \in Calls!Operations : kCall = Calls!NewCall(o)
  BY DEF Calls!Init
<1> QED BY <1>1, NewCallFine

-----------------------------------------------------------------------------
(* A step of the composition is a step of each part or leaves it alone.     *)
LEMMA PartsStep ==
    ASSUME [PartsNext]_<<part, vars, accounts, signins, stream, calls, requests, codes, settings>>
    PROVE  /\ [Accounts!Next]_(Accounts!vars)
           /\ [SignIns!Next]_(SignIns!vars)
           /\ [Codes!Next]_(Codes!vars)
           /\ [Calls!Next]_(Calls!vars)
<1>1. [Accounts!Next]_(Accounts!vars)
  BY DEF PartsNext, RefreshPart, RegistrationPart, SignInPart, StreamPart, CallsPart,
     RequestsPart,
     CodesPart, SettingsPart,
         accounts, Accounts!vars
<1>2. [SignIns!Next]_(SignIns!vars)
  BY DEF PartsNext, RefreshPart, RegistrationPart, SignInPart, StreamPart, CallsPart,
     RequestsPart,
     CodesPart, SettingsPart,
         signins, SignIns!vars
<1>3. [Codes!Next]_(Codes!vars)
  BY DEF PartsNext, RefreshPart, RegistrationPart, SignInPart, StreamPart, CallsPart,
     RequestsPart,
     CodesPart, SettingsPart,
         codes, Codes!vars
<1>4. [Calls!Next]_(Calls!vars)
  BY DEF PartsNext, RefreshPart, RegistrationPart, SignInPart, StreamPart, CallsPart,
     RequestsPart,
     CodesPart, SettingsPart,
         calls, Calls!vars
<1> QED BY <1>1, <1>2, <1>3, <1>4

(* At any time two accounts differ in name and in e-mail, however the       *)
(* look-ups and the INSERTs of registrations and the writes of whole rows   *)
(* interleave (UserAccounts).                                               *)
THEOREM AccountsUnique == PartsSpec => []OneAccountEach
<1>1. PartsInit => AccountsInv
  BY AccountsAssumption, AccountsStart DEF PartsInit
<1>2. AccountsInv /\ [PartsNext]_<<part, vars, accounts, signins, stream, calls, requests, codes,
      settings>>
        => AccountsInv'
  BY AccountsAssumption, PartsStep, AccountsStep
<1>3. AccountsInv => OneAccountEach
  BY DEF AccountsInv, OneAccountEach
<1> QED BY <1>1, <1>2, <1>3, PTL DEF PartsSpec

(* A session that is gone before it has expired tells of a credential that  *)
(* is saved, its own or one of its provider's, whatever flows of whatever   *)
(* providers overlap with it and fail where they may (OAuthSessions).       *)
THEOREM OkIsSaved == PartsSpec => []OkMeansSaved
<1>1. PartsInit => SInv
  <2> SUFFICES ASSUME SignIns!Init PROVE SInv
    BY DEF PartsInit
  <2>1. oSaved = {} /\ \A f \in Flows : oFlow[f].pc = "new" /\ oSession[f] = None
    BY DEF SignIns!Init
  <2> QED
    BY <2>1, SignInsAssumption, StartTypes DEF SInv, SignIns!OkMeansSaved, FlowPlaced
<1>2. SInv /\ [PartsNext]_<<part, vars, accounts, signins, stream, calls, requests, codes,
      settings>> => SInv'
  BY SignInsAssumption, PartsStep, SavedStep, TypeStep DEF SInv
<1>3. SInv => OkMeansSaved
  BY DEF SInv, OkMeansSaved
<1> QED BY <1>1, <1>2, <1>3, PTL DEF PartsSpec

(* The invariant of the codes holds in every state.                         *)
LEMMA RedeemAlways == PartsSpec => []RedeemInv
<1>1. PartsInit => RedeemInv
  BY CodesAssumption, RedeemStart DEF PartsInit
<1>2. RedeemInv /\ [PartsNext]_<<part, vars, accounts, signins, stream, calls, requests, codes,
      settings>>
        => RedeemInv'
  BY CodesAssumption, PartsStep, RedeemStep
<1> QED BY <1>1, <1>2, PTL DEF PartsSpec

(* No use of an active code and no slot of a template is given to two       *)
(* requests, for any number of users, workers, uses and slots (Redemption). *)
THEOREM UsesAndSlotsOwned == PartsSpec => []NothingGivenTwice
<1>1. RedeemInv => NothingGivenTwice
  BY DEF RedeemInv, NothingGivenTwice
<1> QED BY <1>1, RedeemAlways, PTL

(* A code that was disabled never becomes active again, whatever requests   *)
(* read it before (Redemption).                                             *)
THEOREM DisabledStaysDisabled == PartsSpec => DisabledForGood
<1>1. RedeemInv /\ [PartsNext]_<<part, vars, accounts, signins, stream, calls, requests, codes,
      settings>>
        => [~iCode.active => ~iCode'.active]_(Codes!vars)
  BY CodesAssumption, PartsStep, DisabledRemains
<1> QED BY <1>1, RedeemAlways, PTL DEF PartsSpec, DisabledForGood, Codes!DisabledForGood

(* The calls are in order in every state.                                   *)
LEMMA CallsAlwaysFine == PartsSpec => []CallFine(kCall)
<1>1. PartsInit => CallFine(kCall)
  BY CallsAssumption, CallsStart DEF PartsInit
<1>2. CallFine(kCall)
      /\ [PartsNext]_<<part, vars, accounts, signins, stream, calls, requests, codes,
      settings>>
        => CallFine(kCall)'
  BY CallsAssumption, PartsStep, CallStep
<1> QED BY <1>1, <1>2, PTL DEF PartsSpec

(* The statistics agree with what became of a call: a failure is recorded   *)
(* as one, no usage an upstream told is missed or counted twice, for any    *)
(* number of base URLs, attempts and lines (ExecutorCalls).                 *)
THEOREM CallsAlwaysRecorded == PartsSpec => []CallsRecorded
<1>1. CallFine(kCall) => CallsRecorded
  BY FineRecorded DEF CallsRecorded
<1> QED BY <1>1, CallsAlwaysFine, PTL

(* A call that is over has closed what it opened, its stream has ended with *)
(* the error if there was one, and it was given up for a reason another     *)
(* upstream may better only after the last one (ExecutorCalls).             *)
THEOREM CallsAlwaysConclude == PartsSpec => []CallsConclude
<1>1. CallFine(kCall) => CallsConclude
  BY FineConcluded DEF CallsConclude
<1> QED BY <1>1, CallsAlwaysFine, PTL
=============================================================================

----------------------------- MODULE Redemption -----------------------------
(***************************************************************************)
(* Invite codes and code templates of the community platform:              *)
(* internal/community/credential (redemption.go, template.go), the quota   *)
(* engine's GrantBonus and the store statements they use (internal/db).    *)
(*                                                                         *)
(* There is no transaction around a request: each action is one statement  *)
(* of the store, which the database runs atomically, and requests of       *)
(* several users (or of one) interleave between them.  One code and one    *)
(* template are modelled; a grant is worth 1.                              *)
(***************************************************************************)
EXTENDS Naturals, FiniteSets, Functions, FiniteSetsExt

CONSTANTS
    Users,
    Workers,     \* requests under way at one time (bound)
    Ops,         \* what they do: "redeem", "claim", "disable"
    MaxRequests, \* requests in all (bound)
    MaxUses,     \* InviteCode.MaxUses
    HasBonus,    \* the code carries a BonusQuota
    MaxPerUser, TotalLimit, \* RedemptionTemplate
    Seeded,      \* users with a user_quotas row to begin with
    Aborts,      \* a statement may fail, the client may go away
    NoRow, None

LimitsAssumption ==
    /\ MaxUses \in Nat \ {0} /\ MaxPerUser \in Nat \ {0} /\ TotalLimit \in Nat \ {0}
    /\ MaxRequests \in Nat /\ IsFiniteSet(Users) /\ IsFiniteSet(Workers) /\ Seeded \subseteq Users
    /\ HasBonus \in BOOLEAN /\ Aborts \in BOOLEAN
    /\ Ops \subseteq {"redeem", "claim", "disable"}
    /\ NoRow \notin Nat /\ None \notin {"redeem", "claim", "disable"}

VARIABLES
    code,     \* the row of invite_codes
    usage,    \* rows of invite_code_usage for the code, per user
    template, \* the row of redemption_templates
    invites,  \* rows of invite_codes that claims insert
    rows,     \* bonus_requests in user_quotas, NoRow: no such row
    work,     \* requests under way
    started,  \* requests so far
    redeemed, \* successful redemptions per user (history)
    claimed,  \* successful claims per user (history)
    lost      \* slots whose rollback failed (history)

vars == <<code, usage, template, invites, rows, work, started, redeemed, claimed, lost>>
codeVars == <<code, usage>>
templateVars == <<template, invites, lost>>

Code == [used : 0..MaxUses, active : BOOLEAN, expired : BOOLEAN]
Bonus == 0..MaxRequests
Request ==
    [op : Ops \cup {None}, user : Users \cup {None},
     invite : Code \cup {None}, bonus : Bonus, \* what it has read
     pc : {"idle", "checking", "taking", "recording", "inviting", "granting",
           "writing", "rollback"}]

Idle == [op |-> None, user |-> None, invite |-> None, bonus |-> 0, pc |-> "idle"]

(* Types; what the counters may hold is stated below. *)
TypeOK ==
    /\ code \in Code
    /\ usage \in [Users -> 0..MaxRequests]
    /\ template \in [issued : 0..TotalLimit, enabled : BOOLEAN]
    /\ invites \subseteq [id : 1..MaxRequests, creator : Users, bonus : BOOLEAN]
    /\ rows \in [Users -> Bonus \cup {NoRow}]
    /\ work \in [Workers -> Request]
    /\ started \in 0..MaxRequests
    /\ redeemed \in [Users -> 0..MaxRequests]
    /\ claimed \in [Users -> 0..MaxRequests]
    /\ lost \in 0..MaxRequests

Init ==
    /\ code = [used |-> 0, active |-> TRUE, expired |-> FALSE]
    /\ usage = [u \in Users |-> 0]
    /\ template = [issued |-> 0, enabled |-> TRUE]
    /\ invites = {}
    /\ rows = [u \in Users |-> IF u \in Seeded THEN 0 ELSE NoRow]
    /\ work = [w \in Workers |-> Idle]
    /\ started = 0
    /\ redeemed = [u \in Users |-> 0]
    /\ claimed = [u \in Users |-> 0]
    /\ lost = 0

-----------------------------------------------------------------------------
At(w, op, pc) == work[w].op = op /\ work[w].pc = pc
Goto(w, pc) == work' = [work EXCEPT ![w].pc = pc]
Return(w) == work' = [work EXCEPT ![w] = Idle]

Begin(w, op, user, pc, invite) ==
    /\ work[w] = Idle /\ op \in Ops /\ started < MaxRequests
    /\ started' = started + 1
    /\ work' = [work EXCEPT ![w] = [op |-> op, user |-> user, invite |-> invite,
                                  bonus |-> 0, pc |-> pc]]

(* Redeem: the row it reads decides about status and expiry.  Requests that *)
(* are turned down here change nothing.                                     *)
BeginRedeem(w, u) ==
    /\ code.active /\ ~code.expired
    /\ Begin(w, "redeem", u, "checking", code)
    /\ UNCHANGED <<codeVars, templateVars, rows, redeemed, claimed>>

(* HasUserUsedCode *)
CheckUsed(w) ==
    /\ At(w, "redeem", "checking")
    /\ IF usage[work[w].user] > 0 THEN Return(w) ELSE Goto(w, "taking")
    /\ UNCHANGED <<codeVars, templateVars, rows, started, redeemed, claimed>>

(* Mutant: the limit is checked in the row read first, not by the update. *)
TakeUseUnchecked(w) ==
    /\ At(w, "redeem", "taking")
    /\ IF work[w].invite.used < MaxUses
       THEN code' = [code EXCEPT !.used = @ + 1] /\ Goto(w, "recording")
       ELSE Return(w) /\ UNCHANGED code
    /\ UNCHANGED <<usage, templateVars, rows, started, redeemed, claimed>>

(* Mutant: the whole row is written back, as UpdateInviteCode does. *)
TakeUseWholeRow(w) ==
    /\ At(w, "redeem", "taking")
    /\ IF code.used < MaxUses
       THEN /\ code' = [work[w].invite EXCEPT !.used = code.used + 1]
            /\ Goto(w, "recording")
       ELSE Return(w) /\ UNCHANGED code
    /\ UNCHANGED <<usage, templateVars, rows, started, redeemed, claimed>>

(* IncrementInviteCodeUsage *)
TakeUse(w) ==
    /\ At(w, "redeem", "taking")
    /\ IF code.used < MaxUses
       THEN code' = [code EXCEPT !.used = @ + 1] /\ Goto(w, "recording")
       ELSE Return(w) /\ UNCHANGED code
    /\ UNCHANGED <<usage, templateVars, rows, started, redeemed, claimed>>

(* RecordInviteCodeUsage *)
RecordUse(w) ==
    LET u == work[w].user IN
    /\ At(w, "redeem", "recording")
    /\ usage' = [usage EXCEPT ![u] = @ + 1]
    /\ IF HasBonus THEN Goto(w, "granting") /\ UNCHANGED redeemed
       ELSE Return(w) /\ redeemed' = [redeemed EXCEPT ![u] = @ + 1]
    /\ UNCHANGED <<code, templateVars, rows, started, claimed>>

-----------------------------------------------------------------------------
(* CountTemplateClaimsByUser looks for codes of this creator that carry the *)
(* template's bonus.                                                        *)
CountTemplateClaimsByUser(u) ==
    Cardinality({i \in invites : i.creator = u /\ i.bonus})

(* ClaimTemplate *)
BeginClaim(w, u) ==
    /\ template.enabled
    /\ Begin(w, "claim", u, "checking", None)
    /\ UNCHANGED <<codeVars, templateVars, rows, redeemed, claimed>>

CheckClaims(w) ==
    /\ At(w, "claim", "checking")
    /\ IF CountTemplateClaimsByUser(work[w].user) >= MaxPerUser
       THEN Return(w) ELSE Goto(w, "taking")
    /\ UNCHANGED <<codeVars, templateVars, rows, started, redeemed, claimed>>

(* IncrementTemplateIssuedCount *)
TakeSlot(w) ==
    /\ At(w, "claim", "taking")
    /\ IF template.issued < TotalLimit
       THEN template' = [template EXCEPT !.issued = @ + 1] /\ Goto(w, "inviting")
       ELSE Return(w) /\ UNCHANGED template
    /\ UNCHANGED <<codeVars, invites, rows, started, redeemed, claimed, lost>>

(* CreateInviteCode: without the bonus, so that nobody redeems it again. *)
Invite(w) ==
    /\ At(w, "claim", "inviting")
    /\ invites' = invites \cup {[id |-> Cardinality(invites) + 1,
                                 creator |-> work[w].user, bonus |-> FALSE]}
    /\ Goto(w, "granting")
    /\ UNCHANGED <<codeVars, template, rows, started, redeemed, claimed, lost>>

(* Mutant: a failed claim returns without its rollback. *)
FailKeepsSlot(w) == Return(w)

(* A claim that fails from here on gives its slot back. *)
Fail(w) == IF work[w].op = "claim" THEN Goto(w, "rollback") ELSE Return(w)

(* GrantBonus: GetUserQuota reports a missing row as an error ... *)
ReadRow(w) ==
    /\ work[w].pc = "granting"
    /\ IF rows[work[w].user] = NoRow THEN Fail(w)
       ELSE work' = [work EXCEPT ![w].pc = "writing", ![w].bonus = rows[work[w].user]]
    /\ UNCHANGED <<codeVars, templateVars, rows, started, redeemed, claimed>>

(* ... and UpsertUserQuota writes the whole row. *)
WriteRow(w) ==
    LET u == work[w].user IN
    /\ work[w].pc = "writing" /\ work[w].op # "disable"
    /\ rows' = [rows EXCEPT ![u] = work[w].bonus + 1]
    /\ IF work[w].op = "redeem"
       THEN redeemed' = [redeemed EXCEPT ![u] = @ + 1] /\ UNCHANGED claimed
       ELSE claimed' = [claimed EXCEPT ![u] = @ + 1] /\ UNCHANGED redeemed
    /\ Return(w)
    /\ UNCHANGED <<codeVars, templateVars, started>>

(* DecrementTemplateIssuedCount, with the context of the request: once the  *)
(* client is gone the statement fails as well.                              *)
Rollback(w) ==
    /\ work[w].pc = "rollback"
    /\ \/ /\ template' = [template EXCEPT !.issued = IF @ > 0 THEN @ - 1 ELSE @]
          /\ UNCHANGED lost
       \/ Aborts /\ lost' = lost + 1 /\ UNCHANGED template
    /\ Return(w)
    /\ UNCHANGED <<codeVars, invites, rows, started, redeemed, claimed>>

(* The statement fails, or the context of the request has ended. *)
Abort(w) ==
    /\ Aborts /\ work[w].pc \notin {"idle", "rollback"}
    /\ IF work[w].pc \in {"inviting", "granting", "writing"} THEN Fail(w) ELSE Return(w)
    /\ UNCHANGED <<codeVars, templateVars, rows, started, redeemed, claimed>>

-----------------------------------------------------------------------------
(* DisableInviteCode lists the rows, and UpdateInviteCode writes back the   *)
(* whole row, used_count with it.                                           *)
BeginDisable(w) ==
    /\ Begin(w, "disable", None, "writing", code)
    /\ UNCHANGED <<codeVars, templateVars, rows, redeemed, claimed>>

WriteDisabled(w) ==
    /\ At(w, "disable", "writing")
    /\ code' = [work[w].invite EXCEPT !.active = FALSE, !.expired = code.expired]
    /\ Return(w)
    /\ UNCHANGED <<usage, templateVars, rows, started, redeemed, claimed>>

(* The expiry date passes. *)
Expire ==
    /\ ~code.expired
    /\ code' = [code EXCEPT !.expired = TRUE]
    /\ UNCHANGED <<usage, templateVars, rows, work, started, redeemed, claimed>>

ToggleTemplate ==
    /\ template' = [template EXCEPT !.enabled = ~@]
    /\ UNCHANGED <<codeVars, invites, rows, work, started, redeemed, claimed, lost>>

Step(w) ==
    \/ \E u \in Users : BeginRedeem(w, u) \/ BeginClaim(w, u)
    \/ CheckUsed(w) \/ TakeUse(w) \/ RecordUse(w)
    \/ CheckClaims(w) \/ TakeSlot(w) \/ Invite(w)
    \/ ReadRow(w) \/ WriteRow(w) \/ Rollback(w) \/ Abort(w)
    \/ BeginDisable(w) \/ WriteDisabled(w)

Next == (\E w \in Workers : Step(w)) \/ Expire \/ ToggleTemplate

Spec == Init /\ [][Next]_vars

-----------------------------------------------------------------------------
Total(f) == SumFunctionOnSet(f, Users)
Count(op, pcs) == Cardinality({w \in Workers : work[w].op = op /\ work[w].pc \in pcs})

(* Until an administrator disables the code, every successful redemption    *)
(* and every one still under way has a use of its own, of which there are   *)
(* max_uses, however requests interleave, fail or lose their client         *)
(* (Redeem, IncrementInviteCodeUsage).                                      *)
UsesCoverRedemptions ==
    code.active =>
        Total(redeemed) + Count("redeem", {"recording", "granting", "writing"})
            <= code.used

(* No more redemptions succeed than the code has uses: the update is to     *)
(* check the limit as it counts, against over-issuing under concurrency     *)
(* (redemption.go 146).                                                     *)
CodeNeverOversold == Total(redeemed) <= MaxUses

(* A disabled code stays disabled: no redemption that read it before brings *)
(* it back (DisableInviteCode; only the count is ever updated by Redeem).   *)
DisabledForGood == [][~code.active => ~code'.active]_vars

(* Every slot issued belongs to a successful claim, to one under way, or to *)
(* a failed one whose rollback failed as well: no claim's rollback gives    *)
(* away the slot of another, and every failure after the slot was taken     *)
(* gives it back (ClaimTemplate: "roll back issued_count when a later step  *)
(* fails", template.go 132).                                                *)
EverySlotOwned ==
    template.issued =
        Total(claimed) + lost
            + Count("claim", {"inviting", "granting", "writing", "rollback"})
=============================================================================

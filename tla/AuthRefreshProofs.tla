-------------------------- MODULE AuthRefreshProofs --------------------------
(* What is proved of AuthRefresh, for any credentials, goroutines and waits. *)
(* With overlaps and crashes: its types.                                     *)
(* Where updates keep apart and refreshes end in time, crashes and failing   *)
(* saves included: one refresh at a time, the newest token kept, and the     *)
(* manager and the file agreeing at rest.                                    *)
EXTENDS AuthRefresh, FiniteSetTheorems, TLAPS

-----------------------------------------------------------------------------
(* The inductive invariant.  An entry that is being worked on exists, for    *)
(* the handlers that replace an entry never remove it, and every clone a     *)
(* goroutine, a request or the watcher holds waits no longer than an entry.  *)
Entry == {a \in Auth : a.wait <= FailureWait}

GoodJob == {b \in Job :
    /\ b.pc # "idle" => b.cred \in Creds
    /\ b.pc \in {"calling", "answered", "saving"} => b.copy \in Entry
    /\ b.copy \in Entry \cup {None}}

GoodEdit == {b \in Edit :
    /\ b.pc # "idle" => b.cred \in Creds /\ b.copy \in Entry
    /\ b.copy \in Entry \cup {None}}

GoodSync == {s \in Sync : s.applying \in Entry \cup {None}}

EntriesOK == auths \in [Creds -> Entry \cup {None}]
DueOK == due \subseteq {c \in Creds : auths[c] # None}
JobsOK ==
    /\ jobs \in [Refreshers -> GoodJob]
    /\ \A j \in Refreshers : jobs[j].pc # "idle" => auths[jobs[j].cred] # None
EditsOK == edits \in [Operators -> GoodEdit]
SyncOK == sync \in [Creds -> GoodSync]
RestOK ==
    /\ files \in [Creds -> Content \cup {None}]
    /\ issued \in [Creds -> Tokens]
    /\ lapsed \in [Creds -> 0..(MaxToken + 1)]
    /\ stopped \in BOOLEAN
    /\ missed \subseteq Creds

IInv == EntriesOK /\ DueOK /\ JobsOK /\ EditsOK /\ SyncOK /\ RestOK

(* The invariant is at least type correctness. *)
LEMMA Typed == IInv => TypeOK
<1> SUFFICES ASSUME IInv PROVE TypeOK
  OBVIOUS
<1>1. /\ auths \in [Creds -> Auth \cup {None}]
      /\ \A c \in Creds : auths[c] # None => auths[c].wait <= FailureWait
  BY DEF IInv, EntriesOK, Entry
<1>2. jobs \in [Refreshers -> Job] /\ edits \in [Operators -> Edit]
  BY DEF IInv, JobsOK, EditsOK, GoodJob, GoodEdit
<1>3. sync \in [Creds -> Sync]
  BY DEF IInv, SyncOK, GoodSync
<1> QED BY <1>1, <1>2, <1>3 DEF IInv, DueOK, RestOK, TypeOK

-----------------------------------------------------------------------------
(* What Manager.Update makes of an entry and a clone is an entry. *)
LEMMA UpdatedEntry ==
    ASSUME NEW old \in Entry \cup {None}, NEW new \in Entry
    PROVE  Updated(old, new) \in Entry
BY DEF Updated, Entry, Auth

(* So the entries stay entries, and none goes away. *)
LEMMA Replaced ==
    ASSUME EntriesOK, NEW c \in Creds, NEW a \in Entry, Replace(c, a)
    PROVE  /\ EntriesOK'
           /\ \A d \in Creds : auths[d] # None => auths'[d] # None
<1>1. Updated(auths[c], a) \in Entry
  BY UpdatedEntry DEF EntriesOK
<1>2. None \notin Entry
  BY NoneAssumption DEF Entry
<1> QED BY <1>1, <1>2 DEF Replace, EntriesOK

(* A change of an entry in place, by a backoff or by MarkResult. *)
LEMMA Changed ==
    ASSUME EntriesOK, NEW c \in Creds, NEW a \in Entry,
           auths' = [auths EXCEPT ![c] = a]
    PROVE  /\ EntriesOK'
           /\ \A d \in Creds : auths[d] # None => auths'[d] # None
BY NoneAssumption DEF EntriesOK, Entry

(* While no entry goes away, those a pass or a goroutine is about remain. *)
LEMMA StillThere ==
    ASSUME DueOK, JobsOK, \A d \in Creds : auths[d] # None => auths'[d] # None
    PROVE  /\ UNCHANGED due => DueOK'
           /\ UNCHANGED jobs => JobsOK'
<1>1. ASSUME UNCHANGED jobs, NEW j \in Refreshers, jobs[j].pc # "idle"
      PROVE  auths'[jobs[j].cred] # None
  BY <1>1 DEF JobsOK, GoodJob
<1> QED BY <1>1 DEF DueOK, JobsOK

(* A save writes what the file format can say. *)
LEMMA Saved ==
    ASSUME RestOK, NEW c \in Creds, NEW a \in Entry, SaveOrFail(c, a),
           UNCHANGED <<issued, lapsed, stopped>>
    PROVE  RestOK'
<1>1. ContentOf(a) \in Content
  BY DEF ContentOf, Content, Entry, Auth
<1> QED BY <1>1 DEF RestOK, SaveOrFail, Save

(* What a new entry made from a file looks like. *)
LEMMA NewEntry ==
    ASSUME NEW f \in Content
    PROVE  /\ NewAuth(f) \in Entry
           /\ \A w \in 0..FailureWait, m \in Marks :
                  [NewAuth(f) EXCEPT !.wait = w, !.marks = m] \in Entry
<1>1. f.token \in Tokens /\ f.disabled \in BOOLEAN
  BY DEF Content
<1>2. NewAuth(f) \in Entry
  BY <1>1, BoundsAssumption DEF NewAuth, Entry, Auth, Marks
<1>3. ASSUME NEW w \in 0..FailureWait, NEW m \in Marks
      PROVE  [NewAuth(f) EXCEPT !.wait = w, !.marks = m] \in Entry
  <2>1. w \in Nat /\ w <= FailureWait
    BY BoundsAssumption
  <2>2. ASSUME NEW a \in Auth PROVE [a EXCEPT !.wait = w, !.marks = m] \in Entry
    BY <2>1 DEF Entry, Auth
  <2> QED BY <1>2, <2>2 DEF Entry
<1> QED BY <1>2, <1>3

(* Time brings an entry's next refresh nearer. *)
LEMMA AgedEntry ==
    ASSUME NEW a \in Entry \cup {None}
    PROVE  /\ Aged(a) \in Entry \cup {None}
           /\ a # None => Aged(a) # None
           /\ a \in Entry => Aged(a) \in Entry
BY NoneAssumption, BoundsAssumption DEF Aged, Entry, Auth

-----------------------------------------------------------------------------
(* The ticker's pass and the refresh goroutines. *)

(* A pass visits only entries there are. *)
LEMMA PassKeeps ==
    ASSUME IInv, CheckRefreshes
    PROVE  IInv'
<1>1. DueOK'
  BY DEF CheckRefreshes, ShouldRefresh, DueOK
<1> QED BY <1>1 DEF CheckRefreshes, IInv, EntriesOK, JobsOK, EditsOK, SyncOK, RestOK

(* A goroutine is started for an entry that is there and now waits. *)
LEMMA MarkKeeps ==
    ASSUME IInv, NEW j \in Refreshers, NEW c \in Creds, MarkRefreshPending(j, c)
    PROVE  IInv'
<1> USE DEF IInv
<1>1. UNCHANGED <<files, edits, sync, issued, lapsed, missed, stopped>>
  BY DEF MarkRefreshPending
<1>2. EditsOK' /\ SyncOK' /\ RestOK'
  BY <1>1 DEF EditsOK, SyncOK, RestOK
<1>3. auths[c] \in Entry /\ due' = due \ {c}
  BY DEF MarkRefreshPending, DueOK, EntriesOK
<1>4. CASE UNCHANGED <<auths, jobs>>
  BY <1>2, <1>3, <1>4 DEF EntriesOK, DueOK, JobsOK
<1>5. CASE /\ auths' = [auths EXCEPT ![c].wait = PendingWait]
           /\ jobs' = [jobs EXCEPT ![j] = [IdleJob EXCEPT !.pc = "queued", !.cred = c]]
  <2> DEFINE a == [auths[c] EXCEPT !.wait = PendingWait]
             b == [IdleJob EXCEPT !.pc = "queued", !.cred = c]
  <2>1. a \in Entry
    BY <1>3, BoundsAssumption DEF Entry, Auth
  <2>2. auths' = [auths EXCEPT ![c] = a]
    BY <1>5 DEF EntriesOK
  <2>3. EntriesOK' /\ \A d \in Creds : auths[d] # None => auths'[d] # None
    BY <2>1, <2>2, Changed
  <2>4. b \in GoodJob /\ b.cred = c /\ auths'[c] # None
    BY <1>3, <2>3, NoneAssumption DEF IdleJob, GoodJob, Job, Entry
  <2>5. JobsOK'
    <3> HIDE DEF b
    <3>1. jobs' \in [Refreshers -> GoodJob]
      BY <1>5, <2>4 DEF JobsOK, b
    <3>2. ASSUME NEW k \in Refreshers, jobs'[k].pc # "idle"
          PROVE  auths'[jobs'[k].cred] # None
      BY <1>5, <2>3, <2>4, <3>2 DEF JobsOK, GoodJob, b
    <3> QED BY <3>1, <3>2 DEF JobsOK
  <2>6. DueOK'
    BY <1>3, <2>3 DEF DueOK
  <2> QED BY <1>2, <2>3, <2>5, <2>6
<1> QED BY <1>4, <1>5 DEF MarkRefreshPending

(* The clone a goroutine takes is an entry. *)
LEMMA TakeSlotKeeps ==
    ASSUME IInv, NEW j \in Refreshers, TakeSlot(j)
    PROVE  IInv'
<1> USE DEF IInv
<1> DEFINE b == [jobs[j] EXCEPT !.pc = "calling", !.copy = auths[jobs[j].cred]]
<1>1. jobs[j] \in GoodJob /\ jobs[j].cred \in Creds /\ auths[jobs[j].cred] \in Entry
  BY DEF TakeSlot, JobsOK, GoodJob, EntriesOK
<1>2. b \in GoodJob /\ b.cred = jobs[j].cred
  BY <1>1 DEF GoodJob, Job, Entry
<1>3. jobs' = [jobs EXCEPT ![j] = b]
  BY DEF TakeSlot, JobsOK
<1>4. JobsOK'
  <2> HIDE DEF b
  <2>1. auths' = auths /\ jobs[j].pc # "idle"
    BY DEF TakeSlot
  <2>2. jobs' \in [Refreshers -> GoodJob]
    BY <1>2, <1>3 DEF JobsOK
  <2>3. ASSUME NEW k \in Refreshers, jobs'[k].pc # "idle"
        PROVE  auths'[jobs'[k].cred] # None
    BY <1>2, <1>3, <2>1, <2>3 DEF JobsOK
  <2> QED BY <2>2, <2>3 DEF JobsOK
<1> QED BY <1>4 DEF TakeSlot, EntriesOK, DueOK, EditsOK, SyncOK, RestOK

(* Two steps of a goroutine: it goes on with the same credential, or ends. *)
LEMMA JobGoesOn ==
    ASSUME JobsOK, NEW j \in Refreshers, NEW b \in GoodJob,
           jobs[j].pc # "idle", b.cred = jobs[j].cred,
           jobs' = [jobs EXCEPT ![j] = b],
           \A d \in Creds : auths[d] # None => auths'[d] # None
    PROVE  JobsOK'
<1>1. ASSUME NEW k \in Refreshers, jobs'[k].pc # "idle"
      PROVE  auths'[jobs'[k].cred] # None
  BY <1>1 DEF JobsOK, GoodJob
<1> QED BY <1>1 DEF JobsOK

(* A goroutine that ends leaves the others as they are. *)
LEMMA JobEnds ==
    ASSUME JobsOK, NEW j \in Refreshers, jobs' = [jobs EXCEPT ![j] = IdleJob],
           \A d \in Creds : auths[d] # None => auths'[d] # None
    PROVE  JobsOK'
<1>1. IdleJob \in GoodJob /\ IdleJob.pc = "idle"
  BY DEF IdleJob, GoodJob, Job
<1>2. ASSUME NEW k \in Refreshers, jobs'[k].pc # "idle"
      PROVE  auths'[jobs'[k].cred] # None
  BY <1>1, <1>2 DEF JobsOK, GoodJob
<1> QED BY <1>1, <1>2 DEF JobsOK

(* The new token goes to the clone, which does not wait. *)
LEMMA SucceedKeeps ==
    ASSUME IInv, NEW j \in Refreshers, RefreshSucceeds(j)
    PROVE  IInv'
<1> USE DEF IInv
<1> DEFINE c == jobs[j].cred
           a == [jobs[j].copy EXCEPT !.token = issued[c] + 1, !.wait = 0]
           b == [jobs[j] EXCEPT !.pc = "answered", !.copy = a]
<1>1. jobs[j] \in GoodJob /\ c \in Creds /\ jobs[j].copy \in Entry
  BY DEF RefreshSucceeds, JobsOK, GoodJob
<1>2. issued[c] + 1 \in Tokens
  BY <1>1, BoundsAssumption DEF RefreshSucceeds, RestOK, Tokens
<1>3. a \in Entry
  <2>1. 0 \in Nat /\ 0 <= FailureWait
    BY BoundsAssumption
  <2>2. ASSUME NEW e \in Auth, NEW t \in Tokens
        PROVE  [e EXCEPT !.token = t, !.wait = 0] \in Entry
    BY <2>1 DEF Entry, Auth
  <2> QED BY <1>1, <1>2, <2>2 DEF Entry
<1>4. b \in GoodJob /\ b.cred = c
  <2> HIDE DEF a
  <2> QED BY <1>1, <1>3 DEF GoodJob, Job, Entry
<1>5. jobs' = [jobs EXCEPT ![j] = b] /\ issued' = [issued EXCEPT ![c] = issued[c] + 1]
  BY DEF RefreshSucceeds, JobsOK, RestOK
<1>6. UNCHANGED <<auths, files, due, edits, sync, lapsed, missed, stopped>>
  BY DEF RefreshSucceeds
<1>7. JobsOK'
  <2> HIDE DEF b
  <2> QED BY <1>4, <1>5, <1>6, JobGoesOn DEF RefreshSucceeds
<1>8. RestOK'
  BY <1>2, <1>5, <1>6 DEF RestOK
<1> QED BY <1>6, <1>7, <1>8 DEF EntriesOK, DueOK, EditsOK, SyncOK

(* The backoff after a failure is the longest wait there is. *)
LEMMA FailKeeps ==
    ASSUME IInv, NEW j \in Refreshers, RefreshFails(j)
    PROVE  IInv'
<1> USE DEF IInv
<1> DEFINE c == jobs[j].cred
           a == [auths[c] EXCEPT !.wait = FailureWait]
<1>1. c \in Creds /\ auths[c] \in Entry
  BY DEF RefreshFails, JobsOK, GoodJob, EntriesOK
<1>2. a \in Entry
  BY <1>1, BoundsAssumption DEF Entry, Auth
<1>3. /\ auths' = [auths EXCEPT ![c] = a] /\ jobs' = [jobs EXCEPT ![j] = IdleJob]
      /\ UNCHANGED <<files, due, edits, sync, issued, lapsed, missed, stopped>>
  BY DEF RefreshFails, EntriesOK
<1>4. EntriesOK' /\ \A d \in Creds : auths[d] # None => auths'[d] # None
  <2> HIDE DEF a
  <2> QED BY <1>1, <1>2, <1>3, Changed
<1>5. JobsOK'
  BY <1>3, <1>4, JobEnds
<1> QED BY <1>3, <1>4, <1>5, StillThere DEF EditsOK, SyncOK, RestOK

(* The clone replaces the entry it was made from. *)
LEMMA StoreKeeps ==
    ASSUME IInv, NEW j \in Refreshers, StoreRefreshed(j)
    PROVE  IInv'
<1> USE DEF IInv
<1> DEFINE b == [jobs[j] EXCEPT !.pc = "saving"]
<1>1. jobs[j] \in GoodJob /\ jobs[j].cred \in Creds /\ jobs[j].copy \in Entry
  BY DEF StoreRefreshed, JobsOK, GoodJob
<1>2. EntriesOK' /\ \A d \in Creds : auths[d] # None => auths'[d] # None
  BY <1>1, Replaced DEF StoreRefreshed
<1>3. b \in GoodJob /\ b.cred = jobs[j].cred
  BY <1>1 DEF GoodJob, Job
<1>4. jobs' = [jobs EXCEPT ![j] = b] /\ jobs[j].pc # "idle"
  BY DEF StoreRefreshed, JobsOK
<1>5. JobsOK'
  <2> HIDE DEF b
  <2> QED BY <1>2, <1>3, <1>4, JobGoesOn
<1> QED BY <1>2, <1>5, StillThere DEF StoreRefreshed, EditsOK, SyncOK, RestOK

(* The save is a goroutine's last step. *)
LEMMA SaveKeeps ==
    ASSUME IInv, NEW j \in Refreshers, SaveRefreshed(j)
    PROVE  IInv'
<1> USE DEF IInv
<1>1. jobs[j].cred \in Creds /\ jobs[j].copy \in Entry
  BY DEF SaveRefreshed, JobsOK, GoodJob
<1>2. RestOK'
  BY <1>1, Saved DEF SaveRefreshed
<1>3. JobsOK'
  BY JobEnds DEF SaveRefreshed
<1> QED BY <1>2, <1>3 DEF SaveRefreshed, EntriesOK, DueOK, EditsOK, SyncOK

(* Shutdown ends a goroutine without a change to its entry. *)
LEMMA CancelKeeps ==
    ASSUME IInv, NEW j \in Refreshers, RefreshCancelled(j)
    PROVE  IInv'
<1> USE DEF IInv
<1>1. JobsOK'
  BY JobEnds DEF RefreshCancelled
<1> QED BY <1>1 DEF RefreshCancelled, EntriesOK, DueOK, EditsOK, SyncOK, RestOK

-----------------------------------------------------------------------------
(* Management requests and results of requests. *)

(* A request clones an entry that is there. *)
LEMMA BeginEditKeeps ==
    ASSUME IInv, NEW e \in Operators, NEW c \in Creds, NEW kind \in Edits,
           BeginEdit(e, c, kind)
    PROVE  IInv'
<1> USE DEF IInv
<1> DEFINE b == [pc |-> IF kind = "renew" THEN "calling" ELSE "holding",
                 kind |-> kind, cred |-> c, copy |-> EditedCopy(auths[c], kind)]
<1>1. EditedCopy(auths[c], kind) \in Entry
  BY DEF BeginEdit, EntriesOK, EditedCopy, Entry, Auth
<1>2. b \in GoodEdit
  BY <1>1 DEF GoodEdit, Edit, Entry
<1>3. EditsOK'
  <2>1. edits' = [edits EXCEPT ![e] = b]
    BY DEF BeginEdit
  <2> HIDE DEF b
  <2> QED BY <1>2, <2>1 DEF EditsOK
<1> QED BY <1>3 DEF BeginEdit, EntriesOK, DueOK, JobsOK, SyncOK, RestOK

(* A request goes on with its clone, or ends. *)
LEMMA EditGoesOn ==
    ASSUME EditsOK, NEW e \in Operators, NEW b \in GoodEdit,
           edits' = [edits EXCEPT ![e] = b]
    PROVE  EditsOK'
BY DEF EditsOK

(* A request that is over holds nothing. *)
LEMMA EditEnds ==
    ASSUME EditsOK, NEW e \in Operators, edits' = [edits EXCEPT ![e] = IdleEdit]
    PROVE  EditsOK'
<1>1. IdleEdit \in GoodEdit
  BY DEF IdleEdit, GoodEdit, Edit
<1> QED BY <1>1 DEF EditsOK

(* A renewal adds the new token to its clone, or gives up. *)
LEMMA RenewKeeps ==
    ASSUME IInv, NEW e \in Operators, RenewAnswers(e)
    PROVE  IInv'
<1> USE DEF IInv
<1> DEFINE c == edits[e].cred
           a == [edits[e].copy EXCEPT !.token = issued[c] + 1]
           b == [edits[e] EXCEPT !.pc = "holding", !.copy = a]
<1>1. edits[e] \in GoodEdit /\ c \in Creds /\ edits[e].copy \in Entry
  BY DEF RenewAnswers, EditsOK, GoodEdit
<1>2. UNCHANGED <<auths, files, due, jobs, sync, lapsed, missed, stopped>>
  BY DEF RenewAnswers
<1>3. CASE /\ issued[c] < MaxToken
           /\ issued' = [issued EXCEPT ![c] = @ + 1]
           /\ edits' = [edits EXCEPT ![e].pc = "holding", ![e].copy = [@ EXCEPT !.token = issued[c] + 1]]
  <2>1. issued[c] + 1 \in Tokens
    BY <1>1, <1>3, BoundsAssumption DEF RestOK, Tokens
  <2>2. a \in Entry
    BY <1>1, <2>1 DEF Entry, Auth
  <2>3. b \in GoodEdit
    <3> HIDE DEF a
    <3> QED BY <1>1, <2>2 DEF GoodEdit, Edit, Entry
  <2>4. edits' = [edits EXCEPT ![e] = b]
    BY <1>3 DEF EditsOK
  <2>5. EditsOK'
    <3> HIDE DEF b
    <3> QED BY <2>3, <2>4, EditGoesOn
  <2>6. RestOK'
    BY <1>1, <1>2, <1>3, <2>1 DEF RestOK
  <2> QED BY <1>2, <2>5, <2>6 DEF EntriesOK, DueOK, JobsOK, SyncOK
<1>4. CASE edits' = [edits EXCEPT ![e] = IdleEdit] /\ UNCHANGED issued
  <2>1. EditsOK'
    BY <1>4, EditEnds
  <2> QED BY <1>2, <1>4, <2>1 DEF EntriesOK, DueOK, JobsOK, SyncOK, RestOK
<1> QED BY <1>3, <1>4 DEF RenewAnswers

(* A request's clone replaces the entry it was made from. *)
LEMMA StoreEditKeeps ==
    ASSUME IInv, NEW e \in Operators, StoreEdit(e)
    PROVE  IInv'
<1> USE DEF IInv
<1> DEFINE b == [edits[e] EXCEPT !.pc = "saving"]
<1>1. edits[e] \in GoodEdit /\ edits[e].cred \in Creds /\ edits[e].copy \in Entry
  BY DEF StoreEdit, EditsOK, GoodEdit
<1>2. EntriesOK' /\ \A d \in Creds : auths[d] # None => auths'[d] # None
  BY <1>1, Replaced DEF StoreEdit
<1>3. EditsOK'
  <2>1. b \in GoodEdit
    BY <1>1 DEF GoodEdit, Edit
  <2>2. edits' = [edits EXCEPT ![e] = b]
    BY DEF StoreEdit, EditsOK
  <2> HIDE DEF b
  <2> QED BY <2>1, <2>2, EditGoesOn
<1> QED BY <1>2, <1>3, StillThere DEF StoreEdit, SyncOK, RestOK

(* The save is a request's last step. *)
LEMMA SaveEditKeeps ==
    ASSUME IInv, NEW e \in Operators, SaveEdit(e)
    PROVE  IInv'
<1> USE DEF IInv
<1>1. edits[e].cred \in Creds /\ edits[e].copy \in Entry
  BY DEF SaveEdit, EditsOK, GoodEdit
<1>2. RestOK' /\ EditsOK'
  BY <1>1, Saved, EditEnds DEF SaveEdit
<1> QED BY <1>2 DEF SaveEdit, EntriesOK, DueOK, JobsOK, SyncOK

(* MarkResult changes an entry in place and saves it. *)
LEMMA ResultKeeps ==
    ASSUME IInv, NEW c \in Creds, NEW result, MarkResult(c, result)
    PROVE  IInv'
<1> USE DEF IInv
<1> DEFINE m == IF result = "failure" THEN "failed" ELSE "clear"
           a == [auths[c] EXCEPT !.marks = m]
<1>1. m \in Marks /\ auths[c] \in Entry
  BY DEF MarkResult, EntriesOK, Marks
<1>2. a \in Entry
  <2> HIDE DEF m
  <2> QED BY <1>1 DEF Entry, Auth
<1>3. EntriesOK' /\ (\A d \in Creds : auths[d] # None => auths'[d] # None) /\ RestOK'
  <2>1. auths' = [auths EXCEPT ![c] = a] /\ SaveOrFail(c, a)
    BY DEF MarkResult
  <2>2. UNCHANGED <<issued, lapsed, stopped>>
    BY DEF MarkResult
  <2> HIDE DEF a
  <2> QED BY <1>2, <2>1, <2>2, Changed, Saved
<1> QED BY <1>3, StillThere DEF MarkResult, EditsOK, SyncOK

-----------------------------------------------------------------------------
(* The watcher's way back. *)

(* The watcher reads a file that says something. *)
LEMMA NoticeKeeps ==
    ASSUME IInv, NEW c \in Creds, Notice(c)
    PROVE  IInv'
<1> USE DEF IInv
<1> DEFINE s == [sync[c] EXCEPT !.seen = files[c], !.next = files[c]]
<1>1. files[c] \in Content /\ sync[c] \in GoodSync
  BY DEF Notice, RestOK, SyncOK
<1>2. s \in GoodSync
  <2>1. ASSUME NEW t \in GoodSync, NEW f \in Content
        PROVE  [t EXCEPT !.seen = f, !.next = f] \in GoodSync
    BY DEF GoodSync, Sync
  <2> QED BY <1>1, <2>1
<1>3. sync' = [sync EXCEPT ![c] = s]
  BY DEF Notice, SyncOK
<1>4. SyncOK'
  <2> HIDE DEF s
  <2> QED BY <1>2, <1>3 DEF SyncOK
<1> QED BY <1>4 DEF Notice, EntriesOK, DueOK, JobsOK, EditsOK, RestOK

(* The consumer's entry keeps the wait of the one it replaces. *)
LEMMA BeginApplyKeeps ==
    ASSUME IInv, NEW c \in Creds, BeginApply(c)
    PROVE  IInv'
<1> USE DEF IInv
<1> DEFINE f == sync[c].next
           a == IF auths[c] = None THEN NewAuth(f)
                ELSE [NewAuth(f) EXCEPT !.wait = auths[c].wait, !.marks = auths[c].marks]
           s == [sync[c] EXCEPT !.next = None, !.applying = a]
<1>1. f \in Content /\ sync[c] \in GoodSync
  BY DEF BeginApply, SyncOK, GoodSync, Sync
<1>2. a \in Entry
  <2>1. CASE auths[c] = None
    BY <1>1, <2>1, NewEntry
  <2>2. CASE auths[c] # None
    <3>1. auths[c].wait \in 0..FailureWait /\ auths[c].marks \in Marks
      BY <2>2, BoundsAssumption DEF EntriesOK, Entry, Auth
    <3> QED BY <1>1, <2>2, <3>1, NewEntry
  <2> QED BY <2>1, <2>2
<1>3. s \in GoodSync
  <2>1. ASSUME NEW t \in GoodSync, NEW b \in Entry
        PROVE  [t EXCEPT !.next = None, !.applying = b] \in GoodSync
    BY DEF GoodSync, Sync, Entry
  <2> HIDE DEF a
  <2> QED BY <1>1, <1>2, <2>1
<1>4. sync' = [sync EXCEPT ![c] = s]
  BY DEF BeginApply, SyncOK
<1>5. SyncOK'
  <2> HIDE DEF s
  <2> QED BY <1>3, <1>4 DEF SyncOK
<1> QED BY <1>5 DEF BeginApply, EntriesOK, DueOK, JobsOK, EditsOK, RestOK

(* The consumer's entry replaces the manager's. *)
LEMMA EndApplyKeeps ==
    ASSUME IInv, NEW c \in Creds, EndApply(c)
    PROVE  IInv'
<1> USE DEF IInv
<1> DEFINE s == [sync[c] EXCEPT !.applying = None]
<1>1. sync[c] \in GoodSync /\ sync[c].applying \in Entry
  BY DEF EndApply, SyncOK, GoodSync
<1>2. EntriesOK' /\ \A d \in Creds : auths[d] # None => auths'[d] # None
  BY <1>1, Replaced DEF EndApply
<1>3. SyncOK'
  <2>1. s \in GoodSync
    BY <1>1 DEF GoodSync, Sync
  <2>2. sync' = [sync EXCEPT ![c] = s]
    BY DEF EndApply, SyncOK
  <2> HIDE DEF s
  <2> QED BY <2>1, <2>2 DEF SyncOK
<1> QED BY <1>2, <1>3, StillThere DEF EndApply, EditsOK, RestOK

-----------------------------------------------------------------------------
(* Time, the provider's tokens, shutdown and restart. *)

(* No more tokens lapse than were issued, and one. *)
LEMMA LapseKeeps ==
    ASSUME IInv, NEW c \in Creds, Lapse(c)
    PROVE  IInv'
<1> USE DEF IInv
<1>1. issued[c] + 1 \in 0..(MaxToken + 1)
  BY BoundsAssumption DEF RestOK, Tokens
<1>2. RestOK'
  BY <1>1 DEF Lapse, RestOK
<1> QED BY <1>2 DEF Lapse, EntriesOK, DueOK, JobsOK, EditsOK, SyncOK

(* Time ages entries and clones alike. *)
LEMMA TickKeeps ==
    ASSUME IInv, Tick
    PROVE  IInv'
<1> USE DEF IInv
<1>1. EntriesOK' /\ \A d \in Creds : auths[d] # None => auths'[d] # None
  BY AgedEntry DEF Tick, EntriesOK
<1>2. JobsOK'
  <2>1. ASSUME NEW j \in Refreshers
        PROVE  /\ jobs'[j] \in GoodJob
               /\ jobs'[j].pc = jobs[j].pc /\ jobs'[j].cred = jobs[j].cred
    <3>1. jobs'[j] = [jobs[j] EXCEPT !.copy = Aged(jobs[j].copy)]
      BY DEF Tick
    <3>2. jobs[j] \in GoodJob /\ jobs[j].copy \in Entry \cup {None}
      BY DEF JobsOK, GoodJob
    <3>3. ASSUME NEW a \in Entry \cup {None}, jobs[j].copy \in Entry => a \in Entry
          PROVE  [jobs[j] EXCEPT !.copy = a] \in GoodJob
      BY <3>2, <3>3 DEF GoodJob, Job, Entry
    <3>4. [jobs[j] EXCEPT !.copy = Aged(jobs[j].copy)] \in GoodJob
      BY <3>2, <3>3, AgedEntry
    <3> QED BY <3>1, <3>2, <3>4 DEF GoodJob, Job
  <2>2. jobs' \in [Refreshers -> GoodJob]
    BY <2>1 DEF Tick
  <2>3. ASSUME NEW j \in Refreshers, jobs'[j].pc # "idle"
        PROVE  auths'[jobs'[j].cred] # None
    BY <1>1, <2>1, <2>3 DEF JobsOK, GoodJob
  <2> QED BY <2>2, <2>3 DEF JobsOK
<1>3. EditsOK'
  <2>1. ASSUME NEW e \in Operators
        PROVE  [edits[e] EXCEPT !.copy = Aged(@)] \in GoodEdit
    <3>1. edits[e] \in GoodEdit /\ edits[e].copy \in Entry \cup {None}
      BY DEF EditsOK, GoodEdit
    <3>2. ASSUME NEW a \in Entry \cup {None}, edits[e].copy \in Entry => a \in Entry
          PROVE  [edits[e] EXCEPT !.copy = a] \in GoodEdit
      BY <3>1, <3>2 DEF GoodEdit, Edit, Entry
    <3> QED BY <3>1, <3>2, AgedEntry
  <2> QED BY <2>1 DEF Tick, EditsOK
<1>4. SyncOK'
  <2>1. ASSUME NEW c \in Creds
        PROVE  [sync[c] EXCEPT !.applying = Aged(@)] \in GoodSync
    <3>1. sync[c] \in GoodSync /\ sync[c].applying \in Entry \cup {None}
      BY DEF SyncOK, GoodSync
    <3>2. ASSUME NEW a \in Entry \cup {None}
          PROVE  [sync[c] EXCEPT !.applying = a] \in GoodSync
      BY <3>1 DEF GoodSync, Sync, Entry
    <3> QED BY <3>1, <3>2, AgedEntry
  <2> QED BY <2>1 DEF Tick, SyncOK
<1> QED BY <1>1, <1>2, <1>3, <1>4 DEF Tick, DueOK, RestOK

(* Where the process starts from the files it finds. *)
LEMMA FreshStart ==
    ASSUME NEW fs \in [Creds -> Content \cup {None}]
    PROVE  /\ Loaded(fs) \in [Creds -> Entry \cup {None}]
           /\ Started(fs) \in [Creds -> GoodSync]
           /\ IdleJob \in GoodJob /\ IdleJob.pc = "idle"
           /\ IdleEdit \in GoodEdit
<1>1. Loaded(fs) \in [Creds -> Entry \cup {None}]
  BY NewEntry DEF Loaded
<1>2. Started(fs) \in [Creds -> GoodSync]
  BY DEF Started, Watched, Unwatched, GoodSync, Sync
<1>3. IdleJob \in GoodJob /\ IdleJob.pc = "idle" /\ IdleEdit \in GoodEdit
  BY DEF IdleJob, IdleEdit, GoodJob, GoodEdit, Job, Edit
<1> QED BY <1>1, <1>2, <1>3

(* A restart begins with the files, torn ones included. *)
LEMMA RestartKeeps ==
    ASSUME IInv, Restart
    PROVE  IInv'
<1> USE DEF IInv
<1>1. files' \in [Creds -> Content \cup {None}]
  BY DEF Restart, RestOK
<1>2. EntriesOK' /\ DueOK' /\ SyncOK' /\ EditsOK'
  BY <1>1, FreshStart DEF Restart, EntriesOK, DueOK, SyncOK, EditsOK
<1>3. JobsOK'
  BY <1>1, FreshStart DEF Restart, JobsOK
<1>4. RestOK'
  BY <1>1 DEF Restart, RestOK
<1> QED BY <1>2, <1>3, <1>4

(* Shutdown changes no entry. *)
LEMMA StopKeeps ==
    ASSUME IInv, StopAutoRefresh
    PROVE  IInv'
BY DEF IInv, StopAutoRefresh, EntriesOK, DueOK, JobsOK, EditsOK, SyncOK, RestOK

(* The first start. *)
LEMMA InitKeeps == Init => IInv
<1> SUFFICES ASSUME Init PROVE IInv
  OBVIOUS
<1>1. files \in [Creds -> Content \cup {None}]
  BY BoundsAssumption DEF Init, Content, Tokens
<1>2. EntriesOK /\ SyncOK /\ JobsOK /\ EditsOK /\ DueOK
  BY <1>1, FreshStart DEF Init, EntriesOK, SyncOK, JobsOK, EditsOK, DueOK
<1>3. issued \in [Creds -> Tokens] /\ lapsed \in [Creds -> 0..(MaxToken + 1)]
  <2>1. 0 \in Tokens /\ 0 \in 0..(MaxToken + 1)
    BY BoundsAssumption DEF Tokens
  <2> QED BY <2>1 DEF Init
<1>4. stopped \in BOOLEAN /\ missed \subseteq Creds
  BY DEF Init
<1> QED BY <1>1, <1>2, <1>3, <1>4 DEF IInv, RestOK

-----------------------------------------------------------------------------
(* Every step of Next keeps the invariant. *)
LEMMA NextKeeps ==
    ASSUME IInv, [Next]_vars
    PROVE  IInv'
<1>1. ASSUME NEW j \in Refreshers, RefreshStep(j) PROVE IInv'
  BY <1>1, MarkKeeps, TakeSlotKeeps, SucceedKeeps, FailKeeps, CancelKeeps,
     StoreKeeps, SaveKeeps DEF RefreshStep
<1>2. ASSUME NEW e \in Operators, EditStep(e) PROVE IInv'
  BY <1>2, BeginEditKeeps, RenewKeeps, StoreEditKeeps, SaveEditKeeps DEF EditStep
<1>3. ASSUME NEW c \in Creds, SyncStep(c) \/ Lapse(c) PROVE IInv'
  BY <1>3, NoticeKeeps, BeginApplyKeeps, EndApplyKeeps, LapseKeeps DEF SyncStep
<1>4. ASSUME NEW c \in Creds, NEW result \in Results, MarkResult(c, result)
      PROVE  IInv'
  BY <1>4, ResultKeeps
<1>5. CASE CheckRefreshes \/ Tick \/ StopAutoRefresh \/ Restart
  BY <1>5, PassKeeps, TickKeeps, StopKeeps, RestartKeeps
<1>6. CASE UNCHANGED vars
  BY <1>6 DEF vars, IInv, EntriesOK, DueOK, JobsOK, EditsOK, SyncOK, RestOK
<1> QED BY <1>1, <1>2, <1>3, <1>4, <1>5, <1>6 DEF Next

(* Whatever overlaps, fails, is cut short or restarts, entries, files,       *)
(* goroutines and requests keep their types, no entry under work vanishes,   *)
(* and no entry or clone waits longer than the longest backoff.              *)
THEOREM TypeCorrect == Spec => []TypeOK
BY InitKeeps, NextKeeps, Typed, PTL DEF Spec

-----------------------------------------------------------------------------
(* Who is at work on a credential: a refresh goroutine, a management request, *)
(* one that asks the provider for a token.                                   *)
AtWork(c) == \E j \in Refreshers : jobs[j].cred = c
AtEdit(c) == \E e \in Operators : edits[e].cred = c
AtRenewal(c) == \E e \in Operators : edits[e].cred = c /\ edits[e].kind = "renew"

(* Only those at work name a credential, and only a renewal waits for the    *)
(* provider's answer.                                                        *)
Named ==
    /\ \A j \in Refreshers : jobs[j].pc = "idle" => jobs[j].cred = None
    /\ \A e \in Operators : edits[e].pc = "idle" => edits[e].cred = None
    /\ \A e \in Operators : edits[e].pc = "calling" => edits[e].kind = "renew"

(* One actor at a time, and nothing of the watcher's on its way while a new  *)
(* token is asked for.                                                       *)
Alone(c) ==
    /\ \A j, k \in Refreshers : jobs[j].cred = c /\ jobs[k].cred = c => j = k
    /\ \A d, e \in Operators : edits[d].cred = c /\ edits[e].cred = c => d = e
    /\ ~(AtWork(c) /\ AtEdit(c))
    /\ AtWork(c) \/ AtRenewal(c) => sync[c].next = None /\ sync[c].applying = None

(* Why a credential with a refresh under way is chosen by no pass: until the *)
(* token is stored the entry waits, and from then on the token is too new.   *)
Marked(c) ==
    /\ lapsed[c] <= issued[c] + 1
    /\ \A j \in Refreshers : jobs[j].cred = c =>
          /\ c \notin due
          /\ jobs[j].pc # "saving" => auths[c].wait > 0
          /\ jobs[j].pc = "saving" => auths[c].token = issued[c]
          /\ jobs[j].pc \in {"answered", "saving"} =>
                jobs[j].copy.token = issued[c] /\ lapsed[c] <= issued[c]

KeptInOrder == Named /\ \A c \in Creds : Alone(c) /\ Marked(c)

AInv == IInv /\ KeptInOrder

(* The conditions under which updates keep out of each other's way. *)
Orderly == Prompt /\ Apart

(* Two of a kind are two. *)
LEMMA Two ==
    ASSUME NEW x, NEW y, x # y
    PROVE  Cardinality({x, y}) = 2
<1>1. IsFiniteSet({x}) /\ Cardinality({x}) = 1
  BY FS_Singleton
<1>2. {x, y} = {x} \cup {y} /\ y \notin {x}
  OBVIOUS
<1>3. Cardinality({x} \cup {y}) = Cardinality({x}) + 1
  BY <1>1, <1>2, FS_AddElement
<1> QED BY <1>1, <1>2, <1>3

(* markRefreshPending gives a credential to a goroutine: nobody else has it. *)
LEMMA MarkAlone ==
    ASSUME Orderly, AInv, NEW j \in Refreshers, NEW c \in Creds, MarkRefreshPending(j, c)
    PROVE  KeptInOrder'
<1> DEFINE b == [IdleJob EXCEPT !.pc = "queued", !.cred = c]
<1>1. /\ UNCHANGED <<files, edits, sync, issued, lapsed, missed, stopped>>
      /\ c \in due /\ due' = due \ {c} /\ jobs[j].pc = "idle"
  BY DEF MarkRefreshPending
<1>2. CASE UNCHANGED <<auths, jobs>>
  BY <1>1, <1>2 DEF AInv, KeptInOrder, Named, Alone, Marked, AtWork, AtEdit, AtRenewal
<1>3. CASE /\ auths' = [auths EXCEPT ![c].wait = PendingWait]
           /\ jobs' = [jobs EXCEPT ![j] = b]
  <2>1. b.cred = c /\ b.pc = "queued"
    BY DEF IdleJob
  <2>2. \A k \in Refreshers : jobs'[k] = IF k = j THEN b ELSE jobs[k]
    BY <1>3 DEF AInv, KeptInOrder, IInv, JobsOK
  <2> HIDE DEF b
  <2>3. jobs[j].cred = None /\ None \notin Creds
    BY <1>1, NoneAssumption DEF AInv, KeptInOrder, Named
  <2>4. \A k \in Refreshers : jobs[k].cred # c
    BY <1>1 DEF AInv, KeptInOrder, Marked
  <2>5. /\ auths'[c].wait = PendingWait
        /\ \A d \in Creds : d # c => auths'[d] = auths[d]
    <3>1. auths[c] \in Entry
      BY <1>1 DEF AInv, KeptInOrder, IInv, DueOK, EntriesOK
    <3> QED BY <1>3, <3>1 DEF AInv, KeptInOrder, IInv, EntriesOK, Entry, Auth
  <2>6. Named'
    BY <1>1, <2>1, <2>2 DEF AInv, KeptInOrder, Named
  <2>7. ASSUME NEW d \in Creds PROVE Marked(d)'
    BY <1>1, <2>1, <2>2, <2>4, <2>5, BoundsAssumption DEF AInv, KeptInOrder, Marked
  <2>8. ASSUME NEW d \in Creds PROVE Alone(d)'
    <3>1. ~Overlap(d)'
      BY DEF MarkRefreshPending, KeptApart, Orderly
    <3>2. \A k, l \in Refreshers : jobs'[k].cred = d /\ jobs'[l].cred = d => k = l
      BY <2>1, <2>2, <2>3, <2>4 DEF AInv, KeptInOrder, Alone
    <3> QED BY <1>1, <3>1, <3>2
            DEF AInv, KeptInOrder, Alone, AtWork, AtEdit, AtRenewal, Overlap, Refreshing, Editing, Renewing
  <2> QED BY <2>6, <2>7, <2>8 DEF KeptInOrder
<1> QED BY <1>2, <1>3 DEF MarkRefreshPending

-----------------------------------------------------------------------------
(* What the steps do, entry by entry and goroutine by goroutine. *)

(* Manager.Update: the entry says what the clone says, marks aside. *)
LEMMA ReplaceDoes ==
    ASSUME EntriesOK, NEW c \in Creds, NEW a \in Entry, Replace(c, a)
    PROVE  /\ auths'[c] \in Entry /\ auths'[c].token = a.token
           /\ auths'[c].disabled = a.disabled /\ auths'[c].wait = a.wait
           /\ \A d \in Creds : d # c => auths'[d] = auths[d]
<1>1. /\ Updated(auths[c], a) \in Entry
      /\ Updated(auths[c], a).token = a.token /\ Updated(auths[c], a).disabled = a.disabled
      /\ Updated(auths[c], a).wait = a.wait
  BY UpdatedEntry DEF EntriesOK, Updated, Entry, Auth
<1> QED BY <1>1 DEF Replace, EntriesOK

(* A save writes the clone into the file, or owes it. *)
LEMMA SaveDoes ==
    ASSUME RestOK, NEW c \in Creds, NEW a \in Entry, SaveOrFail(c, a)
    PROVE  /\ missed \subseteq missed'
           /\ \A d \in Creds : d # c => files'[d] = files[d]
           /\ files[c] # None /\ c \notin missed' => files'[c] = ContentOf(a)
BY DEF RestOK, SaveOrFail, Save

(* TakeSlot lets a goroutine call the provider. *)
LEMMA SlotDoes ==
    ASSUME IInv, NEW j \in Refreshers, TakeSlot(j)
    PROVE  /\ jobs[j].pc = "queued" /\ jobs'[j].pc = "calling" /\ jobs'[j].cred = jobs[j].cred
           /\ \A k \in Refreshers : k # j => jobs'[k] = jobs[k]
           /\ UNCHANGED <<auths, files, due, edits, sync, issued, lapsed, missed>>
<1>1. jobs \in [Refreshers -> GoodJob] /\ jobs[j] \in GoodJob
  BY DEF IInv, JobsOK
<1> QED BY <1>1 DEF TakeSlot, GoodJob, Job

(* The provider's answer, a token newer than all before. *)
LEMMA SucceedDoes ==
    ASSUME IInv, NEW j \in Refreshers, RefreshSucceeds(j)
    PROVE  /\ jobs[j].pc = "calling" /\ jobs'[j].pc = "answered" /\ jobs'[j].cred = jobs[j].cred
           /\ jobs[j].cred \in Creds
           /\ jobs'[j].copy.token = issued[jobs[j].cred] + 1
           /\ \A k \in Refreshers : k # j => jobs'[k] = jobs[k]
           /\ \A d \in Creds : issued'[d] = IF d = jobs[j].cred THEN issued[d] + 1 ELSE issued[d]
           /\ UNCHANGED <<auths, files, due, edits, sync, lapsed, missed>>
<1>1. /\ jobs \in [Refreshers -> GoodJob] /\ jobs[j] \in GoodJob
      /\ jobs[j].cred \in Creds /\ jobs[j].copy \in Entry
  BY DEF IInv, JobsOK, GoodJob, RefreshSucceeds
<1> DEFINE a == [jobs[j].copy EXCEPT !.token = issued[jobs[j].cred] + 1, !.wait = 0]
<1>2. a.token = issued[jobs[j].cred] + 1
  BY <1>1 DEF Entry, Auth
<1>3. jobs' = [jobs EXCEPT ![j] = [jobs[j] EXCEPT !.pc = "answered", !.copy = a]]
  BY <1>1 DEF RefreshSucceeds
<1>4. /\ jobs'[j].pc = "answered" /\ jobs'[j].cred = jobs[j].cred /\ jobs'[j].copy = a
      /\ \A k \in Refreshers : k # j => jobs'[k] = jobs[k]
  <2> HIDE DEF a
  <2> QED BY <1>1, <1>3 DEF GoodJob, Job
<1> QED BY <1>1, <1>2, <1>4 DEF RefreshSucceeds, IInv, RestOK

(* The goroutine puts its clone into the manager. *)
LEMMA StoreDoes ==
    ASSUME IInv, NEW j \in Refreshers, StoreRefreshed(j)
    PROVE  /\ jobs[j].pc = "answered" /\ jobs'[j].pc = "saving" /\ jobs'[j].cred = jobs[j].cred
           /\ jobs[j].cred \in Creds /\ jobs'[j].copy = jobs[j].copy
           /\ \A k \in Refreshers : k # j => jobs'[k] = jobs[k]
           /\ auths'[jobs[j].cred] \in Entry
           /\ ContentOf(auths'[jobs[j].cred]) = ContentOf(jobs[j].copy)
           /\ auths'[jobs[j].cred].token = jobs[j].copy.token
           /\ \A d \in Creds : d # jobs[j].cred => auths'[d] = auths[d]
           /\ UNCHANGED <<files, due, edits, sync, issued, lapsed, missed>>
<1>1. /\ jobs \in [Refreshers -> GoodJob] /\ jobs[j] \in GoodJob
      /\ jobs[j].cred \in Creds /\ jobs[j].copy \in Entry
  BY DEF IInv, JobsOK, GoodJob, StoreRefreshed
<1>2. /\ auths'[jobs[j].cred] \in Entry
      /\ ContentOf(auths'[jobs[j].cred]) = ContentOf(jobs[j].copy)
      /\ auths'[jobs[j].cred].token = jobs[j].copy.token
      /\ \A d \in Creds : d # jobs[j].cred => auths'[d] = auths[d]
  BY <1>1, ReplaceDoes DEF StoreRefreshed, IInv, ContentOf
<1> QED BY <1>1, <1>2 DEF StoreRefreshed, GoodJob, Job

(* The three ways a goroutine ends. *)
LEMMA EndDoes ==
    ASSUME IInv, NEW j \in Refreshers,
           RefreshFails(j) \/ RefreshCancelled(j) \/ SaveRefreshed(j)
    PROVE  /\ jobs[j].pc # "idle" /\ jobs[j].cred \in Creds
           /\ jobs'[j].pc = "idle" /\ jobs'[j].cred = None
           /\ \A k \in Refreshers : k # j => jobs'[k] = jobs[k]
           /\ \A d \in Creds : d # jobs[j].cred => auths'[d] = auths[d]
           /\ auths[jobs[j].cred] # None /\ auths'[jobs[j].cred] # None
           /\ ContentOf(auths'[jobs[j].cred]) = ContentOf(auths[jobs[j].cred])
           /\ auths'[jobs[j].cred].token = auths[jobs[j].cred].token
           /\ UNCHANGED <<due, edits, sync, issued, lapsed>>
<1>1. jobs \in [Refreshers -> GoodJob] /\ jobs[j] \in GoodJob
  BY DEF IInv, JobsOK
<1>2. /\ jobs[j].pc # "idle" /\ jobs[j].cred \in Creds /\ auths[jobs[j].cred] \in Entry
      /\ jobs' = [jobs EXCEPT ![j] = IdleJob]
      /\ UNCHANGED <<due, edits, sync, issued, lapsed>>
  BY <1>1 DEF RefreshFails, RefreshCancelled, SaveRefreshed, GoodJob, IInv, JobsOK, EntriesOK
<1>3. CASE RefreshFails(j)
  <2> DEFINE a == [auths[jobs[j].cred] EXCEPT !.wait = FailureWait]
  <2>1. a \in Entry /\ ContentOf(a) = ContentOf(auths[jobs[j].cred])
        /\ a.token = auths[jobs[j].cred].token
    BY <1>2, BoundsAssumption DEF Entry, Auth, ContentOf
  <2>2. auths' = [auths EXCEPT ![jobs[j].cred] = a]
    BY <1>2, <1>3 DEF RefreshFails, IInv, EntriesOK
  <2> HIDE DEF a
  <2>3. None \notin Entry
    BY NoneAssumption DEF Entry
  <2> QED BY <1>1, <1>2, <2>1, <2>2, <2>3 DEF IdleJob, IInv, EntriesOK
<1>4. CASE UNCHANGED auths
  BY <1>1, <1>2, <1>4, NoneAssumption DEF IdleJob, Entry
<1> QED BY <1>3, <1>4 DEF RefreshCancelled, SaveRefreshed

-----------------------------------------------------------------------------
(* The steps keep it. *)

(* A goroutine that goes on. *)
LEMMA JobStepOrder ==
    ASSUME Orderly, AInv, NEW j \in Refreshers,
           TakeSlot(j) \/ RefreshSucceeds(j) \/ StoreRefreshed(j)
    PROVE  KeptInOrder'
<1>1. CASE TakeSlot(j)
  BY <1>1, SlotDoes DEF AInv, KeptInOrder, Named, Alone, Marked, AtWork, AtEdit, AtRenewal
<1>2. CASE RefreshSucceeds(j)
  <2>1. \A d \in Creds : issued[d] \in Nat /\ lapsed[d] \in Nat
    BY BoundsAssumption DEF AInv, IInv, RestOK, Tokens
  <2> QED BY <1>2, <2>1, SucceedDoes
          DEF AInv, KeptInOrder, Named, Alone, Marked, AtWork, AtEdit, AtRenewal
<1>3. CASE StoreRefreshed(j)
  BY <1>3, StoreDoes DEF AInv, KeptInOrder, Named, Alone, Marked, AtWork, AtEdit, AtRenewal
<1> QED BY <1>1, <1>2, <1>3

(* A goroutine that ends makes room for the next. *)
LEMMA EndOrder ==
    ASSUME Orderly, AInv, NEW j \in Refreshers,
           RefreshFails(j) \/ RefreshCancelled(j) \/ SaveRefreshed(j)
    PROVE  KeptInOrder'
BY EndDoes, NoneAssumption DEF AInv, KeptInOrder, Named, Alone, Marked, AtWork, AtEdit, AtRenewal

(* A pass chooses nothing that is being refreshed. *)
LEMMA PassOrder ==
    ASSUME Orderly, AInv, CheckRefreshes
    PROVE  KeptInOrder'
<1>1. ASSUME NEW j \in Refreshers, NEW c \in Creds, jobs[j].cred = c
      PROVE  c \notin due'
  <2>1. c \in due' => auths[c].wait = 0 /\ auths[c].token < lapsed[c]
    BY DEF CheckRefreshes, ShouldRefresh, Lapsed
  <2>2. jobs[j].pc = "saving" => auths[c].token = issued[c] /\ lapsed[c] <= issued[c]
    BY <1>1 DEF AInv, KeptInOrder, Marked
  <2>3. issued[c] \in Nat /\ lapsed[c] \in Nat
    BY BoundsAssumption DEF AInv, IInv, RestOK, Tokens
  <2> QED BY <1>1, <2>1, <2>2, <2>3 DEF AInv, KeptInOrder, Marked
<1>2. UNCHANGED <<auths, files, jobs, edits, sync, issued, lapsed, missed, stopped>>
  BY DEF CheckRefreshes
<1> QED BY <1>1, <1>2 DEF AInv, KeptInOrder, Named, Alone, Marked, AtWork, AtEdit, AtRenewal

-----------------------------------------------------------------------------
(* A management request takes a clone. *)
LEMMA BeginDoes ==
    ASSUME IInv, NEW e \in Operators, NEW c \in Creds, NEW kind \in Edits, BeginEdit(e, c, kind)
    PROVE  /\ edits[e].pc = "idle" /\ auths[c] \in Entry
           /\ edits'[e].pc \in {"calling", "holding"} /\ edits'[e].cred = c
           /\ edits'[e].pc = "calling" <=> edits'[e].kind = "renew"
           /\ edits'[e].copy.token = auths[c].token
           /\ \A d \in Operators : d # e => edits'[d] = edits[d]
           /\ UNCHANGED <<auths, files, due, jobs, sync, issued, lapsed, missed>>
<1> DEFINE b == [pc |-> IF kind = "renew" THEN "calling" ELSE "holding",
                 kind |-> kind, cred |-> c, copy |-> EditedCopy(auths[c], kind)]
<1>1. auths[c] \in Entry /\ EditedCopy(auths[c], kind).token = auths[c].token
  BY DEF BeginEdit, IInv, EntriesOK, EditedCopy, Entry, Auth
<1>2. /\ edits' = [edits EXCEPT ![e] = b] /\ edits[e].pc = "idle"
      /\ UNCHANGED <<auths, files, due, jobs, sync, issued, lapsed, missed>>
  BY DEF BeginEdit
<1>3. /\ b.pc \in {"calling", "holding"} /\ b.cred = c /\ b.copy = EditedCopy(auths[c], kind)
      /\ b.pc = "calling" <=> b.kind = "renew"
  OBVIOUS
<1> HIDE DEF b
<1> QED BY <1>1, <1>2, <1>3 DEF IInv, EditsOK

(* The answer to a renewal, or its failure. *)
LEMMA AnswerDoes ==
    ASSUME IInv, NEW e \in Operators, RenewAnswers(e)
    PROVE  /\ edits[e].pc = "calling" /\ edits[e].cred \in Creds
           /\ \A d \in Operators : d # e => edits'[d] = edits[d]
           /\ \/ /\ edits'[e].pc = "idle" /\ edits'[e].cred = None
                 /\ UNCHANGED issued
              \/ /\ edits'[e].pc = "holding" /\ edits'[e].cred = edits[e].cred
                 /\ edits'[e].kind = edits[e].kind
                 /\ edits'[e].copy.token = issued[edits[e].cred] + 1
                 /\ \A d \in Creds : issued'[d] = IF d = edits[e].cred THEN issued[d] + 1 ELSE issued[d]
           /\ UNCHANGED <<auths, files, due, jobs, sync, lapsed, missed>>
<1> DEFINE a == [edits[e].copy EXCEPT !.token = issued[edits[e].cred] + 1]
           b == [edits[e] EXCEPT !.pc = "holding", !.copy = a]
<1>1. edits \in [Operators -> GoodEdit] /\ edits[e] \in GoodEdit /\ edits[e].pc = "calling"
      /\ edits[e].cred \in Creds /\ edits[e].copy \in Entry
  BY DEF IInv, EditsOK, GoodEdit, RenewAnswers
<1>2. a.token = issued[edits[e].cred] + 1
  BY <1>1 DEF Entry, Auth
<1>3. b.pc = "holding" /\ b.cred = edits[e].cred /\ b.kind = edits[e].kind /\ b.copy = a
  <2> HIDE DEF a
  <2> QED BY <1>1 DEF GoodEdit, Edit
<1>4. CASE edits' = [edits EXCEPT ![e] = IdleEdit] /\ UNCHANGED issued
  BY <1>1, <1>4 DEF RenewAnswers, IdleEdit
<1>5. CASE /\ issued' = [issued EXCEPT ![edits[e].cred] = @ + 1]
           /\ edits' = [edits EXCEPT ![e] = b]
  <2> HIDE DEF a, b
  <2> QED BY <1>1, <1>2, <1>3, <1>5 DEF RenewAnswers, IInv, RestOK
<1>6. \/ edits' = [edits EXCEPT ![e] = b] /\ issued' = [issued EXCEPT ![edits[e].cred] = @ + 1]
      \/ edits' = [edits EXCEPT ![e] = IdleEdit] /\ UNCHANGED issued
  BY <1>1 DEF RenewAnswers
<1> QED BY <1>4, <1>5, <1>6

(* A request puts its clone into the manager. *)
LEMMA StoreEditDoes ==
    ASSUME IInv, NEW e \in Operators, StoreEdit(e)
    PROVE  /\ edits[e].pc = "holding" /\ edits'[e].pc = "saving" /\ edits'[e].cred = edits[e].cred
           /\ edits[e].cred \in Creds /\ edits'[e].copy = edits[e].copy
           /\ edits'[e].kind = edits[e].kind
           /\ \A d \in Operators : d # e => edits'[d] = edits[d]
           /\ auths'[edits[e].cred] \in Entry
           /\ ContentOf(auths'[edits[e].cred]) = ContentOf(edits[e].copy)
           /\ auths'[edits[e].cred].token = edits[e].copy.token
           /\ \A d \in Creds : d # edits[e].cred => auths'[d] = auths[d]
           /\ UNCHANGED <<files, due, jobs, sync, issued, lapsed, missed>>
<1>1. /\ edits \in [Operators -> GoodEdit] /\ edits[e] \in GoodEdit
      /\ edits[e].cred \in Creds /\ edits[e].copy \in Entry
  BY DEF IInv, EditsOK, GoodEdit, StoreEdit
<1>2. /\ auths'[edits[e].cred] \in Entry
      /\ ContentOf(auths'[edits[e].cred]) = ContentOf(edits[e].copy)
      /\ auths'[edits[e].cred].token = edits[e].copy.token
      /\ \A d \in Creds : d # edits[e].cred => auths'[d] = auths[d]
  BY <1>1, ReplaceDoes DEF StoreEdit, IInv, ContentOf
<1> QED BY <1>1, <1>2 DEF StoreEdit, GoodEdit, Edit

(* A request saves its clone and ends. *)
LEMMA SaveEditDoes ==
    ASSUME IInv, NEW e \in Operators, SaveEdit(e)
    PROVE  /\ edits[e].pc = "saving" /\ edits[e].cred \in Creds /\ edits[e].copy \in Entry
           /\ edits'[e].pc = "idle" /\ edits'[e].cred = None
           /\ \A d \in Operators : d # e => edits'[d] = edits[d]
           /\ UNCHANGED <<auths, due, jobs, sync, issued, lapsed>>
BY DEF SaveEdit, IInv, EditsOK, GoodEdit, IdleEdit

-----------------------------------------------------------------------------
(* A request comes to a credential nobody else is at work on. *)
LEMMA BeginOrder ==
    ASSUME Orderly, AInv, NEW e \in Operators, NEW c \in Creds, NEW kind \in Edits,
           BeginEdit(e, c, kind)
    PROVE  KeptInOrder'
<1>1. IInv /\ None \notin Creds
  BY NoneAssumption DEF AInv
<1>2. /\ edits[e].pc = "idle" /\ edits'[e].pc \in {"calling", "holding"} /\ edits'[e].cred = c
      /\ edits'[e].pc = "calling" <=> edits'[e].kind = "renew"
      /\ \A d \in Operators : d # e => edits'[d] = edits[d]
      /\ UNCHANGED <<auths, files, due, jobs, sync, issued, lapsed, missed>>
  BY <1>1, BeginDoes
<1>3. edits[e].cred = None
  BY <1>2 DEF AInv, KeptInOrder, Named
<1>4. Named' /\ \A d \in Creds : Marked(d)'
  BY <1>2 DEF AInv, KeptInOrder, Named, Marked
<1>5. ASSUME NEW d \in Creds PROVE ~Overlap(d)'
  BY DEF BeginEdit, KeptApart, Orderly
<1>6. ASSUME NEW x \in Operators, x # e, edits'[x].cred = c PROVE FALSE
  <2>1. \A y \in Operators : edits'[y].cred = c => y \in {x, e}
    BY <1>2, <1>6 DEF AInv, KeptInOrder, Alone
  <2>2. Editing(c)' = {x, e}
    BY <1>2, <1>6, <2>1 DEF Editing
  <2>3. Cardinality(Editing(c)') = 2
    <3>1. Cardinality({x, e}) = 2
      BY <1>6, Two
    <3> QED BY <2>2, <3>1, Zenon
  <2>4. ~(Cardinality(Editing(c)') > 1)
    BY <1>5 DEF Overlap
  <2> QED BY <2>3, <2>4
<1>7. ASSUME NEW d \in Creds, NEW x \in Operators, NEW y \in Operators,
             edits'[x].cred = d, edits'[y].cred = d
      PROVE  x = y
  BY <1>2, <1>6, <1>7 DEF AInv, KeptInOrder, Alone
<1>8. ASSUME NEW d \in Creds PROVE Alone(d)'
  <2>1. /\ ~(AtWork(d)' /\ AtEdit(d)')
        /\ AtWork(d)' \/ AtRenewal(d)' => sync'[d].next = None /\ sync'[d].applying = None
    BY <1>5 DEF AtWork, AtEdit, AtRenewal, Overlap, Refreshing, Editing, Renewing
  <2> QED BY <1>2, <1>7, <2>1 DEF AInv, KeptInOrder, Alone
<1> QED BY <1>4, <1>8 DEF KeptInOrder

(* A request that goes on or ends. *)
LEMMA EditOrder ==
    ASSUME Orderly, AInv, NEW e \in Operators,
           RenewAnswers(e) \/ StoreEdit(e) \/ SaveEdit(e)
    PROVE  KeptInOrder'
<1>1. CASE RenewAnswers(e)
  <2>1. \A d \in Creds : issued[d] \in Nat /\ lapsed[d] \in Nat
    BY BoundsAssumption DEF AInv, IInv, RestOK, Tokens
  <2> QED BY <1>1, <2>1, AnswerDoes, NoneAssumption
          DEF AInv, KeptInOrder, Named, Alone, Marked, AtWork, AtEdit, AtRenewal
<1>2. CASE StoreEdit(e)
  BY <1>2, StoreEditDoes DEF AInv, KeptInOrder, Named, Alone, Marked, AtWork, AtEdit, AtRenewal
<1>3. CASE SaveEdit(e)
  BY <1>3, SaveEditDoes, NoneAssumption
     DEF AInv, KeptInOrder, Named, Alone, Marked, AtWork, AtEdit, AtRenewal
<1> QED BY <1>1, <1>2, <1>3

-----------------------------------------------------------------------------
(* MarkResult changes marks only, and saves. *)
LEMMA ResultDoes ==
    ASSUME IInv, NEW c \in Creds, NEW result, MarkResult(c, result)
    PROVE  /\ auths[c] \in Entry /\ auths'[c] \in Entry
           /\ auths'[c].wait = auths[c].wait /\ auths'[c].token = auths[c].token
           /\ ContentOf(auths'[c]) = ContentOf(auths[c])
           /\ \A d \in Creds : d # c => auths'[d] = auths[d]
           /\ SaveOrFail(c, auths'[c])
           /\ UNCHANGED <<due, jobs, edits, sync, issued, lapsed, stopped>>
<1> DEFINE m == IF result = "failure" THEN "failed" ELSE "clear"
           a == [auths[c] EXCEPT !.marks = m]
<1>1. m \in Marks /\ auths[c] \in Entry /\ auths \in [Creds -> Entry \cup {None}]
  BY DEF MarkResult, IInv, EntriesOK, Marks
<1>2. /\ a \in Entry /\ a.wait = auths[c].wait /\ a.token = auths[c].token
      /\ ContentOf(a) = ContentOf(auths[c])
  <2> HIDE DEF m
  <2> QED BY <1>1 DEF Entry, Auth, ContentOf
<1>3. /\ auths' = [auths EXCEPT ![c] = a] /\ SaveOrFail(c, a)
      /\ UNCHANGED <<due, jobs, edits, sync, issued, lapsed, stopped>>
  BY DEF MarkResult
<1> HIDE DEF a
<1>4. auths'[c] = a /\ \A d \in Creds : d # c => auths'[d] = auths[d]
  BY <1>1, <1>3
<1> QED BY <1>1, <1>2, <1>3, <1>4

(* The watcher sees a file change. *)
LEMMA NoticeDoes ==
    ASSUME IInv, NEW c \in Creds, Notice(c)
    PROVE  /\ Watching /\ files[c] # None
           /\ sync'[c].seen = files[c] /\ sync'[c].next = files[c]
           /\ sync'[c].applying = sync[c].applying
           /\ \A d \in Creds : d # c => sync'[d] = sync[d]
           /\ UNCHANGED <<auths, files, due, jobs, edits, issued, lapsed, missed>>
<1>1. sync \in [Creds -> GoodSync] /\ sync[c] \in GoodSync
  BY DEF IInv, SyncOK
<1> QED BY <1>1 DEF Notice, GoodSync, Sync

(* The consumer makes an entry of what the watcher saw. *)
LEMMA BeginApplyDoes ==
    ASSUME IInv, NEW c \in Creds, BeginApply(c)
    PROVE  /\ sync[c].next # None /\ sync[c].applying = None
           /\ sync'[c].seen = sync[c].seen /\ sync'[c].next = None
           /\ sync'[c].applying \in Entry
           /\ ContentOf(sync'[c].applying) = sync[c].next
           /\ sync'[c].applying.token = sync[c].next.token
           /\ \A d \in Creds : d # c => sync'[d] = sync[d]
           /\ UNCHANGED <<auths, files, due, jobs, edits, issued, lapsed, missed>>
<1> DEFINE f == sync[c].next
           a == IF auths[c] = None THEN NewAuth(f)
                ELSE [NewAuth(f) EXCEPT !.wait = auths[c].wait, !.marks = auths[c].marks]
<1>1. f \in Content /\ sync \in [Creds -> GoodSync] /\ sync[c] \in GoodSync
  BY DEF BeginApply, IInv, SyncOK, GoodSync, Sync
<1>2. a \in Entry
  <2>1. CASE auths[c] = None
    BY <1>1, <2>1, NewEntry
  <2>2. CASE auths[c] # None
    <3>1. auths[c].wait \in 0..FailureWait /\ auths[c].marks \in Marks
      BY <2>2, BoundsAssumption DEF IInv, EntriesOK, Entry, Auth
    <3> QED BY <1>1, <2>2, <3>1, NewEntry
  <2> QED BY <2>1, <2>2
<1>3. a.token = f.token /\ ContentOf(a) = f
  BY <1>1 DEF NewAuth, ContentOf, Content
<1>4. sync'[c].applying = a /\ sync'[c].next = None /\ sync'[c].seen = sync[c].seen
  <2>1. sync' = [sync EXCEPT ![c] = [sync[c] EXCEPT !.next = None, !.applying = a]]
    BY <1>1 DEF BeginApply
  <2> HIDE DEF a
  <2> QED BY <1>1, <2>1 DEF GoodSync, Sync
<1> QED BY <1>1, <1>2, <1>3, <1>4 DEF BeginApply

(* The consumer's entry goes to the manager. *)
LEMMA EndApplyDoes ==
    ASSUME IInv, NEW c \in Creds, EndApply(c)
    PROVE  /\ sync[c].applying # None
           /\ sync'[c].seen = sync[c].seen /\ sync'[c].next = sync[c].next
           /\ sync'[c].applying = None
           /\ \A d \in Creds : d # c => sync'[d] = sync[d]
           /\ auths'[c] \in Entry
           /\ ContentOf(auths'[c]) = ContentOf(sync[c].applying)
           /\ auths'[c].token = sync[c].applying.token
           /\ \A d \in Creds : d # c => auths'[d] = auths[d]
           /\ UNCHANGED <<files, due, jobs, edits, issued, lapsed, missed>>
<1>1. /\ sync \in [Creds -> GoodSync] /\ sync[c] \in GoodSync
      /\ sync[c].applying \in Entry
  BY DEF EndApply, IInv, SyncOK, GoodSync
<1>2. /\ auths'[c] \in Entry
      /\ ContentOf(auths'[c]) = ContentOf(sync[c].applying)
      /\ auths'[c].token = sync[c].applying.token
      /\ \A d \in Creds : d # c => auths'[d] = auths[d]
  BY <1>1, ReplaceDoes DEF EndApply, IInv, ContentOf
<1> QED BY <1>1, <1>2 DEF EndApply, GoodSync, Sync

(* What time leaves alone. *)
LEMMA AgedSame ==
    ASSUME NEW a \in Entry \cup {None}
    PROVE  /\ Aged(a) = None <=> a = None
           /\ a # None => /\ Aged(a).token = a.token
                          /\ ContentOf(Aged(a)) = ContentOf(a)
                          /\ a.wait > 1 => Aged(a).wait > 0
<1>1. None \notin Entry
  BY NoneAssumption DEF Entry
<1>2. CASE a = None \/ a.wait = 0
  BY <1>1, <1>2 DEF Aged
<1>3. CASE a # None /\ a.wait # 0
  <2> DEFINE b == [a EXCEPT !.wait = a.wait - 1]
  <2>1. a \in Auth /\ Aged(a) = b
    BY <1>3 DEF Entry, Aged
  <2>2. b.token = a.token /\ b.disabled = a.disabled /\ b.wait = a.wait - 1
    BY <2>1 DEF Auth
  <2>3. b \in Auth
    BY <1>3, <2>1 DEF Auth
  <2> HIDE DEF b
  <2> QED BY <1>3, <2>1, <2>2, <2>3, NoneAssumption DEF ContentOf, Auth
<1> QED BY <1>2, <1>3

(* A tick ages what everybody holds, and nothing else. *)
LEMMA TickDoes ==
    ASSUME IInv, Tick
    PROVE  /\ due = {}
           /\ \A c \in Creds : auths'[c] = Aged(auths[c])
           /\ \A j \in Refreshers : /\ jobs'[j].pc = jobs[j].pc /\ jobs'[j].cred = jobs[j].cred
                                    /\ jobs'[j].copy = Aged(jobs[j].copy)
           /\ \A e \in Operators : /\ edits'[e].pc = edits[e].pc /\ edits'[e].cred = edits[e].cred
                                   /\ edits'[e].kind = edits[e].kind
                                   /\ edits'[e].copy = Aged(edits[e].copy)
           /\ \A c \in Creds : /\ sync'[c].seen = sync[c].seen /\ sync'[c].next = sync[c].next
                               /\ sync'[c].applying = Aged(sync[c].applying)
           /\ UNCHANGED <<files, due, issued, lapsed, missed>>
<1>1. /\ jobs \in [Refreshers -> GoodJob] /\ edits \in [Operators -> GoodEdit]
      /\ sync \in [Creds -> GoodSync]
  BY DEF IInv, JobsOK, EditsOK, SyncOK
<1>2. ASSUME NEW j \in Refreshers
      PROVE  /\ jobs'[j].pc = jobs[j].pc /\ jobs'[j].cred = jobs[j].cred
             /\ jobs'[j].copy = Aged(jobs[j].copy)
  BY <1>1 DEF Tick, GoodJob, Job
<1>3. ASSUME NEW e \in Operators
      PROVE  /\ edits'[e].pc = edits[e].pc /\ edits'[e].cred = edits[e].cred
             /\ edits'[e].kind = edits[e].kind /\ edits'[e].copy = Aged(edits[e].copy)
  BY <1>1 DEF Tick, GoodEdit, Edit
<1>4. ASSUME NEW c \in Creds
      PROVE  /\ sync'[c].seen = sync[c].seen /\ sync'[c].next = sync[c].next
             /\ sync'[c].applying = Aged(sync[c].applying)
  BY <1>1 DEF Tick, GoodSync, Sync
<1> QED BY <1>2, <1>3, <1>4 DEF Tick

(* A process that starts has the files, and nothing under way. *)
LEMMA RestartDoes ==
    ASSUME IInv, Restart
    PROVE  /\ due' = {}
           /\ \A j \in Refreshers : jobs'[j].pc = "idle" /\ jobs'[j].cred = None
           /\ \A e \in Operators : edits'[e].pc = "idle" /\ edits'[e].cred = None
           /\ \A c \in Creds : c \notin missed' => c \notin missed /\ ~Unsaved(c) /\ files'[c] = files[c]
           /\ \A c \in Creds : /\ sync'[c].next = sync'[c].seen /\ sync'[c].applying = None
                               /\ sync'[c].seen \in {files'[c], None}
                               /\ ~Watching => sync'[c].seen = None
           /\ \A c \in Creds : files'[c] # None =>
                  /\ auths'[c] # None /\ ContentOf(auths'[c]) = files'[c]
                  /\ auths'[c].token = files'[c].token
           /\ UNCHANGED <<issued, lapsed>>
<1>1. /\ due' = {} /\ UNCHANGED <<issued, lapsed>>
      /\ jobs' = [j \in Refreshers |-> IdleJob] /\ edits' = [e \in Operators |-> IdleEdit]
      /\ sync' = Started(files') /\ auths' = Loaded(files')
      /\ missed' = missed \cup {c \in Creds : Unsaved(c)}
      /\ files' \in [Creds -> Content \cup {None}]
  BY DEF Restart, IInv, RestOK
<1>2. ASSUME NEW c \in Creds, c \notin missed'
      PROVE  c \notin missed /\ ~Unsaved(c) /\ files'[c] = files[c]
  <2>1. c \notin missed /\ ~Unsaved(c)
    BY <1>1, <1>2
  <2>2. c \notin Saving
    BY <2>1 DEF Saving, Unsaved
  <2> QED BY <2>1, <2>2 DEF Restart
<1>3. ASSUME NEW c \in Creds, files'[c] # None
      PROVE  /\ auths'[c] # None /\ ContentOf(auths'[c]) = files'[c]
             /\ auths'[c].token = files'[c].token
  <2>1. files'[c] \in Content /\ auths'[c] = NewAuth(files'[c])
    BY <1>1, <1>3 DEF Loaded
  <2>2. NewAuth(files'[c]) # None
    BY <2>1, NewEntry, NoneAssumption DEF Entry
  <2> QED BY <2>1, <2>2 DEF NewAuth, ContentOf, Content
<1>4. ASSUME NEW c \in Creds
      PROVE  /\ sync'[c].next = sync'[c].seen /\ sync'[c].applying = None
             /\ sync'[c].seen \in {files'[c], None}
             /\ ~Watching => sync'[c].seen = None
  BY <1>1 DEF Started, Watched, Unwatched
<1> QED BY <1>1, <1>2, <1>3, <1>4 DEF IdleJob, IdleEdit

-----------------------------------------------------------------------------
(* MarkResult moves nobody. *)
LEMMA ResultOrder ==
    ASSUME Orderly, AInv, NEW c \in Creds, NEW result, MarkResult(c, result)
    PROVE  KeptInOrder'
BY ResultDoes DEF AInv, KeptInOrder, Named, Alone, Marked, AtWork, AtEdit, AtRenewal

(* The watcher brings nothing to a credential a new token is asked for. *)
LEMMA SyncOrder ==
    ASSUME Orderly, AInv, NEW c \in Creds, SyncStep(c)
    PROVE  KeptInOrder'
<1>1. CASE Notice(c)
  <2>1. ASSUME NEW d \in Creds PROVE ~Overlap(d)'
    BY <1>1 DEF Notice, KeptApart, Orderly
  <2>2. ASSUME NEW d \in Creds
        PROVE  AtWork(d)' \/ AtRenewal(d)' => sync'[d].next = None /\ sync'[d].applying = None
    BY <2>1 DEF AtWork, AtRenewal, Overlap, Refreshing, Editing, Renewing
  <2> QED BY <1>1, <2>2, NoticeDoes DEF AInv, KeptInOrder, Named, Alone, Marked, AtWork, AtEdit
<1>2. CASE BeginApply(c)
  BY <1>2, BeginApplyDoes DEF AInv, KeptInOrder, Named, Alone, Marked, AtWork, AtEdit, AtRenewal
<1>3. CASE EndApply(c)
  BY <1>3, EndApplyDoes DEF AInv, KeptInOrder, Named, Alone, Marked, AtWork, AtEdit, AtRenewal
<1> QED BY <1>1, <1>2, <1>3 DEF SyncStep

(* No token nears its expiry before it is stored and saved. *)
LEMMA LapseOrder ==
    ASSUME Orderly, AInv, NEW c \in Creds, Lapse(c)
    PROVE  KeptInOrder'
<1>1. /\ UNCHANGED <<auths, files, due, jobs, edits, sync, issued, missed>>
      /\ \A d \in Creds : lapsed'[d] = IF d = c THEN issued[c] + 1 ELSE lapsed[d]
      /\ ~Unsaved(c)
  BY DEF Lapse, Orderly, Quiet, AInv, IInv, RestOK
<1>2. issued[c] \in Nat
  BY DEF AInv, IInv, RestOK, Tokens
<1> QED BY <1>1, <1>2 DEF AInv, KeptInOrder, Named, Alone, Marked, AtWork, AtEdit, AtRenewal, Unsaved

(* No wait runs out under a refresh. *)
LEMMA TickOrder ==
    ASSUME Orderly, AInv, Tick
    PROVE  KeptInOrder'
<1>1. IInv /\ Prompt
  BY DEF AInv, Orderly
<1>2. ASSUME NEW c \in Creds, NEW j \in Refreshers, jobs[j].cred = c
      PROVE  /\ auths[c] \in Entry /\ auths[c].wait > 1
             /\ auths'[c].wait > 0 /\ auths'[c].token = auths[c].token
             /\ jobs[j].copy # None => jobs'[j].copy.token = jobs[j].copy.token
  <2>1. jobs[j].pc # "idle" /\ jobs[j] \in GoodJob
    BY <1>2, NoneAssumption DEF AInv, KeptInOrder, Named, IInv, JobsOK
  <2>2. auths[c] \in Entry /\ auths[c].wait > 1
    BY <1>1, <1>2, <2>1 DEF Tick, IInv, JobsOK, EntriesOK
  <2>3. auths[c] # None /\ jobs[j].copy \in Entry \cup {None}
    BY <2>1, <2>2, NoneAssumption DEF Entry, GoodJob
  <2> QED BY <1>1, <2>2, <2>3, AgedSame, TickDoes
<1>3. ASSUME NEW j \in Refreshers, jobs[j].pc \in {"answered", "saving"}
      PROVE  jobs[j].copy # None
  BY <1>3, NoneAssumption DEF AInv, IInv, JobsOK, GoodJob, Entry
<1>4. ASSUME NEW c \in Creds
      PROVE  sync[c].applying = None => sync'[c].applying = None
  BY <1>1, TickDoes DEF Aged
<1>5. Named' /\ \A c \in Creds : Alone(c)'
  BY <1>1, <1>4, TickDoes DEF AInv, KeptInOrder, Named, Alone, AtWork, AtEdit, AtRenewal
<1>6. ASSUME NEW c \in Creds PROVE Marked(c)'
  BY <1>1, <1>2, <1>3, TickDoes DEF AInv, KeptInOrder, Marked
<1> QED BY <1>5, <1>6 DEF KeptInOrder

(* After a restart nobody is at work. *)
LEMMA RestartOrder ==
    ASSUME Orderly, AInv, Restart
    PROVE  KeptInOrder'
BY RestartDoes, NoneAssumption DEF AInv, KeptInOrder, Named, Alone, Marked, AtWork, AtEdit, AtRenewal

(* At the first start nobody is at work. *)
LEMMA InitOrder ==
    ASSUME Init
    PROVE  KeptInOrder
<1>1. /\ \A j \in Refreshers : jobs[j].pc = "idle" /\ jobs[j].cred = None
      /\ \A e \in Operators : edits[e].pc = "idle" /\ edits[e].cred = None
      /\ \A c \in Creds : issued[c] = 0 /\ lapsed[c] = 0
  BY DEF Init, IdleJob, IdleEdit
<1> QED BY <1>1, NoneAssumption DEF KeptInOrder, Named, Alone, Marked, AtWork, AtEdit, AtRenewal

(* Every step of Next keeps the order. *)
LEMMA NextOrder ==
    ASSUME Orderly, AInv, [Next]_vars
    PROVE  AInv'
<1>1. IInv'
  BY NextKeeps DEF AInv
<1>2. ASSUME NEW j \in Refreshers, RefreshStep(j) PROVE KeptInOrder'
  BY <1>2, MarkAlone, JobStepOrder, EndOrder DEF RefreshStep
<1>3. ASSUME NEW e \in Operators, EditStep(e) PROVE KeptInOrder'
  BY <1>3, BeginOrder, EditOrder DEF EditStep
<1>4. ASSUME NEW c \in Creds, SyncStep(c) \/ Lapse(c) PROVE KeptInOrder'
  BY <1>4, SyncOrder, LapseOrder
<1>5. ASSUME NEW c \in Creds, NEW result \in Results, MarkResult(c, result)
      PROVE  KeptInOrder'
  BY <1>5, ResultOrder
<1>6. CASE CheckRefreshes \/ Tick \/ Restart
  BY <1>1, <1>6, PassOrder, TickOrder, RestartOrder DEF AInv
<1>7. CASE StopAutoRefresh \/ UNCHANGED vars
  BY <1>1, <1>7 DEF StopAutoRefresh, vars, AInv, KeptInOrder, Named, Alone, Marked, AtWork, AtEdit, AtRenewal
<1> QED BY <1>1, <1>2, <1>3, <1>4, <1>5, <1>6, <1>7 DEF Next, AInv

(* Elements that are all the same are one at most. *)
LEMMA AtMostOne ==
    ASSUME NEW S, \A x, y \in S : x = y
    PROVE  Cardinality(S) <= 1
<1>1. CASE S = {}
  BY <1>1, FS_EmptySet
<1>2. ASSUME NEW x \in S PROVE Cardinality(S) <= 1
  <2>1. S = {x}
    OBVIOUS
  <2> QED BY <2>1, FS_Singleton
<1> QED BY <1>1, <1>2

(* While refreshes end within their pending wait and updates do not overlap, *)
(* a credential has one refresh at a time, though every pass works from an   *)
(* older snapshot and the entry a refresh stores no longer waits: the next   *)
(* pass finds its token too new (checkRefreshes, markRefreshPending).        *)
THEOREM OneRefresh == Orderly => (Spec => []OneRefreshAtATime)
<1> SUFFICES ASSUME Orderly PROVE Spec => []OneRefreshAtATime
  OBVIOUS
<1>1. Init => AInv
  BY InitKeeps, InitOrder DEF AInv
<1>2. AInv => OneRefreshAtATime
  <2> SUFFICES ASSUME AInv, NEW c \in Creds PROVE Cardinality(Refreshing(c)) <= 1
    BY DEF OneRefreshAtATime
  <2>1. \A j, k \in Refreshing(c) : j = k
    BY DEF AInv, KeptInOrder, Alone, Refreshing
  <2> QED BY <2>1, AtMostOne
<1>3. AInv /\ [Next]_vars => AInv'
  BY NextOrder
<1> QED BY <1>1, <1>2, <1>3, PTL DEF Spec

-----------------------------------------------------------------------------
(* A new token that is not yet in the manager, and one not yet in the file. *)
Unstored(c) ==
    \/ \E j \in Refreshers : jobs[j].cred = c /\ jobs[j].pc = "answered"
    \/ \E e \in Operators : edits[e].cred = c /\ edits[e].kind = "renew" /\ edits[e].pc = "holding"
Unwritten(c) ==
    \/ \E j \in Refreshers : jobs[j].cred = c /\ jobs[j].pc = "saving"
    \/ \E e \in Operators : edits[e].cred = c /\ edits[e].kind = "renew" /\ edits[e].pc = "saving"

(* Where the newest token is: in the manager and the file, but for those who *)
(* are just bringing it there, and in all that others hold of it.            *)
TokenKept(c) ==
    /\ auths[c] # None /\ files[c] # None
    /\ ~Unstored(c) => auths[c].token = issued[c]
    /\ ~Unstored(c) /\ ~Unwritten(c) => files[c].token = issued[c]
    /\ \A e \in Operators :
          edits[e].cred = c /\ edits[e].pc \in {"holding", "saving"} => edits[e].copy.token = issued[c]
    /\ sync[c].next # None => sync[c].next.token = issued[c]
    /\ sync[c].applying # None => sync[c].applying.token = issued[c]

(* Who is between the update of the entry and the end of its save, and that *)
(* the entry still is as it was then.                                        *)
InSave(c) ==
    \/ \E j \in Refreshers : jobs[j].cred = c /\ jobs[j].pc = "saving"
    \/ \E e \in Operators : edits[e].cred = c /\ edits[e].pc = "saving"
BeingSaved(c) ==
    \/ \E j \in Refreshers :
          jobs[j].cred = c /\ jobs[j].pc = "saving" /\ ContentOf(jobs[j].copy) = ContentOf(auths[c])
    \/ \E e \in Operators :
          edits[e].cred = c /\ edits[e].pc = "saving" /\ ContentOf(edits[e].copy) = ContentOf(auths[c])

(* What the watcher has on its way is what it saw last, and once it is       *)
(* through the entry comes from there, from who saves it, or from the file.  *)
Carried(c) ==
    /\ ~Watching => sync[c].seen = None
    /\ sync[c].next # None => sync[c].next = sync[c].seen
    /\ sync[c].next = None /\ sync[c].applying # None => ContentOf(sync[c].applying) = sync[c].seen
    /\ sync[c].next = None /\ sync[c].applying = None =>
          \/ ContentOf(auths[c]) = sync[c].seen
          \/ BeingSaved(c)
          \/ ~InSave(c) /\ ContentOf(auths[c]) = files[c]

AllKept == \A c \in Creds : c \notin missed => TokenKept(c) /\ Carried(c)

KInv == AInv /\ AllKept

(* A new token is with its goroutine, then in the manager. *)
LEMMA JobStepKept ==
    ASSUME Orderly, KInv, NEW j \in Refreshers,
           TakeSlot(j) \/ RefreshSucceeds(j) \/ StoreRefreshed(j)
    PROVE  AllKept'
<1>1. IInv
  BY DEF KInv, AInv
<1>2. CASE TakeSlot(j)
  BY <1>1, <1>2, SlotDoes
     DEF KInv, AllKept, TokenKept, Carried, Unstored, Unwritten, InSave, BeingSaved
<1>3. CASE RefreshSucceeds(j)
  <2>1. ASSUME NEW d \in Creds, d \notin missed' PROVE TokenKept(d)'
    BY <1>1, <1>3, <2>1, SucceedDoes
       DEF KInv, AllKept, TokenKept, Unstored, Unwritten, AInv, KeptInOrder, Alone, AtWork, AtEdit
  <2>2. ASSUME NEW d \in Creds, d \notin missed' PROVE Carried(d)'
    BY <1>1, <1>3, <2>2, SucceedDoes
       DEF KInv, AllKept, Carried, InSave, BeingSaved
  <2> QED BY <2>1, <2>2 DEF AllKept
<1>4. CASE StoreRefreshed(j)
  <2>1. ASSUME NEW d \in Creds, d \notin missed' PROVE TokenKept(d)'
    BY <1>1, <1>4, <2>1, StoreDoes, NoneAssumption
       DEF KInv, AllKept, TokenKept, Unstored, Unwritten, AInv, KeptInOrder, Alone, Marked, AtWork, AtEdit, Entry
  <2>2. ASSUME NEW d \in Creds, d \notin missed' PROVE Carried(d)'
    BY <1>1, <1>4, <2>2, StoreDoes
       DEF KInv, AllKept, Carried, InSave, BeingSaved
  <2> QED BY <2>1, <2>2 DEF AllKept
<1> QED BY <1>2, <1>3, <1>4

(* What a save has written. *)
LEMMA Written ==
    ASSUME NEW a \in Entry
    PROVE  /\ ContentOf(a) # None /\ ContentOf(a).token = a.token
           /\ a # None
BY NoneAssumption DEF ContentOf, Content, Entry, Auth

(* A goroutine that ends has saved its token, or never had one. *)
LEMMA EndKept ==
    ASSUME Orderly, KInv, NEW j \in Refreshers,
           RefreshFails(j) \/ RefreshCancelled(j) \/ SaveRefreshed(j)
    PROVE  AllKept'
<1> DEFINE c == jobs[j].cred
<1>1. IInv /\ None \notin Creds
  BY NoneAssumption DEF KInv, AInv
<1>2. /\ jobs[j].pc # "idle" /\ c \in Creds
      /\ jobs'[j].pc = "idle" /\ jobs'[j].cred = None
      /\ \A k \in Refreshers : k # j => jobs'[k] = jobs[k]
      /\ \A d \in Creds : d # c => auths'[d] = auths[d]
      /\ auths[c] # None /\ auths'[c] # None
      /\ ContentOf(auths'[c]) = ContentOf(auths[c]) /\ auths'[c].token = auths[c].token
      /\ UNCHANGED <<due, edits, sync, issued, lapsed>>
  BY <1>1, EndDoes
<1>3. CASE RefreshFails(j) \/ RefreshCancelled(j)
  <2>1. jobs[j].pc \in {"queued", "calling"} /\ UNCHANGED <<files, missed>>
    BY <1>3 DEF RefreshFails, RefreshCancelled
  <2>2. ASSUME NEW d \in Creds, d \notin missed' PROVE TokenKept(d)'
    BY <1>1, <1>2, <2>1, <2>2 DEF KInv, AllKept, TokenKept, Unstored, Unwritten
  <2>3. ASSUME NEW d \in Creds, d \notin missed' PROVE Carried(d)'
    BY <1>1, <1>2, <2>1, <2>3 DEF KInv, AllKept, Carried, InSave, BeingSaved
  <2> QED BY <2>2, <2>3 DEF AllKept
<1>4. CASE SaveRefreshed(j)
  <2>1. /\ jobs[j].pc = "saving" /\ jobs[j].copy \in Entry /\ SaveOrFail(c, jobs[j].copy)
        /\ UNCHANGED auths
    BY <1>1, <1>4 DEF SaveRefreshed, IInv, JobsOK, GoodJob
  <2>2. /\ missed \subseteq missed'
        /\ \A d \in Creds : d # c => files'[d] = files[d]
        /\ files[c] # None /\ c \notin missed' => files'[c] = ContentOf(jobs[j].copy)
    BY <1>1, <1>2, <2>1, SaveDoes DEF IInv
  <2>3. ContentOf(jobs[j].copy) # None /\ ContentOf(jobs[j].copy).token = jobs[j].copy.token
    BY <2>1, Written
  <2>4. jobs[j].copy.token = issued[c] /\ auths[c].token = issued[c]
    BY <1>2, <2>1 DEF KInv, AInv, KeptInOrder, Marked
  <2>5. /\ \A k \in Refreshers : jobs[k].cred = c => k = j
        /\ \A e \in Operators : edits[e].cred # c
    BY <1>2 DEF KInv, AInv, KeptInOrder, Alone, AtWork, AtEdit
  <2>6. ASSUME NEW d \in Creds, d \notin missed' PROVE TokenKept(d)'
    BY <1>1, <1>2, <2>1, <2>2, <2>3, <2>4, <2>5, <2>6 DEF KInv, AllKept, TokenKept, Unstored, Unwritten
  <2>7. ASSUME NEW d \in Creds, d \notin missed' PROVE Carried(d)'
    BY <1>1, <1>2, <2>1, <2>2, <2>3, <2>5, <2>7 DEF KInv, AllKept, TokenKept, Carried, InSave, BeingSaved
  <2> QED BY <2>6, <2>7 DEF AllKept
<1> QED BY <1>3, <1>4

(* A request clones the newest token. *)
LEMMA BeginKept ==
    ASSUME Orderly, KInv, KeptInOrder', NEW e \in Operators, NEW c \in Creds, NEW kind \in Edits,
           BeginEdit(e, c, kind)
    PROVE  AllKept'
<1>1. IInv /\ None \notin Creds
  BY NoneAssumption DEF KInv, AInv
<1>2. /\ edits[e].pc = "idle" /\ edits'[e].pc \in {"calling", "holding"} /\ edits'[e].cred = c
      /\ edits'[e].pc = "calling" <=> edits'[e].kind = "renew"
      /\ edits'[e].copy.token = auths[c].token
      /\ \A d \in Operators : d # e => edits'[d] = edits[d]
      /\ UNCHANGED <<auths, files, due, jobs, sync, issued, lapsed, missed>>
  BY <1>1, BeginDoes
<1>3. edits[e].cred = None
  BY <1>2 DEF KInv, AInv, KeptInOrder, Named
<1>4. /\ \A j \in Refreshers : jobs[j].cred # c
      /\ \A d \in Operators : edits[d].cred # c
  BY <1>1, <1>2, <1>3 DEF KeptInOrder, Alone, AtWork, AtEdit
<1>5. ASSUME NEW d \in Creds, d \notin missed' PROVE TokenKept(d)'
  BY <1>1, <1>2, <1>3, <1>4, <1>5 DEF KInv, AllKept, TokenKept, Unstored, Unwritten
<1>6. ASSUME NEW d \in Creds, d \notin missed' PROVE Carried(d)'
  BY <1>1, <1>2, <1>3, <1>6 DEF KInv, AllKept, Carried, InSave, BeingSaved
<1> QED BY <1>5, <1>6 DEF AllKept

(* A renewal that is answered, and an edit that is stored. *)
LEMMA EditStepKept ==
    ASSUME Orderly, KInv, NEW e \in Operators, RenewAnswers(e) \/ StoreEdit(e)
    PROVE  AllKept'
<1>1. IInv /\ None \notin Creds
  BY NoneAssumption DEF KInv, AInv
<1>2. CASE RenewAnswers(e)
  <2>1. edits[e].kind = "renew"
    BY <1>1, <1>2, AnswerDoes DEF KInv, AInv, KeptInOrder, Named
  <2>2. ASSUME NEW d \in Creds, d \notin missed' PROVE TokenKept(d)'
    BY <1>1, <1>2, <2>1, <2>2, AnswerDoes
       DEF KInv, AllKept, TokenKept, Unstored, Unwritten, AInv, KeptInOrder, Alone, AtWork, AtEdit, AtRenewal
  <2>3. ASSUME NEW d \in Creds, d \notin missed' PROVE Carried(d)'
    BY <1>1, <1>2, <2>3, AnswerDoes DEF KInv, AllKept, Carried, InSave, BeingSaved
  <2> QED BY <2>2, <2>3 DEF AllKept
<1>3. CASE StoreEdit(e)
  <2>1. ASSUME NEW d \in Creds, d \notin missed' PROVE TokenKept(d)'
    BY <1>1, <1>3, <2>1, StoreEditDoes, NoneAssumption
       DEF KInv, AllKept, TokenKept, Unstored, Unwritten, AInv, KeptInOrder, Alone, AtWork, AtEdit, Entry
  <2>2. ASSUME NEW d \in Creds, d \notin missed' PROVE Carried(d)'
    BY <1>1, <1>3, <2>2, StoreEditDoes DEF KInv, AllKept, Carried, InSave, BeingSaved
  <2> QED BY <2>1, <2>2 DEF AllKept
<1> QED BY <1>2, <1>3

(* The save of a request. *)
LEMMA SaveEditKept ==
    ASSUME Orderly, KInv, NEW e \in Operators, SaveEdit(e)
    PROVE  AllKept'
<1> DEFINE c == edits[e].cred
<1>1. IInv /\ None \notin Creds
  BY NoneAssumption DEF KInv, AInv
<1>2. /\ edits[e].pc = "saving" /\ c \in Creds /\ edits[e].copy \in Entry
      /\ edits'[e].pc = "idle" /\ edits'[e].cred = None
      /\ \A d \in Operators : d # e => edits'[d] = edits[d]
      /\ UNCHANGED <<auths, due, jobs, sync, issued, lapsed>>
  BY <1>1, SaveEditDoes
<1>3. /\ missed \subseteq missed'
      /\ \A d \in Creds : d # c => files'[d] = files[d]
      /\ files[c] # None /\ c \notin missed' => files'[c] = ContentOf(edits[e].copy)
  BY <1>1, <1>2, SaveDoes DEF SaveEdit, IInv
<1>4. ContentOf(edits[e].copy) # None /\ ContentOf(edits[e].copy).token = edits[e].copy.token
  BY <1>2, Written
<1>5. /\ \A d \in Operators : edits[d].cred = c => d = e
      /\ \A j \in Refreshers : jobs[j].cred # c
  BY <1>2 DEF KInv, AInv, KeptInOrder, Alone, AtWork, AtEdit
<1>6. ASSUME NEW d \in Creds, d \notin missed' PROVE TokenKept(d)'
  BY <1>1, <1>2, <1>3, <1>4, <1>5, <1>6 DEF KInv, AllKept, TokenKept, Unstored, Unwritten
<1>7. ASSUME NEW d \in Creds, d \notin missed' PROVE Carried(d)'
  BY <1>1, <1>2, <1>3, <1>4, <1>5, <1>7 DEF KInv, AllKept, TokenKept, Carried, InSave, BeingSaved
<1> QED BY <1>6, <1>7 DEF AllKept

(* MarkResult writes the entry as it is into the file. *)
LEMMA ResultKept ==
    ASSUME Orderly, KInv, NEW c \in Creds, NEW result, MarkResult(c, result)
    PROVE  AllKept'
<1>1. IInv
  BY DEF KInv, AInv
<1>2. /\ auths'[c] \in Entry /\ auths'[c].token = auths[c].token
      /\ ContentOf(auths'[c]) = ContentOf(auths[c])
      /\ \A d \in Creds : d # c => auths'[d] = auths[d]
      /\ SaveOrFail(c, auths'[c])
      /\ UNCHANGED <<due, jobs, edits, sync, issued, lapsed, stopped>>
  BY <1>1, ResultDoes
<1>3. /\ missed \subseteq missed'
      /\ \A d \in Creds : d # c => files'[d] = files[d]
      /\ files[c] # None /\ c \notin missed' => files'[c] = ContentOf(auths'[c])
  BY <1>1, <1>2, SaveDoes DEF IInv
<1>4. auths'[c] # None /\ ContentOf(auths'[c]) # None /\ ContentOf(auths'[c]).token = auths'[c].token
  BY <1>2, Written
<1>5. ASSUME NEW d \in Creds, d \notin missed' PROVE TokenKept(d)'
  BY <1>2, <1>3, <1>4, <1>5 DEF KInv, AllKept, TokenKept, Unstored, Unwritten
<1>6. ASSUME NEW d \in Creds, d \notin missed' PROVE Carried(d)'
  BY <1>2, <1>3, <1>4, <1>6 DEF KInv, AllKept, TokenKept, Carried, InSave, BeingSaved
<1> QED BY <1>5, <1>6 DEF AllKept

(* What the watcher reads, and brings to the manager. *)
LEMMA SyncKept ==
    ASSUME Orderly, KInv, KeptInOrder', NEW c \in Creds, SyncStep(c)
    PROVE  AllKept'
<1>1. IInv
  BY DEF KInv, AInv
<1>2. CASE Notice(c)
  <2>1. ~AtWork(c) /\ ~AtRenewal(c)
    BY <1>1, <1>2, NoticeDoes DEF KeptInOrder, Alone, AtWork, AtRenewal
  <2>2. ~Unstored(c) /\ ~Unwritten(c)
    BY <2>1 DEF Unstored, Unwritten, AtWork, AtRenewal
  <2>3. ASSUME NEW d \in Creds, d \notin missed' PROVE TokenKept(d)'
    BY <1>1, <1>2, <2>2, <2>3, NoticeDoes DEF KInv, AllKept, TokenKept, Unstored, Unwritten
  <2>4. ASSUME NEW d \in Creds, d \notin missed' PROVE Carried(d)'
    BY <1>1, <1>2, <2>4, NoticeDoes DEF KInv, AllKept, Carried, InSave, BeingSaved
  <2> QED BY <2>3, <2>4 DEF AllKept
<1>3. CASE BeginApply(c)
  <2>1. ASSUME NEW d \in Creds, d \notin missed' PROVE TokenKept(d)'
    BY <1>1, <1>3, <2>1, BeginApplyDoes DEF KInv, AllKept, TokenKept, Unstored, Unwritten
  <2>2. ASSUME NEW d \in Creds, d \notin missed' PROVE Carried(d)'
    BY <1>1, <1>3, <2>2, BeginApplyDoes, Written DEF KInv, AllKept, Carried, InSave, BeingSaved
  <2> QED BY <2>1, <2>2 DEF AllKept
<1>4. CASE EndApply(c)
  <2>1. ASSUME NEW d \in Creds, d \notin missed' PROVE TokenKept(d)'
    BY <1>1, <1>4, <2>1, EndApplyDoes, Written DEF KInv, AllKept, TokenKept, Unstored, Unwritten
  <2>2. ASSUME NEW d \in Creds, d \notin missed' PROVE Carried(d)'
    BY <1>1, <1>4, <2>2, EndApplyDoes DEF KInv, AllKept, Carried, InSave, BeingSaved
  <2> QED BY <2>1, <2>2 DEF AllKept
<1> QED BY <1>2, <1>3, <1>4 DEF SyncStep

(* Time changes no token and no content. *)
LEMMA TickKept ==
    ASSUME Orderly, KInv, Tick
    PROVE  AllKept'
<1>1. IInv
  BY DEF KInv, AInv
<1>2. ASSUME NEW c \in Creds
      PROVE  /\ auths'[c] = None <=> auths[c] = None
             /\ auths[c] # None => auths'[c].token = auths[c].token /\ ContentOf(auths'[c]) = ContentOf(auths[c])
             /\ sync'[c].applying = None <=> sync[c].applying = None
             /\ sync[c].applying # None =>
                   /\ sync'[c].applying.token = sync[c].applying.token
                   /\ ContentOf(sync'[c].applying) = ContentOf(sync[c].applying)
  <2>1. auths[c] \in Entry \cup {None} /\ sync[c].applying \in Entry \cup {None}
    BY <1>1 DEF IInv, EntriesOK, SyncOK, GoodSync
  <2> QED BY <1>1, <2>1, AgedSame, TickDoes
<1>3. ASSUME NEW j \in Refreshers, jobs[j].pc \in {"answered", "saving"}
      PROVE  /\ jobs'[j].copy.token = jobs[j].copy.token
             /\ ContentOf(jobs'[j].copy) = ContentOf(jobs[j].copy)
  <2>1. jobs[j].copy \in Entry \cup {None} /\ jobs[j].copy # None
    BY <1>1, <1>3, NoneAssumption DEF IInv, JobsOK, GoodJob, Entry
  <2> QED BY <1>1, <2>1, AgedSame, TickDoes
<1>4. ASSUME NEW e \in Operators, edits[e].pc \in {"holding", "saving"}
      PROVE  /\ edits'[e].copy.token = edits[e].copy.token
             /\ ContentOf(edits'[e].copy) = ContentOf(edits[e].copy)
  <2>1. edits[e].copy \in Entry \cup {None} /\ edits[e].copy # None
    BY <1>1, <1>4, NoneAssumption DEF IInv, EditsOK, GoodEdit, Entry
  <2> QED BY <1>1, <2>1, AgedSame, TickDoes
<1>5. ASSUME NEW c \in Creds, c \notin missed' PROVE TokenKept(c)'
  BY <1>1, <1>2, <1>3, <1>4, <1>5, TickDoes DEF KInv, AllKept, TokenKept, Unstored, Unwritten
<1>6. ASSUME NEW c \in Creds, c \notin missed' PROVE Carried(c)'
  BY <1>1, <1>2, <1>3, <1>4, <1>6, TickDoes DEF KInv, AllKept, TokenKept, Carried, InSave, BeingSaved
<1> QED BY <1>5, <1>6 DEF AllKept

(* What a process that starts reads is what was acknowledged last. *)
LEMMA RestartKept ==
    ASSUME Orderly, KInv, Restart
    PROVE  AllKept'
<1>1. IInv /\ None \notin Creds
  BY NoneAssumption DEF KInv, AInv
<1>2. ASSUME NEW c \in Creds, c \notin missed'
      PROVE  /\ c \notin missed /\ ~Unstored(c) /\ ~Unwritten(c)
             /\ files'[c] = files[c] /\ files[c] # None /\ files[c].token = issued[c]
  <2>1. c \notin missed /\ ~Unsaved(c) /\ files'[c] = files[c]
    BY <1>1, <1>2, RestartDoes
  <2>2. ~Unstored(c) /\ ~Unwritten(c)
    BY <2>1 DEF Unsaved, Unstored, Unwritten
  <2> QED BY <2>1, <2>2 DEF KInv, AllKept, TokenKept
<1>3. ASSUME NEW c \in Creds, c \notin missed' PROVE TokenKept(c)'
  BY <1>1, <1>2, <1>3, RestartDoes DEF TokenKept, Unstored, Unwritten
<1>4. ASSUME NEW c \in Creds, c \notin missed' PROVE Carried(c)'
  BY <1>1, <1>2, <1>4, RestartDoes DEF Carried, InSave, BeingSaved
<1> QED BY <1>3, <1>4 DEF AllKept

(* At the first start the manager has what the files say. *)
LEMMA InitKept ==
    ASSUME Init
    PROVE  AllKept
<1>1. /\ \A j \in Refreshers : jobs[j].pc = "idle" /\ jobs[j].cred = None
      /\ \A e \in Operators : edits[e].pc = "idle" /\ edits[e].cred = None
  BY DEF Init, IdleJob, IdleEdit
<1>2. ASSUME NEW c \in Creds
      PROVE  /\ issued[c] = 0 /\ files[c] # None /\ files[c].token = 0
             /\ auths[c] # None /\ auths[c].token = 0 /\ ContentOf(auths[c]) = files[c]
             /\ sync[c].next = sync[c].seen /\ sync[c].applying = None
             /\ sync[c].seen \in {files[c], None}
             /\ ~Watching => sync[c].seen = None
  <2>1. files[c] = [token |-> 0, disabled |-> FALSE] /\ files[c] \in Content /\ issued[c] = 0
    BY BoundsAssumption DEF Init, Content, Tokens
  <2>2. auths[c] = NewAuth(files[c]) /\ files[c] # None
    BY <2>1, NoneAssumption DEF Init, Loaded
  <2>3. NewAuth(files[c]) # None
    BY <2>1, NewEntry, NoneAssumption DEF Entry
  <2>4. NewAuth(files[c]).token = 0 /\ ContentOf(NewAuth(files[c])) = files[c]
    BY <2>1 DEF NewAuth, ContentOf
  <2>5. /\ sync[c].next = sync[c].seen /\ sync[c].applying = None /\ sync[c].seen \in {files[c], None}
        /\ ~Watching => sync[c].seen = None
    BY DEF Init, Started, Watched, Unwatched
  <2> QED BY <2>1, <2>2, <2>3, <2>4, <2>5
<1> QED BY <1>1, <1>2, NoneAssumption DEF AllKept, TokenKept, Carried, Unstored, Unwritten, InSave, BeingSaved

(* Every step of Next keeps the newest token. *)
LEMMA NextKept ==
    ASSUME Orderly, KInv, [Next]_vars
    PROVE  KInv'
<1>1. AInv' /\ KeptInOrder'
  BY NextOrder DEF KInv, AInv
<1>2. ASSUME UNCHANGED <<auths, files, jobs, edits, sync, issued, missed>> PROVE AllKept'
  BY <1>2 DEF KInv, AllKept, TokenKept, Carried, Unstored, Unwritten, InSave, BeingSaved
<1>3. ASSUME NEW j \in Refreshers, RefreshStep(j) PROVE AllKept'
  <2>1. ASSUME NEW c \in Creds, MarkRefreshPending(j, c) PROVE AllKept'
    <3>1. c \in due /\ jobs[j].pc = "idle" /\ UNCHANGED <<files, edits, sync, issued, missed>>
      BY <2>1 DEF MarkRefreshPending
    <3>2. auths[c] \in Entry /\ jobs \in [Refreshers -> GoodJob] /\ auths \in [Creds -> Entry \cup {None}]
      BY <3>1 DEF KInv, AInv, IInv, DueOK, EntriesOK, JobsOK
    <3>3. \A k \in Refreshers : jobs'[k] = jobs[k] \/ (k = j /\ jobs'[k].pc = "queued")
      BY <2>1, <3>2 DEF MarkRefreshPending, IdleJob
    <3>4. ASSUME NEW d \in Creds
          PROVE  /\ auths[d] # None => auths'[d] # None
                 /\ auths'[d].token = auths[d].token /\ ContentOf(auths'[d]) = ContentOf(auths[d])
      <4> DEFINE a == [auths[c] EXCEPT !.wait = PendingWait]
      <4>1. a \in Entry /\ a.token = auths[c].token /\ ContentOf(a) = ContentOf(auths[c])
        BY <3>2, BoundsAssumption DEF Entry, Auth, ContentOf
      <4>2. a # None
        BY <4>1, Written
      <4>3. auths' = auths \/ auths' = [auths EXCEPT ![c] = a]
        BY <2>1, <3>2 DEF MarkRefreshPending
      <4> HIDE DEF a
      <4> QED BY <3>2, <4>1, <4>2, <4>3
    <3>5. ASSUME NEW d \in Creds, d \notin missed' PROVE TokenKept(d)'
      BY <3>1, <3>3, <3>4, <3>5 DEF KInv, AllKept, TokenKept, Unstored, Unwritten
    <3>6. ASSUME NEW d \in Creds, d \notin missed' PROVE Carried(d)'
      BY <3>1, <3>3, <3>4, <3>6 DEF KInv, AllKept, Carried, InSave, BeingSaved
    <3> QED BY <3>5, <3>6 DEF AllKept
  <2> QED BY <1>3, <2>1, JobStepKept, EndKept DEF RefreshStep
<1>4. ASSUME NEW e \in Operators, EditStep(e) PROVE AllKept'
  BY <1>1, <1>4, BeginKept, EditStepKept, SaveEditKept DEF EditStep
<1>5. ASSUME NEW c \in Creds, SyncStep(c) PROVE AllKept'
  BY <1>1, <1>5, SyncKept
<1>6. ASSUME NEW c \in Creds, NEW result \in Results, MarkResult(c, result) PROVE AllKept'
  BY <1>6, ResultKept
<1>7. ASSUME NEW c \in Creds, Lapse(c) PROVE AllKept'
  BY <1>2, <1>7 DEF Lapse
<1>8. Tick \/ Restart => AllKept'
  BY TickKept, RestartKept
<1>9. CheckRefreshes \/ StopAutoRefresh \/ UNCHANGED vars => AllKept'
  BY <1>2 DEF CheckRefreshes, StopAutoRefresh, vars
<1> QED BY <1>1, <1>3, <1>4, <1>5, <1>6, <1>7, <1>8, <1>9 DEF Next, KInv

(* Under the same conditions a token the provider issued is lost only by a   *)
(* save that fails or a crash before the end of it: once things are quiet,   *)
(* the manager and the file hold the newest one (refreshAuth, persist, the   *)
(* watcher's way back), across restarts and whatever else happens.  A lemma  *)
(* only: what Apart excludes is how the code does lose tokens.               *)
LEMMA NewestKept == Orderly => (Spec => []NewestTokenKept)
<1> SUFFICES ASSUME Orderly PROVE Spec => []NewestTokenKept
  OBVIOUS
<1>1. Init => KInv
  BY InitKeeps, InitOrder, InitKept DEF KInv, AInv
<1>2. KInv => NewestTokenKept
  <2> SUFFICES ASSUME KInv, NEW c \in Creds, c \notin missed, Quiet(c)
               PROVE  /\ auths[c] # None /\ auths[c].token = issued[c]
                      /\ files[c] # None /\ files[c].token = issued[c]
    BY DEF NewestTokenKept
  <2>1. ~Unstored(c) /\ ~Unwritten(c)
    BY DEF Quiet, Unsaved, Unstored, Unwritten
  <2> QED BY <2>1 DEF KInv, AllKept, TokenKept
<1>3. KInv /\ [Next]_vars => KInv'
  BY NextKept
<1> QED BY <1>1, <1>2, <1>3, PTL DEF Spec

(* ... and they agree on everything a file says, however late an update of   *)
(* the watcher arrives, with a watcher or without one: what is on its way is *)
(* always what was seen last, so an older one is followed by a newer.        *)
THEOREM FileStaysTruth == Orderly => (Spec => []FileIsTruth)
<1> SUFFICES ASSUME Orderly PROVE Spec => []FileIsTruth
  OBVIOUS
<1>1. Init => KInv
  BY InitKeeps, InitOrder, InitKept DEF KInv, AInv
<1>2. KInv => FileIsTruth
  <2> SUFFICES ASSUME KInv, NEW c \in Creds, c \notin missed, Quiet(c), files[c] # None
               PROVE  ContentOf(auths[c]) = files[c]
    BY DEF FileIsTruth
  <2>1. ~InSave(c) /\ ~BeingSaved(c)
    BY DEF Quiet, Unsaved, InSave, BeingSaved
  <2>2. sync[c].next = None /\ sync[c].applying = None /\ (Watching => sync[c].seen = files[c])
    BY DEF Quiet, Settled
  <2>3. ContentOf(auths[c]) # None
    BY Written DEF KInv, AInv, IInv, EntriesOK, AllKept, TokenKept
  <2> QED BY <2>1, <2>2, <2>3 DEF KInv, AllKept, Carried
<1>3. KInv /\ [Next]_vars => KInv'
  BY NextKept
<1> QED BY <1>1, <1>2, <1>3, PTL DEF Spec
=============================================================================

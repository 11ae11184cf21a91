------------------------ MODULE ModelRegistryProofs -------------------------
(***************************************************************************)
(* Proofs about ModelRegistry, for any clients, models, providers and      *)
(* lists: the reference counters never drift from the clients' lists, what *)
(* is listed is served, and the marks of other clients stay.               *)
(***************************************************************************)
EXTENDS ModelRegistry, NumberLemmas, TLAPS

-----------------------------------------------------------------------------
(* A model's counter and its counters per provider, zero if it is unknown. *)
CountOf(reg) == IF reg = NoModel THEN 0 ELSE reg.count
ProvidersOf(reg, p) == IF reg = NoModel THEN 0 ELSE reg.providers[p]

Entry == Registration \cup {NoModel}

(* The second entry is the first with "old" taken from provider oldP and    *)
(* "new" given to provider p; it is gone exactly if nothing is left.       *)
Shifted(reg, reg2, oldP, p, old, new) ==
    /\ reg2 \in Entry
    /\ CountOf(reg2) = (CountOf(reg) - old) + new
    /\ \A q \in Providers :
          CountOf(reg2) > 0 =>
          ProvidersOf(reg2, q) = (ProvidersOf(reg, q) - (IF q = oldP THEN old ELSE 0))
                                    + (IF q = p THEN new ELSE 0)

(* Both counters reach what is to be taken. *)
Reaches(reg, p, n) ==
    /\ n <= CountOf(reg)
    /\ p \in Providers => n <= ProvidersOf(reg, p)

(* The fields of a known model. *)
LEMMA RegistrationFields ==
    ASSUME NEW reg \in Registration
    PROVE  /\ reg.count \in Nat \ {0}
           /\ reg.providers \in [Providers -> Nat]
           /\ reg.quota \in [Clients -> {"none", "fresh", "stale"}]
           /\ reg.suspended \in [Clients -> {"none", "quota", "other"}]
BY DEF Registration

(* Changes of one field. *)
LEMMA WithCount ==
    ASSUME NEW reg \in Registration, NEW n \in Nat \ {0}
    PROVE  /\ [reg EXCEPT !.count = n] \in Registration
           /\ [reg EXCEPT !.count = n].count = n
           /\ [reg EXCEPT !.count = n].providers = reg.providers
           /\ [reg EXCEPT !.count = n].quota = reg.quota
           /\ [reg EXCEPT !.count = n].suspended = reg.suspended
BY DEF Registration

(* And of the counters per provider. *)
LEMMA WithProviders ==
    ASSUME NEW reg \in Registration, NEW f \in [Providers -> Nat]
    PROVE  /\ [reg EXCEPT !.providers = f] \in Registration
           /\ [reg EXCEPT !.providers = f].count = reg.count
           /\ [reg EXCEPT !.providers = f].providers = f
           /\ [reg EXCEPT !.providers = f].quota = reg.quota
           /\ [reg EXCEPT !.providers = f].suspended = reg.suspended
BY DEF Registration

(* The marks of one client go, the others stay. *)
LEMMA UnmarkedKeeps ==
    ASSUME NEW reg \in Registration, NEW c \in Clients
    PROVE  /\ Unmarked(reg, c) \in Registration
           /\ Unmarked(reg, c).count = reg.count
           /\ Unmarked(reg, c).providers = reg.providers
           /\ \A d \in Clients : d # c =>
                 /\ Unmarked(reg, c).quota[d] = reg.quota[d]
                 /\ Unmarked(reg, c).suspended[d] = reg.suspended[d]
BY DEF Registration, Unmarked

(* Taking from one provider what it has leaves the others alone. *)
LEMMA LessType ==
    ASSUME NEW f \in [Providers -> Nat], NEW p, NEW n \in Nat
    PROVE  /\ Less(f, p, n) \in [Providers -> Nat]
           /\ \A q \in Providers : n <= f[q] => Less(f, p, n)[q] = f[q] - (IF q = p THEN n ELSE 0)
           /\ \A q \in Providers : q # p => Less(f, p, n)[q] = f[q]
BY DEF Less, Lesser

(* Giving to one provider leaves the others alone. *)
LEMMA MoreType ==
    ASSUME NEW f \in [Providers -> Nat], NEW p, NEW n \in Nat
    PROVE  /\ More(f, p, n) \in [Providers -> Nat]
           /\ \A q \in Providers : More(f, p, n)[q] = f[q] + (IF q = p THEN n ELSE 0)
BY DEF More

(* addModelRegistration, n times. *)
LEMMA AddedShifts ==
    ASSUME NoModel \notin Registration, NEW reg \in Entry, NEW p, NEW n \in Nat
    PROVE  /\ Shifted(reg, Added(reg, p, n), NoModel, p, 0, n)
           /\ reg # NoModel => /\ Added(reg, p, n).quota = reg.quota
                               /\ Added(reg, p, n).suspended = reg.suspended
           /\ reg # NoModel => Added(reg, p, n) # NoModel
           /\ CountOf(reg) \in Nat
<1>1. CASE n = 0
  <2>1. Added(reg, p, n) = reg
    BY <1>1 DEF Added
  <2>2. CASE reg = NoModel
    BY <1>1, <2>1, <2>2 DEF Shifted, CountOf, ProvidersOf, Entry
  <2>3. CASE reg \in Registration
    BY <1>1, <2>1, <2>3, RegistrationFields DEF Shifted, CountOf, ProvidersOf, Entry
  <2> QED BY <2>1, <2>2, <2>3 DEF Entry
<1>2. CASE n # 0 /\ reg = NoModel
  <2> DEFINE none == [q \in Providers |-> 0]
             new  == [count |-> n, providers |-> More(none, p, n),
                      quota |-> [c \in Clients |-> "none"],
                      suspended |-> [c \in Clients |-> "none"]]
  <2>1. Added(reg, p, n) = new
    BY <1>2, Zenon DEF Added
  <2>2. none \in [Providers -> Nat]
    OBVIOUS
  <2>3. /\ More(none, p, n) \in [Providers -> Nat]
        /\ \A q \in Providers : More(none, p, n)[q] = none[q] + (IF q = p THEN n ELSE 0)
    BY <2>2, MoreType
  <2>4. new \in Registration
    BY <1>2, <2>3 DEF Registration
  <2>5. new.count = n /\ new.providers = More(none, p, n)
    OBVIOUS
  <2>6. \A q \in Providers : none[q] = 0
    OBVIOUS
  <2> HIDE DEF new, none
  <2> QED BY <1>2, <2>1, <2>3, <2>4, <2>5, <2>6 DEF Shifted, CountOf, ProvidersOf, Entry
<1>3. CASE n # 0 /\ reg # NoModel
  <2>1. reg \in Registration
    BY <1>3 DEF Entry
  <2> DEFINE grown == [reg EXCEPT !.count = reg.count + n]
             new == [grown EXCEPT !.providers = More(grown.providers, p, n)]
  <2>2. reg.count \in Nat \ {0} /\ reg.count + n \in Nat \ {0}
    BY <2>1, RegistrationFields
  <2>3. /\ grown \in Registration /\ grown.count = reg.count + n
        /\ grown.providers = reg.providers
        /\ grown.quota = reg.quota /\ grown.suspended = reg.suspended
    BY <2>1, <2>2, WithCount
  <2>4. Added(reg, p, n) = new
    BY <1>3, <2>1 DEF Added, Registration
  <2> HIDE DEF grown
  <2>5. /\ More(reg.providers, p, n) \in [Providers -> Nat]
        /\ \A q \in Providers : More(reg.providers, p, n)[q] = reg.providers[q] + (IF q = p THEN n ELSE 0)
    BY <2>1, MoreType, RegistrationFields
  <2>6. /\ new \in Registration /\ new.count = grown.count
        /\ new.providers = More(reg.providers, p, n)
        /\ new.quota = grown.quota /\ new.suspended = grown.suspended
    BY <2>3, <2>5, WithProviders
  <2>7. reg.providers \in [Providers -> Nat]
    BY <2>1, RegistrationFields
  <2> HIDE DEF new
  <2>8. Shifted(reg, new, NoModel, p, 0, n)
    BY <1>3, <2>2, <2>3, <2>5, <2>6, <2>7 DEF Shifted, CountOf, ProvidersOf, Entry
  <2>9. new # NoModel /\ CountOf(reg) \in Nat
    BY <2>2, <2>6 DEF CountOf
  <2> QED BY <2>3, <2>4, <2>6, <2>8, <2>9
<1> QED BY <1>1, <1>2, <1>3

(* removeModelRegistration, n times. *)
LEMMA RemovedShifts ==
    ASSUME NoModel \notin Registration, NEW reg \in Entry, NEW c \in Clients, NEW p,
           NEW n \in Nat, Reaches(reg, p, n)
    PROVE  /\ Shifted(reg, Removed(reg, c, p, n), p, NoModel, n, 0)
           /\ reg # NoModel /\ n < CountOf(reg) =>
                 /\ Removed(reg, c, p, n) # NoModel
                 /\ \A d \in Clients : d # c =>
                       /\ Removed(reg, c, p, n).quota[d] = reg.quota[d]
                       /\ Removed(reg, c, p, n).suspended[d] = reg.suspended[d]
<1>1. CASE n = 0 \/ reg = NoModel
  <2>1. Removed(reg, c, p, n) = reg
    BY <1>1 DEF Removed
  <2>2. CASE reg = NoModel
    BY <1>1, <2>1, <2>2 DEF Shifted, CountOf, ProvidersOf, Entry, Reaches
  <2>3. CASE reg \in Registration
    BY <1>1, <2>1, <2>3, RegistrationFields DEF Shifted, CountOf, ProvidersOf, Entry
  <2> QED BY <2>1, <2>2, <2>3 DEF Entry
<1>2. CASE ~ (n = 0 \/ reg = NoModel) /\ reg.count <= n
  <2>1. reg \in Registration
    BY <1>2 DEF Entry
  <2>2. Removed(reg, c, p, n) = NoModel /\ reg.count = n
    BY <1>2, <2>1, RegistrationFields DEF Removed, Reaches, CountOf
  <2> QED BY <1>2, <2>1, <2>2 DEF Shifted, CountOf, Entry
<1>3. CASE ~ (n = 0 \/ reg = NoModel) /\ ~ (reg.count <= n)
  <2>1. reg \in Registration
    BY <1>3 DEF Entry
  <2> DEFINE r1 == Unmarked(reg, c)
             r2 == [r1 EXCEPT !.count = reg.count - n]
             r3 == [r2 EXCEPT !.providers = Less(reg.providers, p, n)]
  <2>2. reg.count \in Nat /\ reg.count - n \in Nat \ {0} /\ reg.providers \in [Providers -> Nat]
    BY <1>3, <2>1, RegistrationFields
  <2>3. /\ r1 \in Registration /\ r1.count = reg.count /\ r1.providers = reg.providers
        /\ \A d \in Clients : d # c => r1.quota[d] = reg.quota[d] /\ r1.suspended[d] = reg.suspended[d]
    BY <2>1, UnmarkedKeeps
  <2>4. Removed(reg, c, p, n) = [r1 EXCEPT !.count = r1.count - n, !.providers = Less(r1.providers, p, n)]
    BY <1>3, Zenon DEF Removed
  <2> HIDE DEF r1
  <2>5. /\ r2 \in Registration /\ r2.count = reg.count - n /\ r2.providers = r1.providers
        /\ r2.quota = r1.quota /\ r2.suspended = r1.suspended
    BY <2>2, <2>3, WithCount
  <2>6. /\ Less(reg.providers, p, n) \in [Providers -> Nat]
        /\ \A q \in Providers : n <= reg.providers[q] =>
               Less(reg.providers, p, n)[q] = reg.providers[q] - (IF q = p THEN n ELSE 0)
        /\ \A q \in Providers : q # p => Less(reg.providers, p, n)[q] = reg.providers[q]
    BY <2>2, LessType
  <2>7. Removed(reg, c, p, n) = r3
    BY <2>3, <2>4 DEF Registration
  <2> HIDE DEF r2
  <2>8. /\ r3 \in Registration /\ r3.count = r2.count
        /\ r3.providers = Less(reg.providers, p, n)
        /\ r3.quota = r2.quota /\ r3.suspended = r2.suspended
    BY <2>5, <2>6, WithProviders
  <2> HIDE DEF r3
  <2>9. ASSUME NEW q \in Providers
        PROVE  Less(reg.providers, p, n)[q] = reg.providers[q] - (IF q = p THEN n ELSE 0)
    <3>1. CASE q = p
      <4>1. n <= reg.providers[q]
        BY <1>3, <3>1 DEF Reaches, ProvidersOf
      <4> QED BY <2>6, <4>1
    <3>2. CASE q # p
      BY <2>2, <2>6, <3>2
    <3> QED BY <3>1, <3>2
  <2>10. Shifted(reg, r3, p, NoModel, n, 0)
    <3>1. r3 # NoModel /\ r3 \in Entry
      BY <2>8 DEF Entry
    <3>2. CountOf(r3) = (CountOf(reg) - n) + 0
      BY <1>3, <2>2, <2>5, <2>8, <3>1 DEF CountOf
    <3>3. ASSUME NEW q \in Providers
          PROVE  ProvidersOf(r3, q) = (ProvidersOf(reg, q) - (IF q = p THEN n ELSE 0))
                                        + (IF q = NoModel THEN 0 ELSE 0)
      <4>1. ProvidersOf(r3, q) = Less(reg.providers, p, n)[q] /\ ProvidersOf(reg, q) = reg.providers[q]
        BY <1>3, <2>8, <3>1 DEF ProvidersOf
      <4>2. reg.providers[q] \in Nat
        BY <2>2
      <4> QED BY <2>9, <4>1, <4>2
    <3> QED BY <3>1, <3>2, <3>3 DEF Shifted
  <2>11. r3 # NoModel
    BY <2>8
  <2> QED BY <2>3, <2>5, <2>7, <2>8, <2>10, <2>11
<1> QED BY <1>1, <1>2, <1>3

(* The marks of all clients but c are those they were. *)
MarksKept(reg, reg2, c) ==
    /\ reg2 # NoModel
    /\ \A d \in Clients : d # c => /\ reg2.quota[d] = reg.quota[d]
                                   /\ reg2.suspended[d] = reg.suspended[d]

(* The first and the last step of Reconciled. *)
Detached(reg, oldP, p, kept) ==
    IF p # oldP /\ kept > 0 THEN [reg EXCEPT !.providers = Less(@, oldP, kept)] ELSE reg
Moved(reg, oldP, p, kept) ==
    IF p # oldP THEN [reg EXCEPT !.providers = More(@, p, kept)] ELSE reg

(* What stays named leaves its old provider first, if the client changes it, *)
LEMMA Detaches ==
    ASSUME NoModel \notin Registration, NEW reg \in Registration, NEW c \in Clients,
           NEW p, NEW oldP, NEW kept \in Nat, Reaches(reg, oldP, kept)
    PROVE  /\ Detached(reg, oldP, p, kept) \in Registration
           /\ Detached(reg, oldP, p, kept).count = reg.count
           /\ \A q \in Providers : Detached(reg, oldP, p, kept).providers[q]
                 = reg.providers[q] - (IF p # oldP /\ q = oldP THEN kept ELSE 0)
           /\ MarksKept(reg, Detached(reg, oldP, p, kept), c)
<1> DEFINE reg2 == [reg EXCEPT !.providers = Less(reg.providers, oldP, kept)]
<1>1. reg.providers \in [Providers -> Nat] /\ reg # NoModel
  BY RegistrationFields
<1>2. /\ Less(reg.providers, oldP, kept) \in [Providers -> Nat]
      /\ \A q \in Providers : kept <= reg.providers[q] =>
             Less(reg.providers, oldP, kept)[q] = reg.providers[q] - (IF q = oldP THEN kept ELSE 0)
      /\ \A q \in Providers : q # oldP => Less(reg.providers, oldP, kept)[q] = reg.providers[q]
  BY <1>1, LessType
<1>3. /\ reg2 \in Registration /\ reg2.count = reg.count
      /\ reg2.providers = Less(reg.providers, oldP, kept)
      /\ reg2.quota = reg.quota /\ reg2.suspended = reg.suspended
  BY <1>2, WithProviders
<1>4. [reg EXCEPT !.providers = Less(@, oldP, kept)] = reg2
  BY DEF Registration
<1> HIDE DEF reg2
<1>5. ASSUME NEW q \in Providers
      PROVE  Less(reg.providers, oldP, kept)[q] = reg.providers[q] - (IF q = oldP THEN kept ELSE 0)
  <2>1. CASE q = oldP
    <3>1. kept <= reg.providers[q]
      BY <1>1, <2>1 DEF Reaches, ProvidersOf
    <3> QED BY <1>2, <3>1
  <2>2. CASE q # oldP
    BY <1>1, <1>2, <2>2
  <2> QED BY <2>1, <2>2
<1>6. CASE p # oldP /\ kept > 0
  BY <1>1, <1>3, <1>4, <1>5, <1>6 DEF MarksKept, Detached
<1>7. CASE ~ (p # oldP /\ kept > 0)
  <2>1. \A q \in Providers : reg.providers[q] \in Nat
    BY <1>1
  <2>2. p # oldP => kept = 0
    BY <1>7
  <2> QED BY <1>1, <1>7, <2>1, <2>2 DEF MarksKept, Detached
<1> QED BY <1>6, <1>7

(* ... and is given to the new one last. *)
LEMMA Moves ==
    ASSUME NoModel \notin Registration, NEW reg \in Registration, NEW c \in Clients,
           NEW p, NEW oldP, NEW kept \in Nat
    PROVE  /\ Moved(reg, oldP, p, kept) \in Registration
           /\ Moved(reg, oldP, p, kept).count = reg.count
           /\ \A q \in Providers : Moved(reg, oldP, p, kept).providers[q]
                 = reg.providers[q] + (IF p # oldP /\ q = p THEN kept ELSE 0)
           /\ MarksKept(reg, Moved(reg, oldP, p, kept), c)
<1> DEFINE reg2 == [reg EXCEPT !.providers = More(reg.providers, p, kept)]
<1>1. reg.providers \in [Providers -> Nat] /\ reg # NoModel
  BY RegistrationFields
<1>2. /\ More(reg.providers, p, kept) \in [Providers -> Nat]
      /\ \A q \in Providers : More(reg.providers, p, kept)[q] = reg.providers[q] + (IF q = p THEN kept ELSE 0)
  BY <1>1, MoreType
<1>3. /\ reg2 \in Registration /\ reg2.count = reg.count
      /\ reg2.providers = More(reg.providers, p, kept)
      /\ reg2.quota = reg.quota /\ reg2.suspended = reg.suspended
  BY <1>2, WithProviders
<1>4. [reg EXCEPT !.providers = More(@, p, kept)] = reg2
  BY DEF Registration
<1> HIDE DEF reg2
<1>5. CASE p # oldP
  BY <1>1, <1>2, <1>3, <1>4, <1>5 DEF MarksKept, Moved
<1>6. CASE p = oldP
  <2>1. \A q \in Providers : reg.providers[q] \in Nat
    BY <1>1
  <2> QED BY <1>1, <1>6, <2>1 DEF MarksKept, Moved
<1> QED BY <1>5, <1>6

(* RegisterClient of a known client, for one model: whatever it was named   *)
(* before and is named now, and whether the provider changes or not.        *)
LEMMA ReconciledShifts ==
    ASSUME NoModel \notin Registration, NEW reg \in Entry, NEW c \in Clients,
           NEW p, NEW oldP, NEW old \in Nat, NEW new \in Nat, Reaches(reg, oldP, old)
    PROVE  /\ Shifted(reg, Reconciled(reg, c, oldP, p, old, new), oldP, p, old, new)
           /\ reg # NoModel /\ old < CountOf(reg) =>
                 MarksKept(reg, Reconciled(reg, c, oldP, p, old, new), c)
<1> DEFINE kept     == Lesser(old, new)
           detached == Detached(reg, oldP, p, kept)
           less     == IF old > new THEN old - new ELSE 0
           more     == IF new > old THEN new - old ELSE 0
           shrunk   == Removed(detached, c, oldP, less)
           grown    == Added(shrunk, p, more)
           moved    == Moved(grown, oldP, p, kept)
<1>1. Reconciled(reg, c, oldP, p, old, new) = IF new = 0 THEN grown ELSE Unmarked(moved, c)
  BY Zenon DEF Reconciled, Detached, Moved
<1>2. /\ kept \in Nat /\ less \in Nat /\ more \in Nat
      /\ kept + less = old /\ kept + more = new
      /\ new = 0 => kept = 0 /\ less = old /\ more = 0
      /\ old = 0 => kept = 0 /\ less = 0 /\ more = new
      /\ new > 0 /\ old > 0 => kept > 0
  BY DEF Lesser
<1> HIDE DEF kept, less, more
<1>3. CASE new = 0
  <2>1. detached = reg /\ less = old /\ more = 0
    BY <1>2, <1>3 DEF Detached
  <2>2. shrunk = Removed(reg, c, oldP, old)
    BY <2>1
  <2>3. grown = shrunk
    BY <2>1 DEF Added
  <2>4. /\ Shifted(reg, Removed(reg, c, oldP, old), oldP, NoModel, old, 0)
        /\ reg # NoModel /\ old < CountOf(reg) => MarksKept(reg, Removed(reg, c, oldP, old), c)
    BY RemovedShifts DEF MarksKept
  <2>5. Reconciled(reg, c, oldP, p, old, new) = Removed(reg, c, oldP, old)
    BY <1>1, <1>3, <2>2, <2>3
  <2>6. Shifted(reg, Removed(reg, c, oldP, old), oldP, p, old, 0)
    BY <2>4, Zenon DEF Shifted
  <2> QED BY <1>3, <2>4, <2>5, <2>6
<1>4. CASE new > 0 /\ reg = NoModel
  <2>1. old = 0 /\ kept = 0 /\ less = 0 /\ more = new
    BY <1>2, <1>4 DEF Reaches, CountOf
  <2>2. shrunk = NoModel
    BY <1>4, <2>1 DEF Removed, Detached
  <2>3. Shifted(NoModel, grown, NoModel, p, 0, new)
    BY <2>1, <2>2, AddedShifts DEF Entry
  <2>4. grown \in Registration /\ grown.count = new
    BY <1>4, <2>3 DEF Shifted, CountOf, Entry
  <2>5. \A q \in Providers : grown.providers[q] = IF q = p THEN new ELSE 0
    BY <1>4, <2>3, <2>4 DEF Shifted, CountOf, ProvidersOf
  <2> HIDE DEF grown
  <2>6. /\ moved \in Registration /\ moved.count = grown.count
        /\ \A q \in Providers : moved.providers[q]
               = grown.providers[q] + (IF p # oldP /\ q = p THEN kept ELSE 0)
    BY <1>2, <2>4, Moves
  <2> HIDE DEF moved
  <2>7. /\ Unmarked(moved, c) \in Registration
        /\ Unmarked(moved, c).count = moved.count
        /\ Unmarked(moved, c).providers = moved.providers
    BY <2>6, UnmarkedKeeps
  <2>8. Reconciled(reg, c, oldP, p, old, new) = Unmarked(moved, c)
    BY <1>1, <1>4
  <2> QED BY <1>4, <2>1, <2>4, <2>5, <2>6, <2>7, <2>8 DEF Shifted, CountOf, ProvidersOf, Entry
<1>5. CASE new > 0 /\ reg \in Registration
  <2>1. /\ reg.count \in Nat \ {0} /\ reg.providers \in [Providers -> Nat]
        /\ old <= reg.count /\ (oldP \in Providers => old <= reg.providers[oldP])
        /\ CountOf(reg) = reg.count /\ reg # NoModel
    BY <1>5, RegistrationFields DEF Reaches, CountOf, ProvidersOf
  <2>2. Reaches(reg, oldP, kept)
    BY <1>2, <2>1 DEF Reaches, CountOf, ProvidersOf
  <2>3. /\ detached \in Registration /\ detached.count = reg.count
        /\ \A q \in Providers : detached.providers[q]
               = reg.providers[q] - (IF p # oldP /\ q = oldP THEN kept ELSE 0)
        /\ MarksKept(reg, detached, c)
    BY <1>2, <1>5, <2>2, Detaches
  <2> HIDE DEF detached
  <2>4. detached # NoModel /\ detached \in Entry /\ CountOf(detached) = reg.count
    BY <2>3 DEF Entry, CountOf
  <2>5. Reaches(detached, oldP, less)
    BY <1>2, <2>1, <2>3, <2>4 DEF Reaches, CountOf, ProvidersOf
  <2>6. less < CountOf(detached)
    BY <1>2, <1>5, <2>1, <2>4
  <2>7. /\ Shifted(detached, shrunk, oldP, NoModel, less, 0)
        /\ MarksKept(detached, shrunk, c)
    BY <1>2, <2>4, <2>5, <2>6, RemovedShifts DEF MarksKept
  <2> HIDE DEF shrunk
  <2>8. /\ shrunk \in Registration /\ shrunk.count = reg.count - less /\ shrunk # NoModel
        /\ shrunk \in Entry
        /\ CountOf(shrunk) = reg.count - less /\ CountOf(shrunk) > 0
    BY <1>2, <2>1, <2>3, <2>4, <2>6, <2>7 DEF Shifted, CountOf, MarksKept, Entry
  <2>9. \A q \in Providers : shrunk.providers[q]
           = detached.providers[q] - (IF q = oldP THEN less ELSE 0)
    <3>1. \A q \in Providers : detached.providers[q] \in Nat
      BY <2>3, RegistrationFields
    <3> QED BY <1>2, <2>4, <2>7, <2>8, <3>1 DEF Shifted, ProvidersOf
  <2>10. /\ Shifted(shrunk, grown, NoModel, p, 0, more)
         /\ grown.quota = shrunk.quota /\ grown.suspended = shrunk.suspended
         /\ grown # NoModel
    BY <1>2, <2>8, AddedShifts
  <2> HIDE DEF grown
  <2>11. /\ grown \in Registration /\ grown.count = shrunk.count + more
         /\ CountOf(grown) > 0
    BY <1>2, <2>1, <2>8, <2>10 DEF Shifted, CountOf, Entry
  <2>12. \A q \in Providers : grown.providers[q]
            = shrunk.providers[q] + (IF q = p THEN more ELSE 0)
    <3>1. \A q \in Providers : shrunk.providers[q] \in Nat
      BY <2>8, RegistrationFields
    <3>2. NoModel \notin Providers \/ NoModel \in Providers
      OBVIOUS
    <3> QED BY <1>2, <2>8, <2>10, <2>11, <3>1 DEF Shifted, ProvidersOf
  <2>13. /\ moved \in Registration /\ moved.count = grown.count
         /\ \A q \in Providers : moved.providers[q]
                = grown.providers[q] + (IF p # oldP /\ q = p THEN kept ELSE 0)
         /\ MarksKept(grown, moved, c)
    BY <1>2, <2>11, Moves
  <2> HIDE DEF moved
  <2> DEFINE result == Unmarked(moved, c)
  <2>14. /\ result \in Registration /\ result.count = moved.count
         /\ result.providers = moved.providers
         /\ \A d \in Clients : d # c => result.quota[d] = moved.quota[d]
                                        /\ result.suspended[d] = moved.suspended[d]
    BY <2>13, UnmarkedKeeps
  <2>15. Reconciled(reg, c, oldP, p, old, new) = result
    BY <1>1, <1>5
  <2> HIDE DEF result
  <2>16. MarksKept(reg, result, c)
    BY <2>3, <2>7, <2>10, <2>13, <2>14 DEF MarksKept
  <2>17. CountOf(result) = (CountOf(reg) - old) + new
    BY <1>2, <2>1, <2>8, <2>11, <2>13, <2>14 DEF CountOf
  <2>18. ASSUME NEW q \in Providers
         PROVE  result.providers[q] = (reg.providers[q] - (IF q = oldP THEN old ELSE 0))
                                         + (IF q = p THEN new ELSE 0)
    <3>1. reg.providers[q] \in Nat
      BY <2>1
    <3> QED BY <1>2, <2>3, <2>9, <2>12, <2>13, <2>14, <3>1
  <2>19. result # NoModel /\ result \in Entry
    BY <2>14 DEF Entry
  <2> QED BY <2>1, <2>15, <2>16, <2>17, <2>18, <2>19 DEF Shifted, ProvidersOf
<1>6. new > 0 \/ new = 0
  OBVIOUS
<1> QED BY <1>3, <1>4, <1>5, <1>6 DEF Entry

-----------------------------------------------------------------------------
(* The clients of a provider. *)
OfProvider(provider, p) == {x \in Clients : provider[x] = p}

(* The counters of one model are those of the lists.                       *)
Matches(reg, f, provider) ==
    /\ CountOf(reg) = SumFunctionOnSet(f, Clients)
    /\ \A p \in Providers :
          ProvidersOf(reg, p) = SumFunctionOnSet(f, OfProvider(provider, p))

(* One client's list and provider change: what becomes of the sums.        *)
LEMMA ClientSums ==
    ASSUME IsFiniteSet(Clients), NEW c \in Clients,
           NEW f \in [Clients -> Nat], NEW g \in [Clients -> Nat],
           NEW before, NEW after,
           \A x \in Clients \ {c} : f[x] = g[x] /\ before[x] = after[x]
    PROVE  /\ SumFunctionOnSet(g, Clients) = (SumFunctionOnSet(f, Clients) - f[c]) + g[c]
           /\ SumFunctionOnSet(f, Clients) \in Nat /\ SumFunctionOnSet(g, Clients) \in Nat
           /\ \A p : SumFunctionOnSet(g, OfProvider(after, p))
                    = (SumFunctionOnSet(f, OfProvider(before, p))
                         - (IF p = before[c] THEN f[c] ELSE 0))
                      + (IF p = after[c] THEN g[c] ELSE 0)
<1>1. SumFunctionOnSet(g, Clients) = (SumFunctionOnSet(f, Clients) - f[c]) + g[c]
  BY SumChange
<1>2. SumFunctionOnSet(f, Clients) \in Nat /\ SumFunctionOnSet(g, Clients) \in Nat
  BY SumNat
<1>3. ASSUME NEW p
      PROVE  SumFunctionOnSet(g, OfProvider(after, p))
                = (SumFunctionOnSet(f, OfProvider(before, p))
                     - (IF p = before[c] THEN f[c] ELSE 0))
                  + (IF p = after[c] THEN g[c] ELSE 0)
  <2> DEFINE A == OfProvider(before, p)
             B == OfProvider(after, p)
             R == {x \in Clients \ {c} : before[x] = p}
  <2>1. A \in SUBSET Clients /\ B \in SUBSET Clients /\ R \in SUBSET Clients
    BY DEF OfProvider
  <2>2. IsFiniteSet(A) /\ IsFiniteSet(B) /\ IsFiniteSet(R)
    BY <2>1, FS_Subset
  <2>3. A \ {c} = R /\ B \ {c} = R
    BY DEF OfProvider
  <2>4. SumFunctionOnSet(f, R) = SumFunctionOnSet(g, R) /\ SumFunctionOnSet(f, R) \in Nat
    <3>1. \A x \in R : f[x] = g[x] /\ f[x] \in Nat
      OBVIOUS
    <3> HIDE DEF R
    <3> QED BY <2>2, <3>1, SumSame, SumNat
  <2>5. SumFunctionOnSet(f, A) = (IF p = before[c] THEN f[c] ELSE 0) + SumFunctionOnSet(f, R)
    <3>1. CASE p = before[c]
      <4>1. c \in A /\ \A x \in A : f[x] \in Nat
        BY <3>1 DEF OfProvider
      <4> HIDE DEF A, R
      <4> QED BY <2>2, <2>3, <3>1, <4>1, SumStep
    <3>2. CASE p # before[c]
      <4>1. A = R
        BY <3>2 DEF OfProvider
      <4> HIDE DEF A, R
      <4> QED BY <2>4, <3>2, <4>1
    <3> QED BY <3>1, <3>2
  <2>6. SumFunctionOnSet(g, B) = (IF p = after[c] THEN g[c] ELSE 0) + SumFunctionOnSet(g, R)
    <3>1. CASE p = after[c]
      <4>1. c \in B /\ \A x \in B : g[x] \in Nat
        BY <3>1 DEF OfProvider
      <4> HIDE DEF B, R
      <4> QED BY <2>2, <2>3, <3>1, <4>1, SumStep
    <3>2. CASE p # after[c]
      <4>1. B = R
        BY <3>2 DEF OfProvider
      <4> HIDE DEF B, R
      <4> QED BY <2>4, <3>2, <4>1
    <3> QED BY <3>1, <3>2
  <2>7. f[c] \in Nat /\ g[c] \in Nat
    OBVIOUS
  <2>8. SumFunctionOnSet(g, B) = (SumFunctionOnSet(f, A) - (IF p = before[c] THEN f[c] ELSE 0))
                                     + (IF p = after[c] THEN g[c] ELSE 0)
    <3> HIDE DEF A, B, R
    <3> QED BY <2>4, <2>5, <2>6, <2>7
  <2> QED BY <2>8
<1> QED BY <1>1, <1>2, <1>3

(* The counters reach a client's part of them. *)
LEMMA MatchesReaches ==
    ASSUME IsFiniteSet(Clients), NEW c \in Clients, NEW f \in [Clients -> Nat], NEW provider,
           NEW reg, Matches(reg, f, provider)
    PROVE  /\ Reaches(reg, provider[c], f[c])
           /\ \A d \in Clients : d # c => f[c] + f[d] <= CountOf(reg)
<1>1. f[c] <= SumFunctionOnSet(f, Clients)
  BY SumPart
<1>2. \A d \in Clients : d # c => f[c] + f[d] <= SumFunctionOnSet(f, Clients)
  BY SumParts
<1>3. f[c] <= SumFunctionOnSet(f, OfProvider(provider, provider[c]))
  <2> DEFINE A == OfProvider(provider, provider[c])
  <2>1. A \in SUBSET Clients /\ c \in A /\ \A x \in A : f[x] \in Nat
    BY DEF OfProvider
  <2>2. IsFiniteSet(A)
    BY <2>1, FS_Subset
  <2> HIDE DEF A
  <2>3. f[c] <= SumFunctionOnSet(f, A)
    BY <2>1, <2>2, SumPart
  <2> QED BY <2>3 DEF A
<1> QED BY <1>1, <1>2, <1>3 DEF Matches, Reaches

(* A client's list and provider change and the entry with them.            *)
LEMMA MatchesShifted ==
    ASSUME NoModel \notin Registration, IsFiniteSet(Clients), NEW c \in Clients,
           NEW f \in [Clients -> Nat], NEW g \in [Clients -> Nat],
           NEW before, NEW after,
           \A x \in Clients \ {c} : f[x] = g[x] /\ before[x] = after[x],
           NEW reg, NEW reg2,
           Matches(reg, f, before), Shifted(reg, reg2, before[c], after[c], f[c], g[c])
    PROVE  Matches(reg2, g, after)
<1>1. /\ SumFunctionOnSet(g, Clients) = (SumFunctionOnSet(f, Clients) - f[c]) + g[c]
      /\ SumFunctionOnSet(g, Clients) \in Nat
      /\ \A p : SumFunctionOnSet(g, OfProvider(after, p))
               = (SumFunctionOnSet(f, OfProvider(before, p))
                    - (IF p = before[c] THEN f[c] ELSE 0))
                 + (IF p = after[c] THEN g[c] ELSE 0)
  BY ClientSums
<1>2. CountOf(reg2) = SumFunctionOnSet(g, Clients) /\ CountOf(reg2) \in Nat
  BY <1>1 DEF Matches, Shifted
<1>3. CASE CountOf(reg2) > 0
  BY <1>1, <1>2, <1>3 DEF Matches, Shifted
<1>4. CASE CountOf(reg2) = 0
  <2>1. reg2 = NoModel
    BY <1>4, RegistrationFields DEF Shifted, Entry, CountOf
  <2>2. \A x \in Clients : g[x] = 0
    <3>1. \A x \in Clients : g[x] <= SumFunctionOnSet(g, Clients) /\ g[x] \in Nat
      BY SumPart
    <3> QED BY <1>2, <1>4, <3>1
  <2>3. ASSUME NEW p \in Providers
        PROVE  SumFunctionOnSet(g, OfProvider(after, p)) = 0
    <3> DEFINE B == OfProvider(after, p)
    <3>1. IsFiniteSet(B) /\ \A x \in B : g[x] = 0
      BY <2>2, FS_Subset DEF OfProvider
    <3> HIDE DEF B
    <3>2. SumFunctionOnSet(g, B) = 0
      BY <3>1, SumPositive
    <3> QED BY <3>2 DEF B
  <2> QED BY <1>2, <2>1, <2>3 DEF Matches, ProvidersOf
<1> QED BY <1>2, <1>3, <1>4

-----------------------------------------------------------------------------
(* The inductive invariant: types, and every model's counters are those of  *)
(* the clients' lists.                                                      *)
AllMatch == \A m \in Models : Matches(models[m], Mentions(m), clientProvider)
RInv == TypeOK /\ AllMatch

(* A list's numbers are naturals, and no bound of one is above the highest. *)
LEMMA ListsType ==
    ASSUME SettingsAssumption
    PROVE  /\ \A l \in Lists, m \in Models : l[m] \in Nat
           /\ \A m \in Models : MaxCopies[m] \in 0..Max({MaxCopies[n] : n \in Models})
           /\ Max({MaxCopies[n] : n \in Models}) \in Nat
<1> DEFINE S == {MaxCopies[m] : m \in Models}
           n == SumFunctionOnSet(MaxCopies, Models)
<1>1. IsFiniteSet(Models) /\ Models # {} /\ \A m \in Models : MaxCopies[m] \in Nat
  BY DEF SettingsAssumption
<1>2. n \in Nat /\ \A m \in Models : MaxCopies[m] <= n
  BY <1>1, SumNat, SumPart
<1> HIDE DEF n
<1>3. (\A k \in S : k \in 0..n) /\ S # {}
  BY <1>1, <1>2
<1>4. Max(S) \in S /\ \A k \in S : Max(S) >= k
  <2> HIDE DEF S
  <2> QED BY <1>2, <1>3, BoundedMax
<1>5. Max(S) \in Nat
  BY <1>2, <1>3, <1>4
<1>6. \A m \in Models : MaxCopies[m] \in 0..Max(S)
  BY <1>1, <1>4, <1>5
<1>7. \A l \in Lists, m \in Models : l[m] \in Nat
  <2>1. \A l \in Lists : l \in [Models -> 0..Max(S)]
    BY DEF Lists
  <2> HIDE DEF S
  <2> QED BY <1>5, <2>1
<1> QED BY <1>5, <1>6, <1>7

(* A client's lists are numbers. *)
LEMMA MentionsType ==
    ASSUME SettingsAssumption, clientModels \in [Clients -> Lists], NEW m \in Models
    PROVE  /\ Mentions(m) \in [Clients -> Nat]
           /\ \A c \in Clients : Mentions(m)[c] = clientModels[c][m] /\ clientModels[c][m] \in Nat
<1>1. \A l \in Lists : l[m] \in Nat
  BY ListsType
<1> QED BY <1>1 DEF Mentions

(* The list that names nothing. *)
LEMMA EmptyListType ==
    ASSUME SettingsAssumption
    PROVE  EmptyList \in Lists /\ \A m \in Models : EmptyList[m] = 0
<1>1. PICK m \in Models : TRUE
  BY DEF SettingsAssumption
<1>2. \A n \in Models : MaxCopies[n] \in Nat /\ 0 \in 0..MaxCopies[n]
  BY DEF SettingsAssumption
<1>3. 0 \in 0..Max({MaxCopies[n] : n \in Models})
  BY ListsType
<1> QED BY <1>2, <1>3 DEF EmptyList, Lists

(* Going to provider p or to none makes no difference for what is removed.  *)
LEMMA ShiftedFrom ==
    ASSUME NEW reg, NEW reg2, NEW oldP, NEW p, NEW q, NEW n
    PROVE  /\ Shifted(reg, reg2, oldP, p, n, 0) => Shifted(reg, reg2, oldP, q, n, 0)
           /\ Shifted(reg, reg2, p, oldP, 0, n) => Shifted(reg, reg2, q, oldP, 0, n)
<1>1. Shifted(reg, reg2, oldP, p, n, 0) => Shifted(reg, reg2, oldP, q, n, 0)
  BY Zenon DEF Shifted
<1>2. Shifted(reg, reg2, p, oldP, 0, n) => Shifted(reg, reg2, q, oldP, 0, n)
  BY Zenon DEF Shifted
<1> QED BY <1>1, <1>2

(* A client changes its list and provider and every entry follows.         *)
Follows(c) ==
    /\ \A d \in Clients : d # c => /\ clientModels'[d] = clientModels[d]
                                   /\ clientProvider'[d] = clientProvider[d]
    /\ \A m \in Models :
          Shifted(models[m], models'[m], clientProvider[c], clientProvider'[c],
                  clientModels[c][m], clientModels'[c][m])

(* Then the counters are those of the new lists. *)
LEMMA FollowsMatch ==
    ASSUME SettingsAssumption, AllMatch, NEW c \in Clients, Follows(c),
           clientModels \in [Clients -> Lists], (clientModels \in [Clients -> Lists])'
    PROVE  AllMatch'
<1> SUFFICES ASSUME NEW m \in Models
             PROVE  Matches(models'[m], Mentions(m)', clientProvider')
  BY DEF AllMatch
<1> DEFINE f == Mentions(m)
           g == Mentions(m)'
<1>1. f \in [Clients -> Nat] /\ f[c] = clientModels[c][m]
  BY MentionsType
<1>2. g \in [Clients -> Nat] /\ g[c] = clientModels'[c][m]
  <2>1. \A l \in Lists : l[m] \in Nat
    BY ListsType
  <2> QED BY <2>1 DEF Mentions
<1>3. \A x \in Clients \ {c} : f[x] = g[x] /\ clientProvider[x] = clientProvider'[x]
  BY DEF Follows, Mentions
<1>4. Shifted(models[m], models'[m], clientProvider[c], clientProvider'[c], f[c], g[c])
  BY <1>1, <1>2 DEF Follows
<1>5. Matches(models[m], f, clientProvider)
  BY DEF AllMatch
<1>6. IsFiniteSet(Clients) /\ NoModel \notin Registration
  BY DEF SettingsAssumption
<1> HIDE DEF f, g
<1>7. Matches(models'[m], g, clientProvider')
  BY <1>1, <1>2, <1>3, <1>4, <1>5, <1>6, MatchesShifted
<1> QED BY <1>7 DEF g

(* unregisterClientInternal. *)
LEMMA ForgetStep ==
    ASSUME SettingsAssumption, RInv, NEW c \in Clients, Forget(c)
    PROVE  /\ Follows(c)
           /\ (clientModels \in [Clients -> Lists])'
           /\ (clientProvider \in [Clients -> Providers \cup {NoProvider}])'
           /\ \A m \in Models : models[m] # NoModel /\ clientModels[c][m] < CountOf(models[m])
                 => MarksKept(models[m], models'[m], c)
<1>1. /\ clientModels \in [Clients -> Lists] /\ models \in [Models -> Entry]
      /\ clientProvider \in [Clients -> Providers \cup {NoProvider}]
  BY DEF RInv, TypeOK, Entry
<1>2. /\ clientModels' = [clientModels EXCEPT ![c] = EmptyList]
      /\ clientProvider' = [clientProvider EXCEPT ![c] = NoProvider]
  BY DEF Forget
<1>3. /\ clientModels'[c] = EmptyList
      /\ \A d \in Clients : d # c => /\ clientModels'[d] = clientModels[d]
                                     /\ clientProvider'[d] = clientProvider[d]
  BY <1>1, <1>2
<1>4. ASSUME NEW m \in Models
      PROVE  /\ Shifted(models[m], models'[m], clientProvider[c], clientProvider'[c],
                         clientModels[c][m], clientModels'[c][m])
             /\ models[m] # NoModel /\ clientModels[c][m] < CountOf(models[m])
                   => MarksKept(models[m], models'[m], c)
  <2> DEFINE reg == models[m]
             p == clientProvider[c]
             n == clientModels[c][m]
             reg2 == Removed(reg, c, p, n)
  <2>1. models'[m] = reg2
    BY DEF Forget
  <2>2. /\ Mentions(m) \in [Clients -> Nat] /\ Mentions(m)[c] = n /\ n \in Nat
        /\ reg \in Entry /\ NoModel \notin Registration
        /\ IsFiniteSet(Clients) /\ Matches(reg, Mentions(m), clientProvider)
    BY <1>1, MentionsType DEF RInv, AllMatch, SettingsAssumption
  <2>3. Reaches(reg, p, n)
    BY <2>2, MatchesReaches
  <2>4. clientModels'[c][m] = 0
    BY <1>3, EmptyListType
  <2> HIDE DEF reg, p, n
  <2>5. /\ Shifted(reg, reg2, p, NoModel, n, 0)
        /\ reg # NoModel /\ n < CountOf(reg) => MarksKept(reg, reg2, c)
    BY <2>2, <2>3, RemovedShifts DEF MarksKept
  <2> HIDE DEF reg2
  <2>6. Shifted(reg, reg2, p, clientProvider'[c], n, 0)
    BY <2>5, ShiftedFrom
  <2> QED BY <2>1, <2>4, <2>5, <2>6 DEF reg, p, n
<1>5. (clientModels \in [Clients -> Lists])'
  BY <1>1, <1>2, EmptyListType
<1>6. (clientProvider \in [Clients -> Providers \cup {NoProvider}])'
  BY <1>1, <1>2
<1> QED BY <1>3, <1>4, <1>5, <1>6 DEF Follows

(* RegisterClient, of a new client, a known one or with nothing to register. *)
LEMMA RegisterStep ==
    ASSUME SettingsAssumption, RInv, NEW c \in Clients, RegisterClient(c)
    PROVE  /\ Follows(c)
           /\ (clientModels \in [Clients -> Lists])'
           /\ (clientProvider \in [Clients -> Providers \cup {NoProvider}])'
           /\ \A m \in Models : models[m] # NoModel /\ clientModels[c][m] < CountOf(models[m])
                 => MarksKept(models[m], models'[m], c)
<1>1. /\ clientModels \in [Clients -> Lists] /\ models \in [Models -> Entry]
      /\ clientProvider \in [Clients -> Providers \cup {NoProvider}]
  BY DEF RInv, TypeOK, Entry
<1>2. CASE Forget(c)
  BY <1>2, ForgetStep
<1>3. CASE ~ Forget(c)
  <2>1. PICK p \in ProviderChoices, list \in Lists :
           /\ models' = [m \in Models |->
                  IF clientModels[c] = EmptyList THEN Added(models[m], p, list[m])
                  ELSE IF clientModels[c][m] = 0 /\ list[m] = 0 THEN models[m]
                  ELSE Reconciled(models[m], c, clientProvider[c], p, clientModels[c][m], list[m])]
           /\ clientModels' = [clientModels EXCEPT ![c] = list]
           /\ clientProvider' = [clientProvider EXCEPT ![c] = p]
    BY <1>3, Zenon DEF RegisterClient
  <2>2. /\ clientModels'[c] = list /\ clientProvider'[c] = p
        /\ \A d \in Clients : d # c => /\ clientModels'[d] = clientModels[d]
                                       /\ clientProvider'[d] = clientProvider[d]
    BY <1>1, <2>1
  <2>3. ASSUME NEW m \in Models
        PROVE  /\ Shifted(models[m], models'[m], clientProvider[c], clientProvider'[c],
                           clientModels[c][m], clientModels'[c][m])
               /\ models[m] # NoModel /\ clientModels[c][m] < CountOf(models[m])
                     => MarksKept(models[m], models'[m], c)
    <3> DEFINE reg == models[m]
               oldP == clientProvider[c]
               old == clientModels[c][m]
               new == list[m]
    <3>1. /\ Mentions(m) \in [Clients -> Nat] /\ Mentions(m)[c] = old /\ old \in Nat
          /\ reg \in Entry /\ NoModel \notin Registration
          /\ IsFiniteSet(Clients) /\ Matches(reg, Mentions(m), clientProvider)
      BY <1>1, MentionsType DEF RInv, AllMatch, SettingsAssumption
    <3>2. new \in Nat
      BY ListsType
    <3>3. Reaches(reg, oldP, old)
      BY <3>1, MatchesReaches
    <3>4. models'[m] = IF clientModels[c] = EmptyList THEN Added(reg, p, new)
                       ELSE IF old = 0 /\ new = 0 THEN reg
                       ELSE Reconciled(reg, c, oldP, p, old, new)
      BY <2>1, Zenon
    <3>5. clientModels[c] = EmptyList => old = 0
      BY EmptyListType
    <3> HIDE DEF reg, oldP, old, new
    <3>6. CASE clientModels[c] = EmptyList
      <4>1. /\ Shifted(reg, Added(reg, p, new), NoModel, p, 0, new)
            /\ reg # NoModel => MarksKept(reg, Added(reg, p, new), c)
        BY <3>1, <3>2, AddedShifts DEF MarksKept
      <4>2. models'[m] = Added(reg, p, new) /\ old = 0
        BY <3>4, <3>5, <3>6
      <4>3. Shifted(reg, Added(reg, p, new), oldP, p, 0, new)
        BY <4>1, ShiftedFrom
      <4> QED BY <2>2, <4>1, <4>2, <4>3 DEF reg, oldP, old, new
    <3>7. CASE clientModels[c] # EmptyList /\ old = 0 /\ new = 0
      <4>1. models'[m] = reg
        BY <3>4, <3>7
      <4>2. Shifted(reg, reg, oldP, p, 0, 0)
        <5>1. CountOf(reg) \in Nat /\ \A q \in Providers : ProvidersOf(reg, q) \in Nat
          BY <3>1, RegistrationFields DEF Entry, CountOf, ProvidersOf
        <5> QED BY <3>1, <5>1 DEF Shifted
      <4>3. reg # NoModel => MarksKept(reg, reg, c)
        BY DEF MarksKept
      <4> QED BY <2>2, <3>7, <4>1, <4>2, <4>3 DEF reg, oldP, old, new
    <3>8. CASE clientModels[c] # EmptyList /\ ~ (old = 0 /\ new = 0)
      <4>1. models'[m] = Reconciled(reg, c, oldP, p, old, new)
        BY <3>4, <3>8, Zenon
      <4>2. /\ Shifted(reg, Reconciled(reg, c, oldP, p, old, new), oldP, p, old, new)
            /\ reg # NoModel /\ old < CountOf(reg) =>
                  MarksKept(reg, Reconciled(reg, c, oldP, p, old, new), c)
        BY <3>1, <3>2, <3>3, ReconciledShifts
      <4> QED BY <2>2, <4>1, <4>2 DEF reg, oldP, old, new
    <3> QED BY <3>6, <3>7, <3>8
  <2>4. (clientModels \in [Clients -> Lists])'
    BY <1>1, <2>1
  <2>5. (clientProvider \in [Clients -> Providers \cup {NoProvider}])'
    BY <1>1, <2>1 DEF SettingsAssumption
  <2> QED BY <2>2, <2>3, <2>4, <2>5 DEF Follows
<1> QED BY <1>2, <1>3

(* So registering and removing a client keep the invariant. *)
LEMMA ClientStepInv ==
    ASSUME SettingsAssumption, RInv, NEW c \in Clients, RegisterClient(c) \/ UnregisterClient(c)
    PROVE  RInv'
<1>1. /\ Follows(c)
      /\ (clientModels \in [Clients -> Lists])'
      /\ (clientProvider \in [Clients -> Providers \cup {NoProvider}])'
  BY ForgetStep, RegisterStep DEF UnregisterClient
<1>2. AllMatch'
  BY <1>1, FollowsMatch DEF RInv, TypeOK
<1>3. \A m \in Models : models'[m] \in Entry
  BY <1>1 DEF Follows, Shifted
<1>4. models' = [m \in Models |-> models'[m]]
  <2>1. CASE Forget(c)
    BY <2>1 DEF Forget
  <2>2. CASE ~ Forget(c)
    BY <2>2, Zenon DEF RegisterClient, UnregisterClient
  <2> QED BY <2>1, <2>2
<1>5. models' \in [Models -> Entry]
  BY <1>3, <1>4
<1>6. pending' = pending
  BY DEF RegisterClient, UnregisterClient
<1> QED BY <1>1, <1>2, <1>5, <1>6 DEF RInv, TypeOK, Entry

(* An entry whose marks alone change. *)
CountsKept(reg, reg2) ==
    /\ reg2 \in Entry
    /\ CountOf(reg2) = CountOf(reg)
    /\ \A p \in Providers : ProvidersOf(reg2, p) = ProvidersOf(reg, p)

(* Then the invariant is kept. *)
LEMMA CountsKeptInv ==
    ASSUME RInv, \A m \in Models : CountsKept(models[m], models'[m]),
           models' \in [Models -> Entry], UNCHANGED <<clientModels, clientProvider>>,
           pending' \in [Reporters -> Seq(Note)]
    PROVE  RInv'
<1>1. \A m \in Models : Mentions(m)' = Mentions(m)
  BY DEF Mentions
<1>2. AllMatch'
  BY <1>1 DEF AllMatch, RInv, Matches, CountsKept, OfProvider
<1> QED BY <1>2 DEF RInv, TypeOK, Entry

(* Setting and clearing one mark. *)
LEMMA WithMark ==
    ASSUME NoModel \notin Registration, NEW reg \in Registration, NEW c \in Clients,
           NEW q \in {"none", "fresh", "stale"}, NEW s \in {"none", "quota", "other"}
    PROVE  /\ CountsKept(reg, [reg EXCEPT !.quota[c] = q])
           /\ CountsKept(reg, [reg EXCEPT !.suspended[c] = s])
           /\ CountsKept(reg, reg)
<1> DEFINE r1 == [reg EXCEPT !.quota[c] = q]
           r2 == [reg EXCEPT !.suspended[c] = s]
<1>1. r1 \in Registration /\ r1.count = reg.count /\ r1.providers = reg.providers
  BY DEF Registration
<1>2. r2 \in Registration /\ r2.count = reg.count /\ r2.providers = reg.providers
  BY DEF Registration
<1> HIDE DEF r1, r2
<1> QED BY <1>1, <1>2 DEF CountsKept, CountOf, ProvidersOf, Entry, r1, r2

(* Any call of MarkResult changes marks alone. *)
LEMMA MarkedKeeps ==
    ASSUME NoModel \notin Registration, NEW reg \in Registration, NEW c \in Clients, NEW name
    PROVE  CountsKept(reg, Marked(reg, name, c))
<1>1. Marked(reg, name, c) \in
         {reg, [reg EXCEPT !.quota[c] = "fresh"], [reg EXCEPT !.quota[c] = "none"],
          [reg EXCEPT !.suspended[c] = "none"], [reg EXCEPT !.suspended[c] = "quota"],
          [reg EXCEPT !.suspended[c] = "other"]}
  BY Zenon DEF Marked
<1>2. CountsKept(reg, [reg EXCEPT !.quota[c] = "fresh"])
  BY WithMark
<1>3. CountsKept(reg, [reg EXCEPT !.quota[c] = "none"])
  BY WithMark
<1>4. CountsKept(reg, [reg EXCEPT !.suspended[c] = "none"])
  BY WithMark
<1>5. CountsKept(reg, [reg EXCEPT !.suspended[c] = "quota"])
  BY WithMark
<1>6. CountsKept(reg, [reg EXCEPT !.suspended[c] = "other"])
  BY WithMark
<1>7. CountsKept(reg, reg)
  BY WithMark
<1> QED BY <1>1, <1>2, <1>3, <1>4, <1>5, <1>6, <1>7, Zenon

(* Entries nobody touches. *)
LEMMA Untouched ==
    ASSUME RInv, NEW m \in Models, models'[m] = models[m]
    PROVE  CountsKept(models[m], models'[m])
BY DEF CountsKept, RInv, TypeOK, Entry

(* The registry calls MarkResult makes. *)
LEMMA CallsType ==
    ASSUME NEW c \in Clients, NEW m \in Models,
           NEW outcome \in {"success", "quota", "rejected"}
    PROVE  [i \in 1..Len(CallsAfter(outcome)) |->
               [call |-> CallsAfter(outcome)[i], client |-> c, model |-> m]] \in Seq(Note)
<1>1. CASE outcome = "success"
  <2>1. CallsAfter(outcome) = <<"clear_quota", "resume">>
    BY <1>1 DEF CallsAfter
  <2> QED BY <2>1 DEF Note, Calls
<1>2. CASE outcome = "quota"
  <2>1. CallsAfter(outcome) = <<"set_quota", "suspend_quota">>
    BY <1>2 DEF CallsAfter
  <2> QED BY <2>1 DEF Note, Calls
<1>3. CASE outcome = "rejected"
  <2>1. CallsAfter(outcome) = <<"suspend_other">>
    BY <1>3 DEF CallsAfter
  <2> QED BY <2>1 DEF Note, Calls
<1> QED BY <1>1, <1>2, <1>3

(* The steps that leave the lists alone. *)
LEMMA MarkStepInv ==
    ASSUME SettingsAssumption, RInv,
           \/ \E r \in Reporters : Report(r) \/ Notify(r)
           \/ \E c \in Clients, m \in Models : MarkAges(c, m)
           \/ CleanupExpiredQuotas
    PROVE  RInv'
<1>1. /\ models \in [Models -> Entry] /\ pending \in [Reporters -> Seq(Note)]
      /\ NoModel \notin Registration
  BY DEF RInv, TypeOK, Entry, SettingsAssumption
<1>2. ASSUME NEW r \in Reporters, Report(r) PROVE RInv'
  <2>1. PICK c \in Clients, m \in Models, outcome \in Outcomes :
           pending' = [pending EXCEPT ![r] =
              [i \in 1..Len(CallsAfter(outcome)) |->
                  [call |-> CallsAfter(outcome)[i], client |-> c, model |-> m]]]
    BY <1>2, Zenon DEF Report
  <2>2. [i \in 1..Len(CallsAfter(outcome)) |->
            [call |-> CallsAfter(outcome)[i], client |-> c, model |-> m]] \in Seq(Note)
    BY CallsType DEF SettingsAssumption
  <2>3. pending' \in [Reporters -> Seq(Note)]
    BY <1>1, <2>1, <2>2, Zenon
  <2>4. UNCHANGED <<models, clientModels, clientProvider>>
    BY <1>2 DEF Report
  <2>5. \A m1 \in Models : CountsKept(models[m1], models'[m1])
    BY <2>4, Untouched
  <2> QED BY <1>1, <2>3, <2>4, <2>5, CountsKeptInv
<1>3. ASSUME NEW r \in Reporters, Notify(r) PROVE RInv'
  <2> DEFINE note == Head(pending[r])
             m == note.model
  <2>1. note \in Note /\ Tail(pending[r]) \in Seq(Note)
    BY <1>1, <1>3 DEF Notify
  <2>2. m \in Models /\ note.client \in Clients
    BY <2>1 DEF Note
  <2>3. /\ models' = IF models[m] = NoModel THEN models
                     ELSE [models EXCEPT ![m] = Marked(@, note.call, note.client)]
        /\ pending' = [pending EXCEPT ![r] = Tail(@)]
        /\ UNCHANGED <<clientModels, clientProvider>>
    BY <1>3 DEF Notify
  <2>4. pending' \in [Reporters -> Seq(Note)]
    BY <1>1, <2>1, <2>3
  <2> HIDE DEF note, m
  <2>5. CASE models[m] = NoModel
    <3>1. \A m1 \in Models : CountsKept(models[m1], models'[m1])
      BY <2>3, <2>5, Untouched
    <3> QED BY <1>1, <2>3, <2>4, <2>5, <3>1, CountsKeptInv
  <2>6. CASE models[m] # NoModel
    <3>1. models[m] \in Registration
      BY <1>1, <2>2, <2>6 DEF Entry
    <3>2. CountsKept(models[m], Marked(models[m], note.call, note.client))
      BY <1>1, <2>2, <3>1, MarkedKeeps
    <3>3. /\ models'[m] = Marked(models[m], note.call, note.client)
          /\ \A m1 \in Models : m1 # m => models'[m1] = models[m1]
      BY <1>1, <2>2, <2>3, <2>6
    <3>4. \A m1 \in Models : CountsKept(models[m1], models'[m1])
      BY <3>2, <3>3, Untouched
    <3>5. models' \in [Models -> Entry]
      BY <1>1, <2>2, <2>3, <2>6, <3>2 DEF CountsKept
    <3> QED BY <2>3, <2>4, <3>4, <3>5, CountsKeptInv
  <2> QED BY <2>5, <2>6
<1>4. ASSUME NEW c \in Clients, NEW m \in Models, MarkAges(c, m) PROVE RInv'
  <2>1. models[m] \in Registration
    BY <1>1, <1>4 DEF MarkAges, Entry
  <2>2. models' = [models EXCEPT ![m] = [models[m] EXCEPT !.quota[c] = "stale"]]
    BY <1>1, <1>4 DEF MarkAges
  <2>3. CountsKept(models[m], [models[m] EXCEPT !.quota[c] = "stale"])
    BY <1>1, <2>1, WithMark
  <2>4. /\ models'[m] = [models[m] EXCEPT !.quota[c] = "stale"]
        /\ \A m1 \in Models : m1 # m => models'[m1] = models[m1]
    BY <1>1, <2>2
  <2>5. \A m1 \in Models : CountsKept(models[m1], models'[m1])
    BY <2>3, <2>4, Untouched
  <2>6. models' \in [Models -> Entry]
    <3> HIDE DEF CountsKept
    <3>1. [models[m] EXCEPT !.quota[c] = "stale"] \in Entry
      BY <2>3 DEF CountsKept
    <3> QED BY <1>1, <2>2, <3>1, Zenon
  <2>7. UNCHANGED <<clientModels, clientProvider, pending>>
    BY <1>4 DEF MarkAges
  <2> QED BY <1>1, <2>5, <2>6, <2>7, CountsKeptInv
<1>5. ASSUME CleanupExpiredQuotas PROVE RInv'
  <2>1. ASSUME NEW m \in Models PROVE CountsKept(models[m], models'[m])
    <3>1. CASE models[m] = NoModel
      <4>1. models'[m] = models[m]
        BY <1>5, <3>1 DEF CleanupExpiredQuotas
      <4> QED BY <4>1, Untouched
    <3>2. CASE models[m] # NoModel
      <4> DEFINE reg == models[m]
                 reg2 == [reg EXCEPT !.quota =
                             [c \in Clients |-> IF reg.quota[c] = "stale" THEN "none" ELSE reg.quota[c]]]
      <4>1. reg \in Registration
        BY <1>1, <3>2 DEF Entry
      <4>2. models'[m] = [reg EXCEPT !.quota =
                             [c \in Clients |-> IF @[c] = "stale" THEN "none" ELSE @[c]]]
        BY <1>5, <3>2 DEF CleanupExpiredQuotas
      <4>3. models'[m] = reg2
        BY <4>2
      <4> HIDE DEF reg
      <4>4. reg2 \in Registration /\ reg2.count = reg.count /\ reg2.providers = reg.providers
        BY <4>1 DEF Registration
      <4> HIDE DEF reg2
      <4>5. CountsKept(reg, reg2)
        BY <1>1, <4>1, <4>4 DEF CountsKept, CountOf, ProvidersOf, Entry
      <4> QED BY <4>3, <4>5 DEF reg
    <3> QED BY <3>1, <3>2
  <2>2. models' = [m \in Models |-> models'[m]]
    BY <1>5 DEF CleanupExpiredQuotas
  <2>3. \A m \in Models : models'[m] \in Entry
    BY <2>1 DEF CountsKept
  <2>4. models' \in [Models -> Entry]
    BY <2>2, <2>3
  <2>5. UNCHANGED <<clientModels, clientProvider, pending>>
    BY <1>5 DEF CleanupExpiredQuotas
  <2> QED BY <1>1, <2>1, <2>4, <2>5, CountsKeptInv
<1> QED BY <1>2, <1>3, <1>4, <1>5

(* The invariant holds in the beginning. *)
LEMMA InvInit ==
    ASSUME SettingsAssumption, Init
    PROVE  RInv
<1>1. /\ models \in [Models -> Entry] /\ clientModels \in [Clients -> Lists]
      /\ clientProvider \in [Clients -> Providers \cup {NoProvider}]
      /\ pending \in [Reporters -> Seq(Note)]
  <2>1. EmptyList \in Lists
    BY EmptyListType
  <2> QED BY <2>1 DEF Init, Entry
<1>2. ASSUME NEW m \in Models PROVE Matches(models[m], Mentions(m), clientProvider)
  <2>1. \A c \in Clients : Mentions(m)[c] = 0
    BY EmptyListType DEF Mentions, Init
  <2>2. IsFiniteSet(Clients) /\ models[m] = NoModel
    BY DEF Init, SettingsAssumption
  <2>3. SumFunctionOnSet(Mentions(m), Clients) = 0
    BY <2>1, <2>2, SumPositive
  <2>4. ASSUME NEW p PROVE SumFunctionOnSet(Mentions(m), OfProvider(clientProvider, p)) = 0
    <3>1. OfProvider(clientProvider, p) \in SUBSET Clients
      BY DEF OfProvider
    <3>2. IsFiniteSet(OfProvider(clientProvider, p))
      BY <2>2, <3>1, FS_Subset
    <3>3. \A c \in OfProvider(clientProvider, p) : Mentions(m)[c] = 0
      BY <2>1, <3>1
    <3> QED BY <3>2, <3>3, SumPositive
  <2> QED BY <2>2, <2>3, <2>4 DEF Matches, CountOf, ProvidersOf
<1> QED BY <1>1, <1>2 DEF RInv, TypeOK, AllMatch, Entry

(* A step of the registry keeps it. *)
LEMMA InvStep ==
    ASSUME SettingsAssumption, RInv, [Next]_vars
    PROVE  RInv'
<1>1. CASE \E c \in Clients : RegisterClient(c) \/ UnregisterClient(c)
  BY <1>1, ClientStepInv
<1>2. CASE \/ \E r \in Reporters : Report(r) \/ Notify(r)
           \/ \E c \in Clients, m \in Models : MarkAges(c, m)
           \/ CleanupExpiredQuotas
  BY <1>2, MarkStepInv
<1>3. CASE UNCHANGED vars
  <2>1. /\ models' = models /\ pending' = pending /\ UNCHANGED <<clientModels, clientProvider>>
    BY <1>3 DEF vars
  <2>2. \A m \in Models : CountsKept(models[m], models'[m])
    BY <2>1, Untouched
  <2> QED BY <2>1, <2>2, CountsKeptInv DEF RInv, TypeOK, Entry
<1> QED BY <1>1, <1>2, <1>3 DEF Next

(* The counters as the properties state them. *)
LEMMA MatchMeans ==
    ASSUME AllMatch
    PROVE  CountsMatchClients /\ ProvidersMatchClients
<1>1. ASSUME NEW m \in Models
      PROVE  /\ SumFunctionOnSet(Mentions(m), Clients) = CountOf(models[m])
             /\ \A p \in Providers : SumFunctionOnSet(Mentions(m), OfProvider(clientProvider, p))
                                       = ProvidersOf(models[m], p)
  BY DEF AllMatch, Matches
<1>2. CountsMatchClients
  BY <1>1 DEF CountsMatchClients, CountOf
<1>3. ProvidersMatchClients
  BY <1>1 DEF ProvidersMatchClients, ProvidersOf, OfProvider
<1> QED BY <1>2, <1>3

(* What is listed has a provider, and a provider of a model a client.       *)
LEMMA MatchServes ==
    ASSUME SettingsAssumption, RInv
    PROVE  ListedIsServed
<1> SUFFICES ASSUME NEW m \in Models
             PROVE  /\ (\A c \in Clients : ClientSupportsModel(c, m) => clientProvider[c] # NoProvider)
                           => (Listed(m) => GetModelProviders(m) # {})
                    /\ \A p \in GetModelProviders(m) : \E c \in Clients :
                           clientProvider[c] = p /\ ClientSupportsModel(c, m)
  BY DEF ListedIsServed
<1> DEFINE f == Mentions(m)
<1>1. /\ f \in [Clients -> Nat]
      /\ \A c \in Clients : f[c] = clientModels[c][m] /\ clientModels[c][m] \in Nat
  BY MentionsType DEF RInv, TypeOK
<1>2. /\ CountOf(models[m]) = SumFunctionOnSet(f, Clients)
      /\ \A p \in Providers :
            ProvidersOf(models[m], p) = SumFunctionOnSet(f, OfProvider(clientProvider, p))
      /\ IsFiniteSet(Clients) /\ NoModel \notin Registration
      /\ models[m] \in Entry
      /\ clientProvider \in [Clients -> Providers \cup {NoProvider}]
  BY DEF RInv, AllMatch, Matches, SettingsAssumption, TypeOK, Entry
<1> HIDE DEF f
<1>3. ASSUME \A c \in Clients : ClientSupportsModel(c, m) => clientProvider[c] # NoProvider,
             Listed(m)
      PROVE  GetModelProviders(m) # {}
  <2>1. models[m] # NoModel
    BY <1>3 DEF Listed
  <2>2. models[m] \in Registration
    BY <1>2, <2>1 DEF Entry
  <2>3. models[m].count \in Nat \ {0} /\ models[m].providers \in [Providers -> Nat]
    BY <2>2, RegistrationFields
  <2>4. SumFunctionOnSet(f, Clients) # 0
    BY <1>2, <2>1, <2>3 DEF CountOf
  <2>5. PICK c \in Clients : f[c] # 0
    BY <1>2, <2>4, SumPositive
  <2>6. ClientSupportsModel(c, m) /\ f[c] > 0
    BY <1>1, <2>5 DEF ClientSupportsModel
  <2>7. clientProvider[c] \in Providers
    BY <1>2, <1>3, <2>6
  <2>8. Reaches(models[m], clientProvider[c], f[c])
    <3>1. Matches(models[m], f, clientProvider)
      BY <1>2 DEF Matches
    <3> QED BY <1>1, <1>2, <3>1, MatchesReaches
  <2>9. models[m].providers[clientProvider[c]] > 0
    <3>1. f[c] \in Nat /\ models[m].providers[clientProvider[c]] \in Nat
      BY <1>1, <2>3, <2>7
    <3>2. f[c] <= models[m].providers[clientProvider[c]]
      BY <2>1, <2>7, <2>8 DEF Reaches, ProvidersOf
    <3> QED BY <2>6, <3>1, <3>2
  <2> QED BY <2>1, <2>7, <2>9 DEF GetModelProviders
<1>4. ASSUME NEW p \in GetModelProviders(m)
      PROVE  \E c \in Clients : clientProvider[c] = p /\ ClientSupportsModel(c, m)
  <2>1. models[m] # NoModel /\ p \in Providers /\ models[m].providers[p] > 0
    BY <1>4 DEF GetModelProviders
  <2>2. SumFunctionOnSet(f, OfProvider(clientProvider, p)) # 0
    BY <1>2, <2>1 DEF ProvidersOf
  <2>3. IsFiniteSet(OfProvider(clientProvider, p))
    <3>1. OfProvider(clientProvider, p) \in SUBSET Clients
      BY DEF OfProvider
    <3> QED BY <1>2, <3>1, FS_Subset
  <2>4. PICK c \in OfProvider(clientProvider, p) : f[c] # 0
    BY <2>2, <2>3, SumPositive
  <2>5. c \in Clients /\ clientProvider[c] = p
    BY <2>4 DEF OfProvider
  <2>6. ClientSupportsModel(c, m)
    BY <1>1, <2>4, <2>5 DEF ClientSupportsModel
  <2> QED BY <2>5, <2>6
<1> QED BY <1>3, <1>4

(* Entries, lists, providers and the calls still to be made keep their      *)
(* types.                                                                  *)
THEOREM TypeCorrect == SettingsAssumption => (Spec => []TypeOK)
<1> SUFFICES ASSUME SettingsAssumption PROVE Spec => []TypeOK
  OBVIOUS
<1>1. Init => RInv
  BY InvInit
<1>2. RInv /\ [Next]_vars => RInv'
  BY InvStep
<1>3. RInv => TypeOK
  BY DEF RInv
<1> QED BY <1>1, <1>2, <1>3, PTL DEF Spec

(* The counters that registrations, re-registrations and removals move one  *)
(* by one never drift from the clients' lists, in all and per provider, for *)
(* any clients, models, providers and lists (model_registry.go 272).        *)
THEOREM CountersNeverDrift ==
    SettingsAssumption => (Spec => [](CountsMatchClients /\ ProvidersMatchClients))
<1> SUFFICES ASSUME SettingsAssumption
             PROVE  Spec => [](CountsMatchClients /\ ProvidersMatchClients)
  OBVIOUS
<1>1. Init => RInv
  BY InvInit
<1>2. RInv /\ [Next]_vars => RInv'
  BY InvStep
<1>3. RInv => CountsMatchClients /\ ProvidersMatchClients
  BY MatchMeans DEF RInv
<1> QED BY <1>1, <1>2, <1>3, PTL DEF Spec

(* A model the list endpoint offers can be routed, and every provider the   *)
(* router then tries has a client the conductor may pick.                   *)
THEOREM ListedAlwaysServed == SettingsAssumption => (Spec => []ListedIsServed)
<1> SUFFICES ASSUME SettingsAssumption PROVE Spec => []ListedIsServed
  OBVIOUS
<1>1. Init => RInv
  BY InvInit
<1>2. RInv /\ [Next]_vars => RInv'
  BY InvStep
<1>3. RInv => ListedIsServed
  BY MatchServes
<1> QED BY <1>1, <1>2, <1>3, PTL DEF Spec

(* A step of the registry leaves the marks of a client that keeps the model *)
(* while another one's list changes.                                        *)
LEMMA MarksStay ==
    ASSUME SettingsAssumption, RInv, [Next]_vars
    PROVE  \A c \in Clients, m \in Models :
              /\ ClientSupportsModel(c, m)
              /\ \E d \in Clients \ {c} : clientModels'[d] # clientModels[d]
              => /\ models'[m] # NoModel
                 /\ models'[m].quota[c] = models[m].quota[c]
                 /\ models'[m].suspended[c] = models[m].suspended[c]
<1>1. ASSUME NEW c \in Clients, NEW m \in Models, ClientSupportsModel(c, m),
             NEW d \in Clients \ {c}, clientModels'[d] # clientModels[d]
      PROVE  /\ models'[m] # NoModel
             /\ models'[m].quota[c] = models[m].quota[c]
             /\ models'[m].suspended[c] = models[m].suspended[c]
  <2>1. PICK e \in Clients : RegisterClient(e) \/ UnregisterClient(e)
    BY <1>1 DEF Next, vars, Report, Notify, MarkAges, CleanupExpiredQuotas
  <2>2. /\ Follows(e)
        /\ \A n \in Models : models[n] # NoModel /\ clientModels[e][n] < CountOf(models[n])
              => MarksKept(models[n], models'[n], e)
    BY <2>1, ForgetStep, RegisterStep DEF UnregisterClient
  <2>3. e = d
    BY <1>1, <2>2 DEF Follows
  <2>4. /\ Mentions(m) \in [Clients -> Nat]
        /\ \A x \in Clients : Mentions(m)[x] = clientModels[x][m] /\ clientModels[x][m] \in Nat
    BY MentionsType DEF RInv, TypeOK
  <2>5. clientModels[d][m] + clientModels[c][m] <= CountOf(models[m])
    <3>1. Matches(models[m], Mentions(m), clientProvider) /\ IsFiniteSet(Clients)
      BY DEF RInv, AllMatch, SettingsAssumption
    <3> QED BY <2>4, <3>1, MatchesReaches
  <2>6. CountOf(models[m]) \in Nat
    BY RegistrationFields DEF RInv, TypeOK, CountOf
  <2>7. models[m] # NoModel /\ clientModels[d][m] < CountOf(models[m])
    BY <2>4, <2>5, <2>6, <1>1 DEF ClientSupportsModel, CountOf
  <2>8. MarksKept(models[m], models'[m], d)
    BY <2>2, <2>3, <2>7
  <2> QED BY <2>8 DEF MarksKept
<1> QED BY <1>1

(* Registering or removing a client leaves the quota and suspension marks   *)
(* of every other client that keeps the model, whatever the registration    *)
(* drops, adds or moves to another provider.                                *)
THEOREM OthersMarksStay == SettingsAssumption => (Spec => OthersKeepMarks)
<1> SUFFICES ASSUME SettingsAssumption PROVE Spec => OthersKeepMarks
  OBVIOUS
<1>1. Init => RInv
  BY InvInit
<1>2. RInv /\ [Next]_vars => RInv'
  BY InvStep
<1>3. RInv /\ [Next]_vars =>
        [\A c \in Clients, m \in Models :
          /\ ClientSupportsModel(c, m) /\ ClientSupportsModel(c, m)'
          /\ \E d \in Clients \ {c} : clientModels'[d] # clientModels[d]
          => /\ models'[m] # NoModel
             /\ models'[m].quota[c] = models[m].quota[c]
             /\ models'[m].suspended[c] = models[m].suspended[c]]_vars
  BY MarksStay
<1> QED BY <1>1, <1>2, <1>3, PTL DEF Spec, OthersKeepMarks
=============================================================================

---------------------------- MODULE TwoLunsProofs ----------------------------
(***************************************************************************)
(* Two LUNs of one process, for any number of threads of each: neither     *)
(* ever uses, closes or unlocks what the other holds.  What a LUN does     *)
(* with the process's descriptors and mutexes is said once, of any set of  *)
(* threads and any values of their variables, and then of both LUNs.       *)
(***************************************************************************)
EXTENDS TwoLuns, TLAPS

AllThreads == ThreadsA \cup ThreadsB
Fds == FirstFd .. LastFd
Mutexes == 0 .. MAX_GET_OBJECT_LOCK - 1
Entries == [thread : AllThreads, oid : Oids, use : {"io", "creat"}]

TableType(tab) == tab \in [Fds -> SUBSET Entries]
MutexType(lk) == lk \in [Mutexes -> AllThreads \cup {NoThread}]

(* The labels at which a thread has its object open, and those at which it *)
(* is between lock and unlock of simpleOSD_get_object_to_dc.               *)
Owning == {"io", "obj_reset", "reset"}
Fetching == {"fetch_stat", "fetch_creat", "fetch_alloc", "fetch_unlock", "fetch_fail"}

(* An object index is a natural number. *)
LEMMA QuotientNat ==
  ASSUME NEW a \in Nat, NEW k \in Nat \ {0}
  PROVE  a \div k \in Nat
BY SMT

-----------------------------------------------------------------------------
(* The descriptors of a LUN with threads T, whose labels are p, object     *)
(* indexes i and descriptors f, in the table tab.                          *)
ObjectOf(label, index) == IF label = "reset" THEN Oid(index - 1) ELSE Oid(index)
Entry(t, oid, use) == [thread |-> t, oid |-> oid, use |-> use]

Held(T, p, i, f, tab) ==
  /\ \A t \in T :
       IF p[t] \in Owning
       THEN f[t] \in Fds /\ tab[f[t]] = {Entry(t, ObjectOf(p[t], i[t]), "io")}
       ELSE f[t] \in {0, -1}
  /\ \A fd \in Fds : \A e \in tab[fd] :
       e.thread \in T /\ e.use = "io" /\ fd > 3 =>
         p[e.thread] \in Owning /\ f[e.thread] = fd

(* A step of thread t leaves the calls of the others alone. *)
Frame(T, t, p, p1, i, i1, f, f1) ==
  \A u \in T : u # t => p1[u] = p[u] /\ i1[u] = i[u] /\ f1[u] = f[u]

(* What a step of thread t may do to the table: nothing, ... *)
KeepsFd(t, p, p1, i, i1, f, f1, tab, tab1) ==
  /\ tab1 = tab
  /\ \/ /\ p[t] \in Owning /\ p1[t] \in Owning /\ f1[t] = f[t]
        /\ ObjectOf(p1[t], i1[t]) = ObjectOf(p[t], i[t])
     \/ p[t] \notin Owning /\ p1[t] \notin Owning /\ f1[t] \in {f[t], 0}

(* ... open its object for creation or transfer, or ... *)
OpensFd(t, p, p1, i, i1, f, f1, tab, tab1) ==
  /\ p[t] \notin Owning
  /\ \E fd \in Fds :
       /\ tab[fd] = {}
       /\ \/ /\ tab1 = [tab EXCEPT ![fd] = {Entry(t, Oid(i[t]), "creat")}]
             /\ p1[t] \notin Owning /\ f1[t] = f[t]
          \/ /\ tab1 = [tab EXCEPT ![fd] = {Entry(t, Oid(i[t]), "io")}]
             /\ p1[t] = "io" /\ f1[t] = fd /\ i1[t] = i[t]

(* ... close what it has in file_fd unless that is a reserved descriptor.  *)
ClosesFd(t, p, p1, i, i1, f, f1, tab, tab1) ==
  /\ p1[t] \notin Owning /\ f1[t] \in {0, -1}
  /\ tab1 = IF f[t] > 3 THEN [tab EXCEPT ![f[t]] = {}] ELSE tab

UsesFd(t, p, p1, i, i1, f, f1, tab, tab1) ==
  \/ KeepsFd(t, p, p1, i, i1, f, f1, tab, tab1)
  \/ OpensFd(t, p, p1, i, i1, f, f1, tab, tab1)
  \/ ClosesFd(t, p, p1, i, i1, f, f1, tab, tab1)

(* The descriptors that change hold nothing but entries of threads T. *)
ChangesOnly(T, tab, tab1) ==
  \A fd \in Fds : \/ tab1[fd] = tab[fd]
                  \/ \A e \in tab[fd] \cup tab1[fd] : e.thread \in T

(* Two threads of one LUN have different descriptors. *)
LEMMA HeldDiffer ==
  ASSUME NEW T, NEW p, NEW i, NEW f, NEW tab, Held(T, p, i, f, tab),
         NEW t \in T, NEW u \in T, t # u, p[t] \in Owning, p[u] \in Owning
  PROVE  f[t] # f[u]
<1> SUFFICES ASSUME f[t] = f[u] PROVE FALSE
  OBVIOUS
<1>1. /\ tab[f[t]] = {Entry(t, ObjectOf(p[t], i[t]), "io")}
      /\ tab[f[u]] = {Entry(u, ObjectOf(p[u], i[u]), "io")}
  BY DEF Held
<1>2. Entry(t, ObjectOf(p[t], i[t]), "io") = Entry(u, ObjectOf(p[u], i[u]), "io")
  BY <1>1
<1> QED BY <1>2 DEF Entry

(* A step that does nothing to the table keeps the accounting. *)
LEMMA HeldKeeps ==
  ASSUME NEW T, NEW t \in T, NEW p, NEW p1, NEW i, NEW i1, NEW f, NEW f1,
         NEW tab, NEW tab1, TableType(tab), Held(T, p, i, f, tab),
         Frame(T, t, p, p1, i, i1, f, f1),
         KeepsFd(t, p, p1, i, i1, f, f1, tab, tab1)
  PROVE  /\ Held(T, p1, i1, f1, tab1)
         /\ TableType(tab1) /\ ChangesOnly(T, tab, tab1)
<1>1. ASSUME NEW u \in T
      PROVE  IF p1[u] \in Owning
             THEN f1[u] \in Fds /\ tab1[f1[u]] = {Entry(u, ObjectOf(p1[u], i1[u]), "io")}
             ELSE f1[u] \in {0, -1}
  BY DEF Held, Frame, KeepsFd
<1>2. ASSUME NEW fd \in Fds, NEW e \in tab1[fd], e.thread \in T, e.use = "io", fd > 3
      PROVE  p1[e.thread] \in Owning /\ f1[e.thread] = fd
  BY <1>2 DEF Held, Frame, KeepsFd
<1> QED BY <1>1, <1>2 DEF Held, KeepsFd, ChangesOnly

(* So does one that opens a descriptor nobody has. *)
LEMMA HeldOpens ==
  ASSUME NEW T, T \subseteq AllThreads, NEW t \in T,
         NEW p, NEW p1, NEW i, i[t] \in Nat, NEW i1, NEW f, NEW f1,
         NEW tab, NEW tab1, TableType(tab), Held(T, p, i, f, tab),
         Frame(T, t, p, p1, i, i1, f, f1),
         OpensFd(t, p, p1, i, i1, f, f1, tab, tab1)
  PROVE  /\ Held(T, p1, i1, f1, tab1)
         /\ TableType(tab1) /\ ChangesOnly(T, tab, tab1)
<1>1. PICK fd \in Fds :
        /\ tab[fd] = {}
        /\ \/ /\ tab1 = [tab EXCEPT ![fd] = {Entry(t, Oid(i[t]), "creat")}]
              /\ p1[t] \notin Owning /\ f1[t] = f[t]
           \/ /\ tab1 = [tab EXCEPT ![fd] = {Entry(t, Oid(i[t]), "io")}]
              /\ p1[t] = "io" /\ f1[t] = fd /\ i1[t] = i[t]
  BY DEF OpensFd
<1>2. PICK use \in {"io", "creat"} :
        /\ tab1 = [tab EXCEPT ![fd] = {Entry(t, Oid(i[t]), use)}]
        /\ use = "creat" => p1[t] \notin Owning /\ f1[t] = f[t]
        /\ use = "io" => p1[t] = "io" /\ f1[t] = fd /\ i1[t] = i[t]
  BY <1>1
<1>3. /\ tab1[fd] = {Entry(t, Oid(i[t]), use)}
      /\ \A gd \in Fds : gd # fd => tab1[gd] = tab[gd]
  BY <1>2 DEF TableType
<1>4. p[t] \notin Owning
  BY DEF OpensFd
<1>5. Entry(t, Oid(i[t]), use) \in Entries
  <2>1. Oid(i[t]) \in Oids
    BY StripingAssumption DEF Oid, Oids
  <2> QED BY <2>1 DEF Entry, Entries
<1>6. TableType(tab1)
  BY <1>2, <1>5 DEF TableType
<1>7. ChangesOnly(T, tab, tab1)
  BY <1>1, <1>3 DEF ChangesOnly, Entry
<1>8. ASSUME NEW u \in T
      PROVE  IF p1[u] \in Owning
             THEN f1[u] \in Fds /\ tab1[f1[u]] = {Entry(u, ObjectOf(p1[u], i1[u]), "io")}
             ELSE f1[u] \in {0, -1}
  <2>1. CASE u = t
    BY <1>2, <1>3, <1>4, <2>1 DEF Held, ObjectOf, Owning
  <2>2. CASE u # t /\ p[u] \notin Owning
    BY <2>2 DEF Held, Frame
  <2>3. CASE u # t /\ p[u] \in Owning
    <3>1. f[u] \in Fds /\ tab[f[u]] = {Entry(u, ObjectOf(p[u], i[u]), "io")}
      BY <2>3 DEF Held
    <3>2. f[u] # fd
      BY <1>1, <3>1
    <3> QED BY <1>3, <2>3, <3>1, <3>2 DEF Frame
  <2> QED BY <2>1, <2>2, <2>3
<1>9. ASSUME NEW gd \in Fds, NEW e \in tab1[gd], e.thread \in T, e.use = "io", gd > 3
      PROVE  p1[e.thread] \in Owning /\ f1[e.thread] = gd
  <2>1. CASE gd = fd
    BY <1>2, <1>3, <1>9, <2>1 DEF Entry, Owning
  <2>2. CASE gd # fd
    BY <1>3, <1>4, <1>9, <2>2 DEF Held, Frame
  <2> QED BY <2>1, <2>2
<1> QED BY <1>6, <1>7, <1>8, <1>9 DEF Held

(* So does one that closes: a thread without an object has no descriptor   *)
(* to close, and one with an object closes its own.                        *)
LEMMA HeldCloses ==
  ASSUME NEW T, NEW t \in T, NEW p, NEW p1, NEW i, NEW i1, NEW f, NEW f1,
         NEW tab, NEW tab1, TableType(tab), Held(T, p, i, f, tab),
         Frame(T, t, p, p1, i, i1, f, f1),
         ClosesFd(t, p, p1, i, i1, f, f1, tab, tab1)
  PROVE  /\ Held(T, p1, i1, f1, tab1)
         /\ TableType(tab1) /\ ChangesOnly(T, tab, tab1)
<1>1. CASE p[t] \notin Owning
  <2>1. f[t] \in {0, -1}
    BY <1>1 DEF Held
  <2>2. tab1 = tab
    BY <2>1 DEF ClosesFd
  <2>3. ASSUME NEW u \in T
        PROVE  IF p1[u] \in Owning
               THEN f1[u] \in Fds /\ tab1[f1[u]] = {Entry(u, ObjectOf(p1[u], i1[u]), "io")}
               ELSE f1[u] \in {0, -1}
    BY <2>2 DEF Held, Frame, ClosesFd
  <2>4. ASSUME NEW fd \in Fds, NEW e \in tab1[fd], e.thread \in T, e.use = "io", fd > 3
        PROVE  p1[e.thread] \in Owning /\ f1[e.thread] = fd
    BY <1>1, <2>2, <2>4 DEF Held, Frame
  <2> QED BY <2>2, <2>3, <2>4 DEF Held, ChangesOnly
<1>2. CASE p[t] \in Owning
  <2>1. f[t] \in Fds /\ tab[f[t]] = {Entry(t, ObjectOf(p[t], i[t]), "io")}
    BY <1>2 DEF Held
  <2>2. /\ TableType(tab1)
        /\ \A fd \in Fds : fd # f[t] => tab1[fd] = tab[fd]
        /\ tab1[f[t]] = {} \/ (tab1 = tab /\ ~(f[t] > 3))
    BY <2>1 DEF TableType, ClosesFd
  <2>3. ChangesOnly(T, tab, tab1)
    BY <2>1, <2>2 DEF ChangesOnly, Entry
  <2>4. ASSUME NEW u \in T
        PROVE  IF p1[u] \in Owning
               THEN f1[u] \in Fds /\ tab1[f1[u]] = {Entry(u, ObjectOf(p1[u], i1[u]), "io")}
               ELSE f1[u] \in {0, -1}
    <3>1. CASE u = t
      BY <3>1 DEF ClosesFd
    <3>2. CASE u # t /\ p[u] \notin Owning
      BY <3>2 DEF Held, Frame
    <3>3. CASE u # t /\ p[u] \in Owning
      <4>1. f[u] # f[t]
        BY <1>2, <3>3, HeldDiffer
      <4>2. f[u] \in Fds /\ tab[f[u]] = {Entry(u, ObjectOf(p[u], i[u]), "io")}
        BY <3>3 DEF Held
      <4> QED BY <2>2, <3>3, <4>1, <4>2 DEF Frame
    <3> QED BY <3>1, <3>2, <3>3
  <2>5. ASSUME NEW fd \in Fds, NEW e \in tab1[fd], e.thread \in T, e.use = "io", fd > 3
        PROVE  p1[e.thread] \in Owning /\ f1[e.thread] = fd
    <3>1. fd # f[t]
      BY <2>2, <2>5
    <3>2. e \in tab[fd]
      BY <2>2, <3>1
    <3>3. p[e.thread] \in Owning /\ f[e.thread] = fd
      BY <2>5, <3>2 DEF Held
    <3> QED BY <2>5, <3>1, <3>3 DEF Frame
  <2> QED BY <2>2, <2>3, <2>4, <2>5 DEF Held
<1> QED BY <1>1, <1>2

(* A LUN's own steps keep its accounting, and of the table they change     *)
(* only what is its own.                                                   *)
LEMMA HeldStep ==
  ASSUME NEW T, T \subseteq AllThreads, NEW t \in T,
         NEW p, NEW p1, NEW i, i[t] \in Nat, NEW i1, NEW f, NEW f1,
         NEW tab, NEW tab1, TableType(tab), Held(T, p, i, f, tab),
         Frame(T, t, p, p1, i, i1, f, f1),
         UsesFd(t, p, p1, i, i1, f, f1, tab, tab1)
  PROVE  /\ Held(T, p1, i1, f1, tab1)
         /\ TableType(tab1) /\ ChangesOnly(T, tab, tab1)
<1>1. CASE KeepsFd(t, p, p1, i, i1, f, f1, tab, tab1)
  BY <1>1, HeldKeeps
<1>2. CASE OpensFd(t, p, p1, i, i1, f, f1, tab, tab1)
  BY <1>2, HeldOpens
<1>3. CASE ClosesFd(t, p, p1, i, i1, f, f1, tab, tab1)
  BY <1>3, HeldCloses
<1> QED BY <1>1, <1>2, <1>3 DEF UsesFd

(* The steps of another LUN, with threads S, keep it as well. *)
LEMMA HeldOther ==
  ASSUME NEW T, NEW S, T \cap S = {}, NEW p, NEW i, NEW f, NEW tab, NEW tab1,
         Held(T, p, i, f, tab), ChangesOnly(S, tab, tab1)
  PROVE  Held(T, p, i, f, tab1)
<1>1. ASSUME NEW t \in T, p[t] \in Owning
      PROVE  f[t] \in Fds /\ tab1[f[t]] = {Entry(t, ObjectOf(p[t], i[t]), "io")}
  <2> DEFINE own == Entry(t, ObjectOf(p[t], i[t]), "io")
  <2>1. f[t] \in Fds /\ tab[f[t]] = {own}
    BY <1>1 DEF Held
  <2>2. own.thread = t
    BY DEF Entry
  <2> HIDE DEF own
  <2>3. tab1[f[t]] = tab[f[t]]
    BY <2>1, <2>2 DEF ChangesOnly
  <2> QED BY <2>1, <2>3 DEF own
<1>2. ASSUME NEW t \in T, p[t] \notin Owning
      PROVE  f[t] \in {0, -1}
  BY <1>2 DEF Held
<1>3. ASSUME NEW fd \in Fds, NEW e \in tab1[fd], e.thread \in T, e.use = "io", fd > 3
      PROVE  p[e.thread] \in Owning /\ f[e.thread] = fd
  BY <1>3 DEF Held, ChangesOnly
<1> QED BY <1>1, <1>2, <1>3 DEF Held

-----------------------------------------------------------------------------
(* The fetch mutexes, in the same way.                                     *)
MutexOf(index) == index % MAX_GET_OBJECT_LOCK

Locked(T, p, i, lk) ==
  /\ \A t \in T : p[t] \in Fetching => lk[MutexOf(i[t])] = t
  /\ \A m \in Mutexes : lk[m] \in T => p[lk[m]] \in Fetching /\ MutexOf(i[lk[m]]) = m

(* A step of thread t neither locks nor unlocks, locks the mutex of its    *)
(* object index if it is free, or unlocks it.                              *)
UsesMutex(t, p, p1, i, i1, lk, lk1) ==
  \/ /\ lk1 = lk
     /\ \/ p[t] \in Fetching /\ p1[t] \in Fetching /\ i1[t] = i[t]
        \/ p[t] \notin Fetching /\ p1[t] \notin Fetching
  \/ /\ p[t] \notin Fetching /\ p1[t] \in Fetching /\ i1[t] = i[t]
     /\ lk[MutexOf(i[t])] = NoThread
     /\ lk1 = [lk EXCEPT ![MutexOf(i[t])] = t]
  \/ /\ p[t] \in Fetching /\ p1[t] \notin Fetching
     /\ lk1 = [lk EXCEPT ![MutexOf(i[t])] = NoThread]

(* The mutexes that change are free or held by threads T. *)
LocksOnly(T, lk, lk1) ==
  \A m \in Mutexes : lk1[m] = lk[m] \/ {lk[m], lk1[m]} \subseteq T \cup {NoThread}

(* A LUN's own steps keep its discipline, and change only mutexes that are *)
(* free or its own.                                                        *)
LEMMA LockedStep ==
  ASSUME NEW T, T \subseteq AllThreads, NEW t \in T,
         NEW p, NEW p1, NEW i, i \in [T -> Nat], NEW i1, NEW f, NEW f1,
         NEW lk, NEW lk1, MutexType(lk), Locked(T, p, i, lk),
         Frame(T, t, p, p1, i, i1, f, f1),
         UsesMutex(t, p, p1, i, i1, lk, lk1)
  PROVE  /\ Locked(T, p1, i1, lk1)
         /\ MutexType(lk1) /\ LocksOnly(T, lk, lk1)
<1>0. NoThread \notin T
  BY LunsAssumption DEF AllThreads
<1>1. \A u \in T : MutexOf(i[u]) \in Mutexes
  BY LunsAssumption, SMTT(30) DEF MutexOf, Mutexes
<1> DEFINE m == MutexOf(i[t])
<1>2. CASE /\ lk1 = lk
           /\ \/ p[t] \in Fetching /\ p1[t] \in Fetching /\ i1[t] = i[t]
              \/ p[t] \notin Fetching /\ p1[t] \notin Fetching
  BY <1>2 DEF Locked, Frame, LocksOnly
<1>3. CASE /\ p[t] \notin Fetching /\ p1[t] \in Fetching /\ i1[t] = i[t]
           /\ lk[m] = NoThread
           /\ lk1 = [lk EXCEPT ![m] = t]
  <2>1. m \in Mutexes
    BY <1>1
  <2> HIDE DEF m
  <2>2. lk1[m] = t /\ \A k \in Mutexes : k # m => lk1[k] = lk[k]
    BY <1>3, <2>1 DEF MutexType
  <2>3. MutexType(lk1) /\ LocksOnly(T, lk, lk1)
    BY <1>3, <2>1, <2>2 DEF MutexType, LocksOnly
  <2>4. ASSUME NEW u \in T, p1[u] \in Fetching PROVE lk1[MutexOf(i1[u])] = u
    <3>1. CASE u = t
      BY <1>3, <2>2, <3>1 DEF m
    <3>2. CASE u # t
      <4>1. p[u] \in Fetching /\ i1[u] = i[u] /\ lk[MutexOf(i[u])] = u
        BY <2>4, <3>2 DEF Frame, Locked
      <4>2. MutexOf(i[u]) # m
        BY <1>0, <1>3, <4>1
      <4> QED BY <1>1, <2>2, <4>1, <4>2
    <3> QED BY <3>1, <3>2
  <2>5. ASSUME NEW k \in Mutexes, lk1[k] \in T
        PROVE  p1[lk1[k]] \in Fetching /\ MutexOf(i1[lk1[k]]) = k
    <3>1. CASE k = m
      BY <1>3, <2>2, <3>1 DEF m
    <3>2. CASE k # m
      BY <1>3, <2>2, <2>5, <3>2 DEF Locked, Frame
    <3> QED BY <3>1, <3>2
  <2> QED BY <2>3, <2>4, <2>5 DEF Locked
<1>4. CASE /\ p[t] \in Fetching /\ p1[t] \notin Fetching
           /\ lk1 = [lk EXCEPT ![m] = NoThread]
  <2>1. m \in Mutexes /\ lk[m] = t
    BY <1>1, <1>4 DEF Locked
  <2> HIDE DEF m
  <2>2. lk1[m] = NoThread /\ \A k \in Mutexes : k # m => lk1[k] = lk[k]
    BY <1>4, <2>1 DEF MutexType
  <2>3. MutexType(lk1) /\ LocksOnly(T, lk, lk1)
    BY <1>4, <2>1, <2>2 DEF MutexType, LocksOnly
  <2>4. ASSUME NEW u \in T, p1[u] \in Fetching PROVE lk1[MutexOf(i1[u])] = u
    <3>1. u # t
      BY <1>4, <2>4
    <3>2. p[u] \in Fetching /\ i1[u] = i[u] /\ lk[MutexOf(i[u])] = u
      BY <2>4, <3>1 DEF Frame, Locked
    <3>3. MutexOf(i[u]) # m
      BY <2>1, <3>1, <3>2
    <3> QED BY <1>1, <2>2, <3>2, <3>3
  <2>5. ASSUME NEW k \in Mutexes, lk1[k] \in T
        PROVE  p1[lk1[k]] \in Fetching /\ MutexOf(i1[lk1[k]]) = k
    <3>1. k # m /\ lk1[k] = lk[k]
      BY <1>0, <2>2, <2>5
    <3>2. p[lk[k]] \in Fetching /\ MutexOf(i[lk[k]]) = k
      BY <2>5, <3>1 DEF Locked
    <3>3. lk[k] # t
      BY <3>1, <3>2 DEF m
    <3> QED BY <2>5, <3>1, <3>2, <3>3 DEF Frame
  <2> QED BY <2>3, <2>4, <2>5 DEF Locked
<1> QED BY <1>2, <1>3, <1>4 DEF UsesMutex

(* The steps of another LUN keep it as well. *)
LEMMA LockedOther ==
  ASSUME NEW T, NEW S, T \subseteq AllThreads, T \cap S = {},
         NEW p, NEW i, i \in [T -> Nat], NEW lk, NEW lk1,
         Locked(T, p, i, lk), LocksOnly(S, lk, lk1)
  PROVE  Locked(T, p, i, lk1)
<1>0. NoThread \notin T
  BY LunsAssumption DEF AllThreads
<1>1. \A u \in T : MutexOf(i[u]) \in Mutexes
  BY LunsAssumption, SMTT(30) DEF MutexOf, Mutexes
<1> QED BY <1>0, <1>1 DEF Locked, LocksOnly

-----------------------------------------------------------------------------
(* The steps of each LUN are steps of that kind. *)

(* What the variables of LUN A are, as far as sharing goes. *)
TypedA ==
  /\ DOMAIN pcA = ThreadsA /\ DOMAIN file_fdA = ThreadsA
  /\ traverse_indexA \in [ThreadsA -> Nat]

(* A step of thread t of LUN A, as the lemmas above see it. *)
StepOfA(t) ==
  /\ Frame(ThreadsA, t, pcA, pcA', traverse_indexA, traverse_indexA',
           file_fdA, file_fdA')
  /\ UsesFd(t, pcA, pcA', traverse_indexA, traverse_indexA', file_fdA, file_fdA',
            fdtab, fdtab')
  /\ UsesMutex(t, pcA, pcA', traverse_indexA, traverse_indexA',
               fetch_locks, fetch_locks')

(* A step that uses neither the table nor the mutexes: on to another       *)
(* label, ...                                                              *)
LEMMA QuietGotoA ==
  ASSUME TypedA, NEW t \in ThreadsA, NEW label, A!Goto(t, label),
         UNCHANGED <<fdtab, fetch_locks, traverse_indexA, file_fdA>>,
         pcA[t] \in Owning <=> label \in Owning,
         label # "reset" /\ pcA[t] # "reset",
         pcA[t] \in Fetching <=> label \in Fetching
  PROVE  TypedA' /\ StepOfA(t)
<1>1. /\ pcA'[t] = label /\ DOMAIN pcA' = ThreadsA
      /\ \A u \in ThreadsA : u # t => pcA'[u] = pcA[u]
  BY DEF TypedA, A!Goto
<1>2. TypedA'
  BY <1>1 DEF TypedA
<1>3. KeepsFd(t, pcA, pcA', traverse_indexA, traverse_indexA', file_fdA, file_fdA',
              fdtab, fdtab')
  BY <1>1 DEF KeepsFd, ObjectOf
<1>4. UsesMutex(t, pcA, pcA', traverse_indexA, traverse_indexA',
                fetch_locks, fetch_locks')
  BY <1>1 DEF UsesMutex
<1> QED BY <1>1, <1>2, <1>3, <1>4 DEF StepOfA, Frame, UsesFd

(* ... and what the end of a call does to the thread's variables. *)
LEMMA ReturnA ==
  ASSUME TypedA, NEW t \in ThreadsA, NEW result, A!Return(t, result)
  PROVE  /\ TypedA'
         /\ pcA'[t] = "idle" /\ file_fdA'[t] = 0 /\ traverse_indexA'[t] = 0
         /\ Frame(ThreadsA, t, pcA, pcA', traverse_indexA, traverse_indexA',
                  file_fdA, file_fdA')
  BY DEF TypedA, A!Return, A!Goto, Frame

(* The end of a call that has no object open and no mutex. *)
LEMMA QuietReturnA ==
  ASSUME TypedA, NEW t \in ThreadsA, NEW result, A!Return(t, result),
         UNCHANGED <<fdtab, fetch_locks>>,
         pcA[t] \notin Owning, pcA[t] \notin Fetching
  PROVE  TypedA' /\ StepOfA(t)
  BY ReturnA DEF StepOfA, UsesFd, KeepsFd, UsesMutex, Owning, Fetching

(* osd_reset_cache_object, as ClosesFd has it. *)
LEMMA ResetA ==
  ASSUME TypedA, NEW t \in ThreadsA, NEW ok \in BOOLEAN, A!ResetClose(t, ok),
         pcA'[t] \notin Owning, file_fdA'[t] \in {0, -1}
  PROVE  UsesFd(t, pcA, pcA', traverse_indexA, traverse_indexA', file_fdA, file_fdA',
                fdtab, fdtab')
  BY DEF A!ResetClose, A!RESERVED_FDS, UsesFd, ClosesFd

(* Every step of a thread of LUN A is one of those. *)
LEMMA StepsOfA ==
  ASSUME TypedA, NEW t \in ThreadsA, A!Submit(t) \/ A!Step(t)
  PROVE  TypedA' /\ StepOfA(t)
<1> USE DEF Owning, Fetching
<1>1. CASE A!Submit(t)
  <2>1. PICK r \in Requests : \/ A!ReadUnformatted(t, r) \/ A!Reject(t, r)
                              \/ A!AcceptEmpty(t, r) \/ A!Accept(t, r)
    BY <1>1 DEF A!Submit
  <2>2. CASE A!ReadUnformatted(t, r) \/ A!Reject(t, r) \/ A!AcceptEmpty(t, r)
    <3>1. /\ \E result : A!Return(t, result)
          /\ UNCHANGED <<fdtab, fetch_locks>> /\ pcA[t] = "idle"
      BY <2>2 DEF A!ReadUnformatted, A!Reject, A!AcceptEmpty, A!Arrive
    <3> QED BY <3>1, QuietReturnA
  <2>3. CASE A!Accept(t, r)
    <3>1. A!ObjectIndex(r.offset) \in Nat
      <4>1. r.offset \in Nat
        BY LunsAssumption
      <4>2. object_size \in Nat \ {0}
        BY StripingAssumption
      <4> QED BY <4>1, <4>2, QuotientNat DEF A!ObjectIndex
    <3>2. /\ pcA[t] = "idle" /\ pcA'[t] = "stat" /\ DOMAIN pcA' = ThreadsA
          /\ \A u \in ThreadsA : u # t =>
               pcA'[u] = pcA[u] /\ traverse_indexA'[u] = traverse_indexA[u]
          /\ traverse_indexA' \in [ThreadsA -> Nat]
          /\ UNCHANGED <<fdtab, fetch_locks, file_fdA>>
      BY <2>3, <3>1 DEF A!Accept, A!Arrive, A!Goto, TypedA
    <3> QED BY <3>2 DEF TypedA, StepOfA, Frame, UsesFd, KeepsFd, UsesMutex
  <2> QED BY <2>1, <2>2, <2>3
<1>2. CASE \/ A!StatFound(t) \/ A!StatMissing(t) \/ A!FetchStat(t)
           \/ A!FetchCreatFails(t) \/ A!FetchAlloc(t) \/ A!FetchAllocFails(t)
           \/ A!ObjIoFails(t)
  <2>1. PICK label : /\ A!Goto(t, label)
                     /\ UNCHANGED <<fdtab, fetch_locks, traverse_indexA, file_fdA>>
                     /\ \/ pcA[t] = "stat" /\ label \in {"open", "fetch_lock"}
                        \/ /\ pcA[t] \in {"fetch_stat", "fetch_creat", "fetch_alloc"}
                           /\ label \in {"fetch_unlock", "fetch_creat", "fetch_fail"}
                        \/ pcA[t] = "io" /\ label = "obj_reset"
    BY <1>2 DEF A!StatFound, A!StatMissing, A!FetchStat, A!FetchCreatFails, A!FetchAlloc,
                A!FetchAllocFails, A!ObjIoFails, A!locals
  <2> QED BY <2>1, QuietGotoA
<1>3. CASE A!StatUnplaced(t) \/ A!OpenObjectFails(t)
  BY <1>3, QuietReturnA DEF A!StatUnplaced, A!OpenObjectFails
<1>4. CASE A!FetchLock(t)
  <2>1. /\ pcA[t] = "fetch_lock" /\ pcA'[t] = "fetch_stat" /\ DOMAIN pcA' = ThreadsA
        /\ \A u \in ThreadsA : u # t => pcA'[u] = pcA[u]
        /\ UNCHANGED <<fdtab, traverse_indexA, file_fdA>>
        /\ fetch_locks[A!LockOf(t)] = NoThread
        /\ fetch_locks' = [fetch_locks EXCEPT ![A!LockOf(t)] = t]
    BY <1>4 DEF A!FetchLock, A!Goto, A!locals, TypedA
  <2>2. A!LockOf(t) = MutexOf(traverse_indexA[t])
    BY DEF A!LockOf, MutexOf
  <2> QED BY <2>1, <2>2 DEF TypedA, StepOfA, Frame, UsesFd, KeepsFd, UsesMutex
<1>5. CASE A!FetchUnlock(t) \/ A!FetchUnlockFail(t)
  <2>1. A!LockOf(t) = MutexOf(traverse_indexA[t])
    BY DEF A!LockOf, MutexOf
  <2>2. CASE A!FetchUnlock(t)
    <3>1. /\ pcA[t] = "fetch_unlock" /\ pcA'[t] = "open" /\ DOMAIN pcA' = ThreadsA
          /\ \A u \in ThreadsA : u # t => pcA'[u] = pcA[u]
          /\ UNCHANGED <<fdtab, traverse_indexA, file_fdA>>
          /\ fetch_locks' = [fetch_locks EXCEPT ![A!LockOf(t)] = NoThread]
      BY <2>2 DEF A!FetchUnlock, A!Goto, A!locals, TypedA
    <3> QED BY <2>1, <3>1 DEF TypedA, StepOfA, Frame, UsesFd, KeepsFd, UsesMutex
  <2>3. CASE A!FetchUnlockFail(t)
    <3>1. /\ pcA[t] = "fetch_fail" /\ A!Return(t, "OSD_ERROR") /\ UNCHANGED fdtab
          /\ fetch_locks' = [fetch_locks EXCEPT ![A!LockOf(t)] = NoThread]
      BY <2>3 DEF A!FetchUnlockFail
    <3> QED BY <2>1, <3>1, ReturnA DEF StepOfA, UsesFd, KeepsFd, UsesMutex
  <2> QED BY <1>5, <2>2, <2>3
<1>6. CASE A!FetchCreat(t)
  <2>1. /\ pcA[t] = "fetch_creat" /\ pcA'[t] = "fetch_alloc" /\ DOMAIN pcA' = ThreadsA
        /\ \A u \in ThreadsA : u # t => pcA'[u] = pcA[u]
        /\ UNCHANGED <<fetch_locks, traverse_indexA, file_fdA>>
    BY <1>6 DEF A!FetchCreat, A!Goto, A!locals, TypedA
  <2>2. A!OpenEntry(t, "creat") = Entry(t, Oid(traverse_indexA[t]), "creat")
    BY DEF A!OpenEntry, A!CurrentOid, A!Oid, Oid, Entry
  <2>3. OpensFd(t, pcA, pcA', traverse_indexA, traverse_indexA', file_fdA, file_fdA',
                fdtab, fdtab')
    BY <1>6, <2>1, <2>2 DEF A!FetchCreat, A!LowestFree, A!Fds, Fds, OpensFd
  <2> QED BY <2>1, <2>3 DEF TypedA, StepOfA, Frame, UsesFd, UsesMutex
<1>7. CASE A!OpenObject(t)
  <2>1. /\ pcA[t] = "open" /\ pcA'[t] = "io" /\ DOMAIN pcA' = ThreadsA
        /\ \A u \in ThreadsA : u # t => pcA'[u] = pcA[u]
        /\ UNCHANGED <<fetch_locks, traverse_indexA>>
    BY <1>7 DEF A!OpenObject, A!Goto, A!locals, TypedA
  <2>2. A!OpenEntry(t, "io") = Entry(t, Oid(traverse_indexA[t]), "io")
    BY DEF A!OpenEntry, A!CurrentOid, A!Oid, Oid, Entry
  <2>3. PICK fd \in Fds :
          /\ fdtab[fd] = {}
          /\ fdtab' = [fdtab EXCEPT ![fd] = {Entry(t, Oid(traverse_indexA[t]), "io")}]
          /\ file_fdA' = [file_fdA EXCEPT ![t] = fd]
    BY <1>7, <2>2 DEF A!OpenObject, A!LowestFree, A!Fds, Fds
  <2>4. /\ file_fdA'[t] = fd /\ DOMAIN file_fdA' = ThreadsA
        /\ \A u \in ThreadsA : u # t => file_fdA'[u] = file_fdA[u]
    BY <2>3 DEF TypedA
  <2>5. OpensFd(t, pcA, pcA', traverse_indexA, traverse_indexA', file_fdA, file_fdA',
                fdtab, fdtab')
    BY <2>1, <2>3, <2>4 DEF OpensFd
  <2> QED BY <2>1, <2>4, <2>5 DEF TypedA, StepOfA, Frame, UsesFd, UsesMutex
<1>8. CASE \E n \in 1 .. object_size : A!ObjRead(t, n) \/ A!ObjWrite(t, n)
  <2>1. /\ pcA[t] = "io" /\ UNCHANGED <<fdtab, fetch_locks, file_fdA>>
        /\ DOMAIN pcA' = ThreadsA
        /\ \A u \in ThreadsA : u # t =>
             pcA'[u] = pcA[u] /\ traverse_indexA'[u] = traverse_indexA[u]
        /\ traverse_indexA' \in [ThreadsA -> Nat]
        /\ \/ pcA'[t] = "io" /\ traverse_indexA'[t] = traverse_indexA[t]
           \/ pcA'[t] = "reset" /\ traverse_indexA'[t] = traverse_indexA[t] + 1
    BY <1>8 DEF A!ObjRead, A!ObjWrite, A!Advance, A!Goto, TypedA
  <2>2. ObjectOf(pcA'[t], traverse_indexA'[t]) = ObjectOf(pcA[t], traverse_indexA[t])
    <3>1. CASE pcA'[t] = "io" /\ traverse_indexA'[t] = traverse_indexA[t]
      BY <2>1, <3>1 DEF ObjectOf
    <3>2. CASE pcA'[t] = "reset" /\ traverse_indexA'[t] = traverse_indexA[t] + 1
      <4>1. traverse_indexA'[t] - 1 = traverse_indexA[t]
        BY <3>2 DEF TypedA
      <4> QED BY <2>1, <3>2, <4>1 DEF ObjectOf
    <3> QED BY <2>1, <3>1, <3>2
  <2> QED BY <2>1, <2>2 DEF TypedA, StepOfA, Frame, UsesFd, KeepsFd, UsesMutex
<1>9. CASE A!ObjReadEof(t)
  BY <1>9 DEF A!ObjReadEof, A!vars, TypedA, StepOfA, Frame, UsesFd, KeepsFd, UsesMutex
<1>10. CASE A!ObjReset(t) \/ A!NextObject(t)
  <2>1. /\ pcA[t] \in {"obj_reset", "reset"} /\ pcA'[t] \in {"op_reset", "stat"}
        /\ DOMAIN pcA' = ThreadsA /\ DOMAIN file_fdA' = ThreadsA
        /\ \A u \in ThreadsA : u # t => pcA'[u] = pcA[u] /\ file_fdA'[u] = file_fdA[u]
        /\ file_fdA'[t] \in {0, -1}
        /\ UNCHANGED <<fetch_locks, traverse_indexA>>
        /\ \E ok \in BOOLEAN : A!ResetClose(t, ok)
    BY <1>10 DEF A!ObjReset, A!NextObject, A!ResetFd, A!Goto, A!locals, TypedA
  <2>2. UsesFd(t, pcA, pcA', traverse_indexA, traverse_indexA', file_fdA, file_fdA',
               fdtab, fdtab')
    BY <2>1, ResetA
  <2> QED BY <2>1, <2>2 DEF TypedA, StepOfA, Frame, UsesMutex
<1>11. CASE A!OpReset(t) \/ A!Complete(t) \/ A!ResetFails(t)
  <2>1. /\ pcA[t] \in {"op_reset", "reset"} /\ UNCHANGED fetch_locks
        /\ \E result : A!Return(t, result)
        /\ \E ok \in BOOLEAN : A!ResetClose(t, ok)
    BY <1>11 DEF A!OpReset, A!Complete, A!ResetFails
  <2>2. /\ TypedA' /\ pcA'[t] = "idle" /\ file_fdA'[t] = 0
        /\ Frame(ThreadsA, t, pcA, pcA', traverse_indexA, traverse_indexA',
                 file_fdA, file_fdA')
    BY <2>1, ReturnA
  <2>3. UsesFd(t, pcA, pcA', traverse_indexA, traverse_indexA', file_fdA, file_fdA',
               fdtab, fdtab')
    BY <2>1, <2>2, ResetA
  <2> QED BY <2>1, <2>2, <2>3 DEF StepOfA, UsesMutex
<1> QED BY <1>1, <1>2, <1>3, <1>4, <1>5, <1>6, <1>7, <1>8, <1>9, <1>10, <1>11
        DEF A!Step

(* What the variables of LUN B are, as far as sharing goes. *)
TypedB ==
  /\ DOMAIN pcB = ThreadsB /\ DOMAIN file_fdB = ThreadsB
  /\ traverse_indexB \in [ThreadsB -> Nat]

(* A step of thread t of LUN B, as the lemmas above see it. *)
StepOfB(t) ==
  /\ Frame(ThreadsB, t, pcB, pcB', traverse_indexB, traverse_indexB',
           file_fdB, file_fdB')
  /\ UsesFd(t, pcB, pcB', traverse_indexB, traverse_indexB', file_fdB, file_fdB',
            fdtab, fdtab')
  /\ UsesMutex(t, pcB, pcB', traverse_indexB, traverse_indexB',
               fetch_locks, fetch_locks')

(* A step that uses neither the table nor the mutexes: on to another       *)
(* label, ...                                                              *)
LEMMA QuietGotoB ==
  ASSUME TypedB, NEW t \in ThreadsB, NEW label, B!Goto(t, label),
         UNCHANGED <<fdtab, fetch_locks, traverse_indexB, file_fdB>>,
         pcB[t] \in Owning <=> label \in Owning,
         label # "reset" /\ pcB[t] # "reset",
         pcB[t] \in Fetching <=> label \in Fetching
  PROVE  TypedB' /\ StepOfB(t)
<1>1. /\ pcB'[t] = label /\ DOMAIN pcB' = ThreadsB
      /\ \A u \in ThreadsB : u # t => pcB'[u] = pcB[u]
  BY DEF TypedB, B!Goto
<1>2. TypedB'
  BY <1>1 DEF TypedB
<1>3. KeepsFd(t, pcB, pcB', traverse_indexB, traverse_indexB', file_fdB, file_fdB',
              fdtab, fdtab')
  BY <1>1 DEF KeepsFd, ObjectOf
<1>4. UsesMutex(t, pcB, pcB', traverse_indexB, traverse_indexB',
                fetch_locks, fetch_locks')
  BY <1>1 DEF UsesMutex
<1> QED BY <1>1, <1>2, <1>3, <1>4 DEF StepOfB, Frame, UsesFd

(* ... and what the end of a call does to the thread's variables. *)
LEMMA ReturnB ==
  ASSUME TypedB, NEW t \in ThreadsB, NEW result, B!Return(t, result)
  PROVE  /\ TypedB'
         /\ pcB'[t] = "idle" /\ file_fdB'[t] = 0 /\ traverse_indexB'[t] = 0
         /\ Frame(ThreadsB, t, pcB, pcB', traverse_indexB, traverse_indexB',
                  file_fdB, file_fdB')
  BY DEF TypedB, B!Return, B!Goto, Frame

(* The end of a call that has no object open and no mutex. *)
LEMMA QuietReturnB ==
  ASSUME TypedB, NEW t \in ThreadsB, NEW result, B!Return(t, result),
         UNCHANGED <<fdtab, fetch_locks>>,
         pcB[t] \notin Owning, pcB[t] \notin Fetching
  PROVE  TypedB' /\ StepOfB(t)
  BY ReturnB DEF StepOfB, UsesFd, KeepsFd, UsesMutex, Owning, Fetching

(* osd_reset_cache_object, as ClosesFd has it. *)
LEMMA ResetB ==
  ASSUME TypedB, NEW t \in ThreadsB, NEW ok \in BOOLEAN, B!ResetClose(t, ok),
         pcB'[t] \notin Owning, file_fdB'[t] \in {0, -1}
  PROVE  UsesFd(t, pcB, pcB', traverse_indexB, traverse_indexB', file_fdB, file_fdB',
                fdtab, fdtab')
  BY DEF B!ResetClose, B!RESERVED_FDS, UsesFd, ClosesFd

(* Every step of a thread of LUN B is one of those. *)
LEMMA StepsOfB ==
  ASSUME TypedB, NEW t \in ThreadsB, B!Submit(t) \/ B!Step(t)
  PROVE  TypedB' /\ StepOfB(t)
<1> USE DEF Owning, Fetching
<1>1. CASE B!Submit(t)
  <2>1. PICK r \in Requests : \/ B!ReadUnformatted(t, r) \/ B!Reject(t, r)
                              \/ B!AcceptEmpty(t, r) \/ B!Accept(t, r)
    BY <1>1 DEF B!Submit
  <2>2. CASE B!ReadUnformatted(t, r) \/ B!Reject(t, r) \/ B!AcceptEmpty(t, r)
    <3>1. /\ \E result : B!Return(t, result)
          /\ UNCHANGED <<fdtab, fetch_locks>> /\ pcB[t] = "idle"
      BY <2>2 DEF B!ReadUnformatted, B!Reject, B!AcceptEmpty, B!Arrive
    <3> QED BY <3>1, QuietReturnB
  <2>3. CASE B!Accept(t, r)
    <3>1. B!ObjectIndex(r.offset) \in Nat
      <4>1. r.offset \in Nat
        BY LunsAssumption
      <4>2. object_size \in Nat \ {0}
        BY StripingAssumption
      <4> QED BY <4>1, <4>2, QuotientNat DEF B!ObjectIndex
    <3>2. /\ pcB[t] = "idle" /\ pcB'[t] = "stat" /\ DOMAIN pcB' = ThreadsB
          /\ \A u \in ThreadsB : u # t =>
               pcB'[u] = pcB[u] /\ traverse_indexB'[u] = traverse_indexB[u]
          /\ traverse_indexB' \in [ThreadsB -> Nat]
          /\ UNCHANGED <<fdtab, fetch_locks, file_fdB>>
      BY <2>3, <3>1 DEF B!Accept, B!Arrive, B!Goto, TypedB
    <3> QED BY <3>2 DEF TypedB, StepOfB, Frame, UsesFd, KeepsFd, UsesMutex
  <2> QED BY <2>1, <2>2, <2>3
<1>2. CASE \/ B!StatFound(t) \/ B!StatMissing(t) \/ B!FetchStat(t)
           \/ B!FetchCreatFails(t) \/ B!FetchAlloc(t) \/ B!FetchAllocFails(t)
           \/ B!ObjIoFails(t)
  <2>1. PICK label : /\ B!Goto(t, label)
                     /\ UNCHANGED <<fdtab, fetch_locks, traverse_indexB, file_fdB>>
                     /\ \/ pcB[t] = "stat" /\ label \in {"open", "fetch_lock"}
                        \/ /\ pcB[t] \in {"fetch_stat", "fetch_creat", "fetch_alloc"}
                           /\ label \in {"fetch_unlock", "fetch_creat", "fetch_fail"}
                        \/ pcB[t] = "io" /\ label = "obj_reset"
    BY <1>2 DEF B!StatFound, B!StatMissing, B!FetchStat, B!FetchCreatFails, B!FetchAlloc,
                B!FetchAllocFails, B!ObjIoFails, B!locals
  <2> QED BY <2>1, QuietGotoB
<1>3. CASE B!StatUnplaced(t) \/ B!OpenObjectFails(t)
  BY <1>3, QuietReturnB DEF B!StatUnplaced, B!OpenObjectFails
<1>4. CASE B!FetchLock(t)
  <2>1. /\ pcB[t] = "fetch_lock" /\ pcB'[t] = "fetch_stat" /\ DOMAIN pcB' = ThreadsB
        /\ \A u \in ThreadsB : u # t => pcB'[u] = pcB[u]
        /\ UNCHANGED <<fdtab, traverse_indexB, file_fdB>>
        /\ fetch_locks[B!LockOf(t)] = NoThread
        /\ fetch_locks' = [fetch_locks EXCEPT ![B!LockOf(t)] = t]
    BY <1>4 DEF B!FetchLock, B!Goto, B!locals, TypedB
  <2>2. B!LockOf(t) = MutexOf(traverse_indexB[t])
    BY DEF B!LockOf, MutexOf
  <2> QED BY <2>1, <2>2 DEF TypedB, StepOfB, Frame, UsesFd, KeepsFd, UsesMutex
<1>5. CASE B!FetchUnlock(t) \/ B!FetchUnlockFail(t)
  <2>1. B!LockOf(t) = MutexOf(traverse_indexB[t])
    BY DEF B!LockOf, MutexOf
  <2>2. CASE B!FetchUnlock(t)
    <3>1. /\ pcB[t] = "fetch_unlock" /\ pcB'[t] = "open" /\ DOMAIN pcB' = ThreadsB
          /\ \A u \in ThreadsB : u # t => pcB'[u] = pcB[u]
          /\ UNCHANGED <<fdtab, traverse_indexB, file_fdB>>
          /\ fetch_locks' = [fetch_locks EXCEPT ![B!LockOf(t)] = NoThread]
      BY <2>2 DEF B!FetchUnlock, B!Goto, B!locals, TypedB
    <3> QED BY <2>1, <3>1 DEF TypedB, StepOfB, Frame, UsesFd, KeepsFd, UsesMutex
  <2>3. CASE B!FetchUnlockFail(t)
    <3>1. /\ pcB[t] = "fetch_fail" /\ B!Return(t, "OSD_ERROR") /\ UNCHANGED fdtab
          /\ fetch_locks' = [fetch_locks EXCEPT ![B!LockOf(t)] = NoThread]
      BY <2>3 DEF B!FetchUnlockFail
    <3> QED BY <2>1, <3>1, ReturnB DEF StepOfB, UsesFd, KeepsFd, UsesMutex
  <2> QED BY <1>5, <2>2, <2>3
<1>6. CASE B!FetchCreat(t)
  <2>1. /\ pcB[t] = "fetch_creat" /\ pcB'[t] = "fetch_alloc" /\ DOMAIN pcB' = ThreadsB
        /\ \A u \in ThreadsB : u # t => pcB'[u] = pcB[u]
        /\ UNCHANGED <<fetch_locks, traverse_indexB, file_fdB>>
    BY <1>6 DEF B!FetchCreat, B!Goto, B!locals, TypedB
  <2>2. B!OpenEntry(t, "creat") = Entry(t, Oid(traverse_indexB[t]), "creat")
    BY DEF B!OpenEntry, B!CurrentOid, B!Oid, Oid, Entry
  <2>3. OpensFd(t, pcB, pcB', traverse_indexB, traverse_indexB', file_fdB, file_fdB',
                fdtab, fdtab')
    BY <1>6, <2>1, <2>2 DEF B!FetchCreat, B!LowestFree, B!Fds, Fds, OpensFd
  <2> QED BY <2>1, <2>3 DEF TypedB, StepOfB, Frame, UsesFd, UsesMutex
<1>7. CASE B!OpenObject(t)
  <2>1. /\ pcB[t] = "open" /\ pcB'[t] = "io" /\ DOMAIN pcB' = ThreadsB
        /\ \A u \in ThreadsB : u # t => pcB'[u] = pcB[u]
        /\ UNCHANGED <<fetch_locks, traverse_indexB>>
    BY <1>7 DEF B!OpenObject, B!Goto, B!locals, TypedB
  <2>2. B!OpenEntry(t, "io") = Entry(t, Oid(traverse_indexB[t]), "io")
    BY DEF B!OpenEntry, B!CurrentOid, B!Oid, Oid, Entry
  <2>3. PICK fd \in Fds :
          /\ fdtab[fd] = {}
          /\ fdtab' = [fdtab EXCEPT ![fd] = {Entry(t, Oid(traverse_indexB[t]), "io")}]
          /\ file_fdB' = [file_fdB EXCEPT ![t] = fd]
    BY <1>7, <2>2 DEF B!OpenObject, B!LowestFree, B!Fds, Fds
  <2>4. /\ file_fdB'[t] = fd /\ DOMAIN file_fdB' = ThreadsB
        /\ \A u \in ThreadsB : u # t => file_fdB'[u] = file_fdB[u]
    BY <2>3 DEF TypedB
  <2>5. OpensFd(t, pcB, pcB', traverse_indexB, traverse_indexB', file_fdB, file_fdB',
                fdtab, fdtab')
    BY <2>1, <2>3, <2>4 DEF OpensFd
  <2> QED BY <2>1, <2>4, <2>5 DEF TypedB, StepOfB, Frame, UsesFd, UsesMutex
<1>8. CASE \E n \in 1 .. object_size : B!ObjRead(t, n) \/ B!ObjWrite(t, n)
  <2>1. /\ pcB[t] = "io" /\ UNCHANGED <<fdtab, fetch_locks, file_fdB>>
        /\ DOMAIN pcB' = ThreadsB
        /\ \A u \in ThreadsB : u # t =>
             pcB'[u] = pcB[u] /\ traverse_indexB'[u] = traverse_indexB[u]
        /\ traverse_indexB' \in [ThreadsB -> Nat]
        /\ \/ pcB'[t] = "io" /\ traverse_indexB'[t] = traverse_indexB[t]
           \/ pcB'[t] = "reset" /\ traverse_indexB'[t] = traverse_indexB[t] + 1
    BY <1>8 DEF B!ObjRead, B!ObjWrite, B!Advance, B!Goto, TypedB
  <2>2. ObjectOf(pcB'[t], traverse_indexB'[t]) = ObjectOf(pcB[t], traverse_indexB[t])
    <3>1. CASE pcB'[t] = "io" /\ traverse_indexB'[t] = traverse_indexB[t]
      BY <2>1, <3>1 DEF ObjectOf
    <3>2. CASE pcB'[t] = "reset" /\ traverse_indexB'[t] = traverse_indexB[t] + 1
      <4>1. traverse_indexB'[t] - 1 = traverse_indexB[t]
        BY <3>2 DEF TypedB
      <4> QED BY <2>1, <3>2, <4>1 DEF ObjectOf
    <3> QED BY <2>1, <3>1, <3>2
  <2> QED BY <2>1, <2>2 DEF TypedB, StepOfB, Frame, UsesFd, KeepsFd, UsesMutex
<1>9. CASE B!ObjReadEof(t)
  BY <1>9 DEF B!ObjReadEof, B!vars, TypedB, StepOfB, Frame, UsesFd, KeepsFd, UsesMutex
<1>10. CASE B!ObjReset(t) \/ B!NextObject(t)
  <2>1. /\ pcB[t] \in {"obj_reset", "reset"} /\ pcB'[t] \in {"op_reset", "stat"}
        /\ DOMAIN pcB' = ThreadsB /\ DOMAIN file_fdB' = ThreadsB
        /\ \A u \in ThreadsB : u # t => pcB'[u] = pcB[u] /\ file_fdB'[u] = file_fdB[u]
        /\ file_fdB'[t] \in {0, -1}
        /\ UNCHANGED <<fetch_locks, traverse_indexB>>
        /\ \E ok \in BOOLEAN : B!ResetClose(t, ok)
    BY <1>10 DEF B!ObjReset, B!NextObject, B!ResetFd, B!Goto, B!locals, TypedB
  <2>2. UsesFd(t, pcB, pcB', traverse_indexB, traverse_indexB', file_fdB, file_fdB',
               fdtab, fdtab')
    BY <2>1, ResetB
  <2> QED BY <2>1, <2>2 DEF TypedB, StepOfB, Frame, UsesMutex
<1>11. CASE B!OpReset(t) \/ B!Complete(t) \/ B!ResetFails(t)
  <2>1. /\ pcB[t] \in {"op_reset", "reset"} /\ UNCHANGED fetch_locks
        /\ \E result : B!Return(t, result)
        /\ \E ok \in BOOLEAN : B!ResetClose(t, ok)
    BY <1>11 DEF B!OpReset, B!Complete, B!ResetFails
  <2>2. /\ TypedB' /\ pcB'[t] = "idle" /\ file_fdB'[t] = 0
        /\ Frame(ThreadsB, t, pcB, pcB', traverse_indexB, traverse_indexB',
                 file_fdB, file_fdB')
    BY <2>1, ReturnB
  <2>3. UsesFd(t, pcB, pcB', traverse_indexB, traverse_indexB', file_fdB, file_fdB',
               fdtab, fdtab')
    BY <2>1, <2>2, ResetB
  <2> QED BY <2>1, <2>2, <2>3 DEF StepOfB, UsesMutex
<1> QED BY <1>1, <1>2, <1>3, <1>4, <1>5, <1>6, <1>7, <1>8, <1>9, <1>10, <1>11
        DEF B!Step

-----------------------------------------------------------------------------
(* The two LUNs together.                                                  *)

(* The inductive invariant: types, the descriptors and the mutexes that    *)
(* each LUN holds.                                                         *)
SharingInv ==
  /\ TableType(fdtab) /\ MutexType(fetch_locks)
  /\ TypedA /\ TypedB
  /\ Held(ThreadsA, pcA, traverse_indexA, file_fdA, fdtab)
  /\ Held(ThreadsB, pcB, traverse_indexB, file_fdB, fdtab)
  /\ Locked(ThreadsA, pcA, traverse_indexA, fetch_locks)
  /\ Locked(ThreadsB, pcB, traverse_indexB, fetch_locks)

(* No LUN holds anything at the start ... *)
LEMMA SharingInit ==
  ASSUME Init
  PROVE  SharingInv
<1>1. /\ fdtab = [fd \in Fds |-> {}] /\ fetch_locks = [m \in Mutexes |-> NoThread]
      /\ pcA = [t \in ThreadsA |-> "idle"] /\ pcB = [t \in ThreadsB |-> "idle"]
      /\ traverse_indexA = [t \in ThreadsA |-> 0]
      /\ traverse_indexB = [t \in ThreadsB |-> 0]
      /\ file_fdA = [t \in ThreadsA |-> 0] /\ file_fdB = [t \in ThreadsB |-> 0]
  BY DEF Init, A!Init, B!Init, A!Fds, Fds, A!Locks, Mutexes
<1>2. TableType(fdtab) /\ MutexType(fetch_locks) /\ TypedA /\ TypedB
  BY <1>1 DEF TableType, MutexType, TypedA, TypedB
<1>3. /\ Held(ThreadsA, pcA, traverse_indexA, file_fdA, fdtab)
      /\ Held(ThreadsB, pcB, traverse_indexB, file_fdB, fdtab)
  BY <1>1 DEF Held, Owning
<1>4. NoThread \notin ThreadsA /\ NoThread \notin ThreadsB
  BY LunsAssumption
<1>5. /\ Locked(ThreadsA, pcA, traverse_indexA, fetch_locks)
      /\ Locked(ThreadsB, pcB, traverse_indexB, fetch_locks)
  BY <1>1, <1>4 DEF Locked, Fetching
<1> QED BY <1>2, <1>3, <1>5 DEF SharingInv

(* ... nor after a restart. *)
LEMMA SharingCrash ==
  ASSUME Crash
  PROVE  SharingInv'
<1>1. /\ fdtab' = [fd \in Fds |-> {}] /\ fetch_locks' = [m \in Mutexes |-> NoThread]
      /\ pcA' = [t \in ThreadsA |-> "idle"] /\ pcB' = [t \in ThreadsB |-> "idle"]
      /\ traverse_indexA' = [t \in ThreadsA |-> 0]
      /\ traverse_indexB' = [t \in ThreadsB |-> 0]
      /\ file_fdA' = [t \in ThreadsA |-> 0] /\ file_fdB' = [t \in ThreadsB |-> 0]
  BY DEF Crash, A!Crash, B!Crash, A!Fds, Fds, A!Locks, Mutexes
<1>2. TableType(fdtab') /\ MutexType(fetch_locks') /\ TypedA' /\ TypedB'
  BY <1>1 DEF TableType, MutexType, TypedA, TypedB
<1>3. /\ Held(ThreadsA, pcA', traverse_indexA', file_fdA', fdtab')
      /\ Held(ThreadsB, pcB', traverse_indexB', file_fdB', fdtab')
  BY <1>1 DEF Held, Owning
<1>4. NoThread \notin ThreadsA /\ NoThread \notin ThreadsB
  BY LunsAssumption
<1>5. /\ Locked(ThreadsA, pcA', traverse_indexA', fetch_locks')
      /\ Locked(ThreadsB, pcB', traverse_indexB', fetch_locks')
  BY <1>1, <1>4 DEF Locked, Fetching
<1> QED BY <1>2, <1>3, <1>5 DEF SharingInv

(* A step of LUN A keeps what both hold and changes only what is its own.  *)
LEMMA SharingA ==
  ASSUME SharingInv, NEW t \in ThreadsA, A!Submit(t) \/ A!Step(t), UNCHANGED lunB
  PROVE  /\ SharingInv'
         /\ ChangesOnly(ThreadsA, fdtab, fdtab')
         /\ LocksOnly(ThreadsA, fetch_locks, fetch_locks')
<1>1. TypedA' /\ StepOfA(t)
  BY StepsOfA DEF SharingInv
<1>2. UNCHANGED <<pcB, traverse_indexB, file_fdB>>
  BY DEF lunB
<1>3. /\ ThreadsA \subseteq AllThreads /\ ThreadsB \subseteq AllThreads
      /\ ThreadsB \cap ThreadsA = {}
  BY LunsAssumption DEF AllThreads
<1>4. /\ traverse_indexA \in [ThreadsA -> Nat] /\ traverse_indexA[t] \in Nat
      /\ traverse_indexB \in [ThreadsB -> Nat]
  BY DEF SharingInv, TypedA, TypedB
<1>5. /\ Held(ThreadsA, pcA', traverse_indexA', file_fdA', fdtab')
      /\ TableType(fdtab') /\ ChangesOnly(ThreadsA, fdtab, fdtab')
  BY <1>1, <1>3, <1>4, HeldStep DEF SharingInv, StepOfA
<1>6. /\ Locked(ThreadsA, pcA', traverse_indexA', fetch_locks')
      /\ MutexType(fetch_locks') /\ LocksOnly(ThreadsA, fetch_locks, fetch_locks')
  BY <1>1, <1>3, <1>4, LockedStep DEF SharingInv, StepOfA
<1>7. /\ Held(ThreadsB, pcB, traverse_indexB, file_fdB, fdtab')
      /\ Locked(ThreadsB, pcB, traverse_indexB, fetch_locks')
  BY <1>3, <1>4, <1>5, <1>6, HeldOther, LockedOther DEF SharingInv
<1>8. TypedB'
  BY <1>2 DEF SharingInv, TypedB
<1> QED BY <1>1, <1>2, <1>5, <1>6, <1>7, <1>8 DEF SharingInv

(* So does a step of LUN B. *)
LEMMA SharingB ==
  ASSUME SharingInv, NEW t \in ThreadsB, B!Submit(t) \/ B!Step(t), UNCHANGED lunA
  PROVE  /\ SharingInv'
         /\ ChangesOnly(ThreadsB, fdtab, fdtab')
         /\ LocksOnly(ThreadsB, fetch_locks, fetch_locks')
<1>1. TypedB' /\ StepOfB(t)
  BY StepsOfB DEF SharingInv
<1>2. UNCHANGED <<pcA, traverse_indexA, file_fdA>>
  BY DEF lunA
<1>3. /\ ThreadsA \subseteq AllThreads /\ ThreadsB \subseteq AllThreads
      /\ ThreadsA \cap ThreadsB = {}
  BY LunsAssumption DEF AllThreads
<1>4. /\ traverse_indexB \in [ThreadsB -> Nat] /\ traverse_indexB[t] \in Nat
      /\ traverse_indexA \in [ThreadsA -> Nat]
  BY DEF SharingInv, TypedA, TypedB
<1>5. /\ Held(ThreadsB, pcB', traverse_indexB', file_fdB', fdtab')
      /\ TableType(fdtab') /\ ChangesOnly(ThreadsB, fdtab, fdtab')
  BY <1>1, <1>3, <1>4, HeldStep DEF SharingInv, StepOfB
<1>6. /\ Locked(ThreadsB, pcB', traverse_indexB', fetch_locks')
      /\ MutexType(fetch_locks') /\ LocksOnly(ThreadsB, fetch_locks, fetch_locks')
  BY <1>1, <1>3, <1>4, LockedStep DEF SharingInv, StepOfB
<1>7. /\ Held(ThreadsA, pcA, traverse_indexA, file_fdA, fdtab')
      /\ Locked(ThreadsA, pcA, traverse_indexA, fetch_locks')
  BY <1>3, <1>4, <1>5, <1>6, HeldOther, LockedOther DEF SharingInv
<1>8. TypedA'
  BY <1>2 DEF SharingInv, TypedA
<1> QED BY <1>1, <1>2, <1>5, <1>6, <1>7, <1>8 DEF SharingInv

(* What a step of the process is: of a thread of one LUN, or a restart. *)
LEMMA ProcessSteps ==
  ASSUME [Next]_vars
  PROVE  \/ \E t \in ThreadsA : (A!Submit(t) \/ A!Step(t)) /\ UNCHANGED lunB
         \/ \E t \in ThreadsB : (B!Submit(t) \/ B!Step(t)) /\ UNCHANGED lunA
         \/ Crash
         \/ UNCHANGED vars
  BY DEF Next, Submit, StepA, StepB

(* SharingInv is inductive. *)
LEMMA SharingStep ==
  ASSUME SharingInv, [Next]_vars
  PROVE  SharingInv'
<1>1. CASE UNCHANGED vars
  BY <1>1 DEF vars, process, lunA, lunB, SharingInv, TypedA, TypedB
<1> QED BY <1>1, ProcessSteps, SharingA, SharingB, SharingCrash

(* Held and Locked are what OwnDescriptors says, and more. *)
LEMMA SharingOwn ==
  ASSUME SharingInv
  PROVE  OwnDescriptors
<1>1. ASSUME NEW fd \in FirstFd .. LastFd, NEW e \in fdtab[fd],
             e.use = "io", fd > A!RESERVED_FDS
      PROVE  Holder(e, fd)
  <2>1. fd \in Fds /\ fd > 3 /\ e \in fdtab[fd]
    BY <1>1 DEF Fds, A!RESERVED_FDS
  <2>2. e.thread \in ThreadsA \cup ThreadsB
    BY <2>1 DEF SharingInv, TableType, Entries, AllThreads
  <2>3. CASE e.thread \in ThreadsA
    <3> DEFINE u == e.thread
    <3>1. pcA[u] \in Owning /\ file_fdA[u] = fd
      BY <1>1, <2>1, <2>3 DEF SharingInv, Held
    <3>2. fdtab[fd] = {Entry(u, ObjectOf(pcA[u], traverse_indexA[u]), "io")}
      BY <2>3, <3>1 DEF SharingInv, Held
    <3>3. e.oid = ObjectOf(pcA[u], traverse_indexA[u])
      BY <2>1, <3>2 DEF Entry
    <3>4. A!OpenOid(u) = ObjectOf(pcA[u], traverse_indexA[u])
      BY DEF A!OpenOid, A!CurrentOid, A!Oid, ObjectOf, Oid
    <3> QED BY <2>3, <3>1, <3>3, <3>4 DEF Holder, A!OwnsFd, Owning
  <2>4. CASE e.thread \in ThreadsB /\ e.thread \notin ThreadsA
    <3> DEFINE u == e.thread
    <3>1. pcB[u] \in Owning /\ file_fdB[u] = fd
      BY <1>1, <2>1, <2>4 DEF SharingInv, Held
    <3>2. fdtab[fd] = {Entry(u, ObjectOf(pcB[u], traverse_indexB[u]), "io")}
      BY <2>4, <3>1 DEF SharingInv, Held
    <3>3. e.oid = ObjectOf(pcB[u], traverse_indexB[u])
      BY <2>1, <3>2 DEF Entry
    <3>4. B!OpenOid(u) = ObjectOf(pcB[u], traverse_indexB[u])
      BY DEF B!OpenOid, B!CurrentOid, B!Oid, ObjectOf, Oid
    <3> QED BY <2>4, <3>1, <3>3, <3>4 DEF Holder, B!OwnsFd, Owning
  <2> QED BY <2>2, <2>3, <2>4
<1>2. ASSUME NEW t \in ThreadsA, A!OwnsFd(t)
      PROVE  \E e \in fdtab[file_fdA[t]] : e.thread = t
  <2>1. fdtab[file_fdA[t]] = {Entry(t, ObjectOf(pcA[t], traverse_indexA[t]), "io")}
    BY <1>2 DEF SharingInv, Held, A!OwnsFd, Owning
  <2> QED BY <2>1 DEF Entry
<1>3. ASSUME NEW t \in ThreadsB, B!OwnsFd(t)
      PROVE  \E e \in fdtab[file_fdB[t]] : e.thread = t
  <2>1. fdtab[file_fdB[t]] = {Entry(t, ObjectOf(pcB[t], traverse_indexB[t]), "io")}
    BY <1>3 DEF SharingInv, Held, B!OwnsFd, Owning
  <2> QED BY <2>1 DEF Entry
<1> QED BY <1>1, <1>2, <1>3 DEF OwnDescriptors

(* However the threads of two LUNs interleave and whichever calls fail, a  *)
(* thread transfers and closes through a descriptor it opened itself, on   *)
(* its own LUN's object, and every descriptor of a transfer has such a     *)
(* holder.                                                                 *)
THEOREM OwnDescriptorsAlways == Spec => []OwnDescriptors
<1>1. Init => SharingInv
  BY SharingInit
<1>2. SharingInv /\ [Next]_vars => SharingInv'
  BY SharingStep
<1>3. SharingInv => OwnDescriptors
  BY SharingOwn
<1> QED BY <1>1, <1>2, <1>3, PTL DEF Spec

(* To LUN A a step of the process is a step of its own, or one by which    *)
(* LUN B uses what A does not hold.                                        *)
LEMMA SeenByA ==
  ASSUME SharingInv, [Next]_vars
  PROVE  [A!SharedNext]_(A!vars)
<1>1. CASE \E t \in ThreadsA : (A!Submit(t) \/ A!Step(t)) /\ UNCHANGED lunB
  BY <1>1 DEF A!SharedNext, A!Next
<1>2. CASE \E t \in ThreadsB : (B!Submit(t) \/ B!Step(t)) /\ UNCHANGED lunA
  <2>1. /\ SharingInv' /\ UNCHANGED lunA
        /\ ChangesOnly(ThreadsB, fdtab, fdtab')
        /\ LocksOnly(ThreadsB, fetch_locks, fetch_locks')
    BY <1>2, SharingB
  <2>2. /\ fdtab' \in [A!Fds -> SUBSET A!Entries]
        /\ fetch_locks' \in [A!Locks -> ThreadsA \cup ThreadsB \cup {NoThread}]
    BY <2>1 DEF SharingInv, TableType, MutexType, Entries, A!Entries, A!Fds, Fds,
                A!Locks, Mutexes, AllThreads, A!Oids, Oids
  <2>3. A!OtherLuns
    BY <2>1, <2>2 DEF A!OtherLuns, ChangesOnly, LocksOnly, A!Fds, Fds, A!Locks, Mutexes,
                      lunA, A!files, A!locals
  <2> QED BY <2>3 DEF A!SharedNext
<1>3. CASE Crash
  BY <1>3 DEF Crash, A!SharedNext, A!Next
<1>4. CASE UNCHANGED vars
  BY <1>4 DEF vars, process, lunA, A!vars
<1> QED BY <1>1, <1>2, <1>3, <1>4, ProcessSteps

(* The same for LUN B. *)
LEMMA SeenByB ==
  ASSUME SharingInv, [Next]_vars
  PROVE  [B!SharedNext]_(B!vars)
<1>1. CASE \E t \in ThreadsB : (B!Submit(t) \/ B!Step(t)) /\ UNCHANGED lunA
  BY <1>1 DEF B!SharedNext, B!Next
<1>2. CASE \E t \in ThreadsA : (A!Submit(t) \/ A!Step(t)) /\ UNCHANGED lunB
  <2>1. /\ SharingInv' /\ UNCHANGED lunB
        /\ ChangesOnly(ThreadsA, fdtab, fdtab')
        /\ LocksOnly(ThreadsA, fetch_locks, fetch_locks')
    BY <1>2, SharingA
  <2>2. /\ fdtab' \in [B!Fds -> SUBSET B!Entries]
        /\ fetch_locks' \in [B!Locks -> ThreadsB \cup ThreadsA \cup {NoThread}]
    BY <2>1 DEF SharingInv, TableType, MutexType, Entries, B!Entries, B!Fds, Fds,
                B!Locks, Mutexes, AllThreads, B!Oids, Oids
  <2>3. B!OtherLuns
    BY <2>1, <2>2 DEF B!OtherLuns, ChangesOnly, LocksOnly, B!Fds, Fds, B!Locks, Mutexes,
                      lunB, B!files, B!locals
  <2> QED BY <2>3 DEF B!SharedNext
<1>3. CASE Crash
  BY <1>3 DEF Crash, B!SharedNext, B!Next
<1>4. CASE UNCHANGED vars
  BY <1>4 DEF vars, process, lunB, B!vars
<1> QED BY <1>1, <1>2, <1>3, <1>4, ProcessSteps

(* Each LUN runs as the theorems about a LUN beside others have it (Shared *)
(* in their names): the other one never closes a descriptor nor unlocks a  *)
(* fetch mutex that is not its own.                                        *)
THEOREM LunsShareProcessAlways == Spec => LunsShareProcess
<1>1. Init => SharingInv /\ A!Init /\ B!Init
  BY SharingInit DEF Init
<1>2. SharingInv /\ [Next]_vars => SharingInv'
  BY SharingStep
<1>3. SharingInv /\ [Next]_vars => [A!SharedNext]_(A!vars) /\ [B!SharedNext]_(B!vars)
  BY SeenByA, SeenByB
<1> QED BY <1>1, <1>2, <1>3, PTL DEF Spec, LunsShareProcess, A!SharedSpec, B!SharedSpec

-----------------------------------------------------------------------------
(* What is proved of a LUN beside others holds of both: the theorems of    *)
(* ObjectStoreProofs, with the constants and variables of a LUN.           *)
AsA == INSTANCE ObjectStoreProofs WITH
  Threads <- ThreadsA, OtherThreads <- ThreadsB,
  present <- presentA, size <- sizeA, data <- dataA, is_fs_done <- is_fs_doneA,
  pc <- pcA, req <- reqA, buf <- bufA, ret <- retA, buf_done <- buf_doneA,
  traverse_index <- traverse_indexA, osd_offset <- osd_offsetA,
  moved <- movedA, file_fd <- file_fdA

AsB == INSTANCE ObjectStoreProofs WITH
  Threads <- ThreadsB, OtherThreads <- ThreadsA,
  present <- presentB, size <- sizeB, data <- dataB, is_fs_done <- is_fs_doneB,
  pc <- pcB, req <- reqB, buf <- bufB, ret <- retB, buf_done <- buf_doneB,
  traverse_index <- traverse_indexB, osd_offset <- osd_offsetB,
  moved <- movedB, file_fd <- file_fdB

(* The definitions of a LUN are the same in both instances, so both expand  *)
(* to one formula.                                                         *)
LEMMA SameLunA ==
  /\ A!SharedSpec => AsA!SharedSpec
  /\ AsA!ImplementsBlockDevice => A!ImplementsBlockDevice
<1>1. A!Init <=> AsA!Init
  BY DEF A!Init, AsA!Init, A!Oids, AsA!Oids, A!Fds, AsA!Fds, A!Locks, AsA!Locks,
         A!LocalOffsets, AsA!LocalOffsets, A!NoRequest, AsA!NoRequest
<1>2. [A!SharedNext]_(A!vars) <=> [AsA!SharedNext]_(AsA!vars)
  BY DEF A!Oids, AsA!Oids, A!Oid, AsA!Oid, A!Fds, AsA!Fds, A!Locks, AsA!Locks, A!Indexes,
         AsA!Indexes, A!Capacity, AsA!Capacity, A!OffsetInRange, AsA!OffsetInRange,
         A!ObjectIndex, AsA!ObjectIndex, A!LocalOffset, AsA!LocalOffset, A!LocalOffsets,
         AsA!LocalOffsets, A!SpanAccepted, AsA!SpanAccepted, A!ChunkLen, AsA!ChunkLen,
         A!DpNodeFound, AsA!DpNodeFound, A!RESERVED_FDS, AsA!RESERVED_FDS, A!Entries,
         AsA!Entries, A!NoRequest, AsA!NoRequest, A!files, AsA!files, A!locals, AsA!locals,
         A!CurrentOid, AsA!CurrentOid, A!LockOf, AsA!LockOf, A!LocalBufLen, AsA!LocalBufLen,
         A!FileOffset, AsA!FileOffset, A!LowestFree, AsA!LowestFree, A!NoFreeFd,
         AsA!NoFreeFd, A!OpenEntry, AsA!OpenEntry, A!Goto, AsA!Goto, A!Return, AsA!Return,
         A!Buffers, AsA!Buffers, A!Arrive, AsA!Arrive, A!MarkFormatted, AsA!MarkFormatted,
         A!ReadUnformatted, AsA!ReadUnformatted, A!Reject, AsA!Reject, A!AcceptEmpty,
         AsA!AcceptEmpty, A!Accept, AsA!Accept, A!Submit, AsA!Submit, A!StatFound,
         AsA!StatFound, A!StatMissing, AsA!StatMissing, A!StatUnplaced, AsA!StatUnplaced,
         A!FetchLock, AsA!FetchLock, A!FetchStat, AsA!FetchStat, A!FetchCreat,
         AsA!FetchCreat, A!FetchCreatFails, AsA!FetchCreatFails, A!FetchAlloc,
         AsA!FetchAlloc, A!FetchAllocFails, AsA!FetchAllocFails, A!FetchUnlock,
         AsA!FetchUnlock, A!FetchUnlockFail, AsA!FetchUnlockFail, A!OpenObject,
         AsA!OpenObject, A!OpenObjectFails, AsA!OpenObjectFails, A!Left, AsA!Left,
         A!Advance, AsA!Advance, A!ObjRead, AsA!ObjRead, A!ObjReadEof, AsA!ObjReadEof,
         A!ObjWrite, AsA!ObjWrite, A!ObjIoFails, AsA!ObjIoFails, A!ResetClose,
         AsA!ResetClose, A!ResetFd, AsA!ResetFd, A!ObjReset, AsA!ObjReset, A!OpReset,
         AsA!OpReset, A!NextObject, AsA!NextObject, A!Complete, AsA!Complete, A!ResetFails,
         AsA!ResetFails, A!Crash, AsA!Crash, A!Step, AsA!Step, A!Next, AsA!Next,
         A!OtherLuns, AsA!OtherLuns, A!SharedNext, AsA!SharedNext, A!vars, AsA!vars
<1>3. A!Device!Init <=> AsA!Device!Init
  BY DEF A!Device!Init, AsA!Device!Init, A!Device!NoRequest, AsA!Device!NoRequest,
         A!Capacity, AsA!Capacity, A!Addresses, AsA!Addresses, A!ObjectIndex,
         AsA!ObjectIndex, A!LocalOffset, AsA!LocalOffset, A!Oid, AsA!Oid
<1>4. [A!Device!Next]_(A!Device!vars) <=> [AsA!Device!Next]_(AsA!Device!vars)
  BY DEF A!Device!Next, AsA!Device!Next, A!Device!Restart, AsA!Device!Restart,
         A!Device!NoRequest, AsA!Device!NoRequest, A!Device!Finish, AsA!Device!Finish,
         A!Device!Transfer, AsA!Device!Transfer, A!Device!Submit, AsA!Device!Submit,
         A!Device!Accept, AsA!Device!Accept, A!Device!Buffers, AsA!Device!Buffers,
         A!Device!vars, AsA!Device!vars, A!Capacity, AsA!Capacity, A!Addresses,
         AsA!Addresses, A!ObjectIndex, AsA!ObjectIndex, A!LocalOffset, AsA!LocalOffset,
         A!Oid, AsA!Oid
<1> QED BY <1>1, <1>2, <1>3, <1>4, PTL
        DEF A!SharedSpec, AsA!SharedSpec, A!ImplementsBlockDevice,
            AsA!ImplementsBlockDevice, A!Device!Spec, AsA!Device!Spec

(* LUN A is a flat device, by the refinement proved for a LUN beside       *)
(* others, whose assumptions LunsAssumption has for both.                  *)
LEMMA LunAImplementsDevice == A!SharedSpec => A!ImplementsBlockDevice
<1>1. /\ NoThread \notin ThreadsA \cup ThreadsB
      /\ ThreadsA \cap ThreadsB = {}
      /\ \A r \in Requests :
           /\ r \in [op : {"read", "write"}, offset : Nat, buf_len : Nat]
           /\ \A t \in ThreadsA : \A b \in WriteBuffers(t, r) :
                DOMAIN b = 0 .. r.buf_len - 1
      /\ IsFsFlag \in BOOLEAN
      /\ MAX_GET_OBJECT_LOCK \in Nat \ {0}
      /\ FirstFd \in Nat /\ LastFd \in Nat
      /\ Faults \subseteq AsA!FaultKinds
  BY LunsAssumption, Zenon DEF AsA!FaultKinds
<1>2. AsA!SharedSpec => AsA!ImplementsBlockDevice
  BY <1>1, StripingAssumption, AsA!SharedStoreImplementsBlockDevice, PTL
<1> QED BY <1>2, SameLunA, PTL

(* The same for LUN B. *)
LEMMA SameLunB ==
  /\ B!SharedSpec => AsB!SharedSpec
  /\ AsB!ImplementsBlockDevice => B!ImplementsBlockDevice
<1>1. B!Init <=> AsB!Init
  BY DEF B!Init, AsB!Init, B!Oids, AsB!Oids, B!Fds, AsB!Fds, B!Locks, AsB!Locks,
         B!LocalOffsets, AsB!LocalOffsets, B!NoRequest, AsB!NoRequest
<1>2. [B!SharedNext]_(B!vars) <=> [AsB!SharedNext]_(AsB!vars)
  BY DEF B!Oids, AsB!Oids, B!Oid, AsB!Oid, B!Fds, AsB!Fds, B!Locks, AsB!Locks, B!Indexes,
         AsB!Indexes, B!Capacity, AsB!Capacity, B!OffsetInRange, AsB!OffsetInRange,
         B!ObjectIndex, AsB!ObjectIndex, B!LocalOffset, AsB!LocalOffset, B!LocalOffsets,
         AsB!LocalOffsets, B!SpanAccepted, AsB!SpanAccepted, B!ChunkLen, AsB!ChunkLen,
         B!DpNodeFound, AsB!DpNodeFound, B!RESERVED_FDS, AsB!RESERVED_FDS, B!Entries,
         AsB!Entries, B!NoRequest, AsB!NoRequest, B!files, AsB!files, B!locals, AsB!locals,
         B!CurrentOid, AsB!CurrentOid, B!LockOf, AsB!LockOf, B!LocalBufLen, AsB!LocalBufLen,
         B!FileOffset, AsB!FileOffset, B!LowestFree, AsB!LowestFree, B!NoFreeFd,
         AsB!NoFreeFd, B!OpenEntry, AsB!OpenEntry, B!Goto, AsB!Goto, B!Return, AsB!Return,
         B!Buffers, AsB!Buffers, B!Arrive, AsB!Arrive, B!MarkFormatted, AsB!MarkFormatted,
         B!ReadUnformatted, AsB!ReadUnformatted, B!Reject, AsB!Reject, B!AcceptEmpty,
         AsB!AcceptEmpty, B!Accept, AsB!Accept, B!Submit, AsB!Submit, B!StatFound,
         AsB!StatFound, B!StatMissing, AsB!StatMissing, B!StatUnplaced, AsB!StatUnplaced,
         B!FetchLock, AsB!FetchLock, B!FetchStat, AsB!FetchStat, B!FetchCreat,
         AsB!FetchCreat, B!FetchCreatFails, AsB!FetchCreatFails, B!FetchAlloc,
         AsB!FetchAlloc, B!FetchAllocFails, AsB!FetchAllocFails, B!FetchUnlock,
         AsB!FetchUnlock, B!FetchUnlockFail, AsB!FetchUnlockFail, B!OpenObject,
         AsB!OpenObject, B!OpenObjectFails, AsB!OpenObjectFails, B!Left, AsB!Left,
         B!Advance, AsB!Advance, B!ObjRead, AsB!ObjRead, B!ObjReadEof, AsB!ObjReadEof,
         B!ObjWrite, AsB!ObjWrite, B!ObjIoFails, AsB!ObjIoFails, B!ResetClose,
         AsB!ResetClose, B!ResetFd, AsB!ResetFd, B!ObjReset, AsB!ObjReset, B!OpReset,
         AsB!OpReset, B!NextObject, AsB!NextObject, B!Complete, AsB!Complete, B!ResetFails,
         AsB!ResetFails, B!Crash, AsB!Crash, B!Step, AsB!Step, B!Next, AsB!Next,
         B!OtherLuns, AsB!OtherLuns, B!SharedNext, AsB!SharedNext, B!vars, AsB!vars
<1>3. B!Device!Init <=> AsB!Device!Init
  BY DEF B!Device!Init, AsB!Device!Init, B!Device!NoRequest, AsB!Device!NoRequest,
         B!Capacity, AsB!Capacity, B!Addresses, AsB!Addresses, B!ObjectIndex,
         AsB!ObjectIndex, B!LocalOffset, AsB!LocalOffset, B!Oid, AsB!Oid
<1>4. [B!Device!Next]_(B!Device!vars) <=> [AsB!Device!Next]_(AsB!Device!vars)
  BY DEF B!Device!Next, AsB!Device!Next, B!Device!Restart, AsB!Device!Restart,
         B!Device!NoRequest, AsB!Device!NoRequest, B!Device!Finish, AsB!Device!Finish,
         B!Device!Transfer, AsB!Device!Transfer, B!Device!Submit, AsB!Device!Submit,
         B!Device!Accept, AsB!Device!Accept, B!Device!Buffers, AsB!Device!Buffers,
         B!Device!vars, AsB!Device!vars, B!Capacity, AsB!Capacity, B!Addresses,
         AsB!Addresses, B!ObjectIndex, AsB!ObjectIndex, B!LocalOffset, AsB!LocalOffset,
         B!Oid, AsB!Oid
<1> QED BY <1>1, <1>2, <1>3, <1>4, PTL
        DEF B!SharedSpec, AsB!SharedSpec, B!ImplementsBlockDevice,
            AsB!ImplementsBlockDevice, B!Device!Spec, AsB!Device!Spec

(* LUN B is one, too. *)
LEMMA LunBImplementsDevice == B!SharedSpec => B!ImplementsBlockDevice
<1>1. /\ NoThread \notin ThreadsB \cup ThreadsA
      /\ ThreadsB \cap ThreadsA = {}
      /\ \A r \in Requests :
           /\ r \in [op : {"read", "write"}, offset : Nat, buf_len : Nat]
           /\ \A t \in ThreadsB : \A b \in WriteBuffers(t, r) :
                DOMAIN b = 0 .. r.buf_len - 1
      /\ IsFsFlag \in BOOLEAN
      /\ MAX_GET_OBJECT_LOCK \in Nat \ {0}
      /\ FirstFd \in Nat /\ LastFd \in Nat
      /\ Faults \subseteq AsB!FaultKinds
  BY LunsAssumption, Zenon DEF AsB!FaultKinds
<1>2. AsB!SharedSpec => AsB!ImplementsBlockDevice
  BY <1>1, StripingAssumption, AsB!SharedStoreImplementsBlockDevice, PTL
<1> QED BY <1>2, SameLunB, PTL

(***************************************************************************)
(* Two LUNs of one process are two flat devices, for any geometry, threads,*)
(* descriptors, mutexes and faults: what the other LUN does, and the       *)
(* descriptors and mutexes it takes, shows at most as an error.            *)
(***************************************************************************)
THEOREM LunsImplementDevicesAlways == Spec => LunsImplementDevices
  BY LunsShareProcessAlways, LunAImplementsDevice, LunBImplementsDevice, PTL
     DEF LunsShareProcess, LunsImplementDevices
=============================================================================

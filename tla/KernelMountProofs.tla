------------------------- MODULE KernelMountProofs -------------------------
(***************************************************************************)
(* For any sets of sessions, sandboxes and mounts: the count of a mount is *)
(* the number of its users (runtime/session.rs, runtime/sandbox.rs).       *)
(***************************************************************************)
EXTENDS SessionKernelProofs, FiniteSetTheorems

(* Both indexes of the attachments agree with what they index. *)
AttachmentsOK ==
  kernel.op # "gone" =>
    /\ sessionAttachments = filesystem
    /\ sandboxAttachments = sandboxMount
    /\ \A b \in Sandboxes : sandboxMount[b] # NoMount => Holds(b, sandboxMount[b])
    /\ \A m \in mounts : m < nextMount
    /\ nextMount > 0

(* The inductive invariant: the ledger on top of KernelInv. *)
MountInv == KernelInv /\ AttachmentsOK /\ MountsBalanced

----------------------------------------------------------------------------
(* The ledger: who uses a mount, and the counts. *)

Users(D, f, m) == {d \in D : f[d] = m}

One(p) == IF p THEN 1 ELSE 0

(* A mount has finitely many users, at least one when an index names it. *)
LEMMA UsersCount ==
  ASSUME NEW D, IsFiniteSet(D), NEW f, NEW m
  PROVE  /\ IsFiniteSet(Users(D, f, m)) /\ Cardinality(Users(D, f, m)) \in Nat
         /\ \A d \in D : f[d] = m => Cardinality(Users(D, f, m)) > 0
<1>1. IsFiniteSet(Users(D, f, m))
  BY FS_Subset, Zenon DEF Users
<1>2. Cardinality(Users(D, f, m)) \in Nat
  BY <1>1, FS_CardinalityType, Zenon
<1>3. ASSUME NEW d \in D, f[d] = m PROVE Cardinality(Users(D, f, m)) # 0
  <2>1. Users(D, f, m) # {}
    BY <1>3, Zenon DEF Users
  <2> QED BY <1>1, <2>1, FS_EmptySet, Zenon
<1> QED BY <1>1, <1>2, <1>3

(* One more or one less user, when an entry of an index changes. *)
LEMMA UsersUpdate ==
  ASSUME NEW D, IsFiniteSet(D), NEW f, f = [x \in D |-> f[x]], NEW d \in D, NEW v, NEW m
  PROVE  Cardinality(Users(D, [f EXCEPT ![d] = v], m))
           = Cardinality(Users(D, f, m)) - One(f[d] = m) + One(v = m)
<1> DEFINE U == Users(D, f, m)
           g == [f EXCEPT ![d] = v]
           V == Users(D, g, m)
<1>1. IsFiniteSet(U)
  BY UsersCount, Zenon
<1>2. Cardinality(U) \in Nat
  BY UsersCount, Zenon
<1>3. d \in U <=> f[d] = m
  BY Zenon DEF Users
<1>4. V = IF v = m THEN U \cup {d} ELSE U \ {d}
  BY Zenon DEF Users
<1> HIDE DEF U, V, g
<1>5. /\ IsFiniteSet(U \cup {d})
      /\ Cardinality(U \cup {d}) = IF d \in U THEN Cardinality(U) ELSE Cardinality(U) + 1
  BY <1>1, FS_AddElement, Zenon
<1>6. /\ IsFiniteSet(U \ {d})
      /\ Cardinality(U \ {d}) = IF d \in U THEN Cardinality(U) - 1 ELSE Cardinality(U)
  BY <1>1, FS_RemoveElement, Zenon
<1>7. Cardinality(V) = Cardinality(U) - One(f[d] = m) + One(v = m)
  <2>1. CASE v = m
    BY <1>2, <1>3, <1>4, <1>5, <2>1 DEF One
  <2>2. CASE v # m
    BY <1>2, <1>3, <1>4, <1>6, <2>2 DEF One
  <2> QED BY <2>1, <2>2, Zenon
<1> QED BY <1>7, Zenon DEF U, V, g

(* The counts of the mounts against the two indexes, as values. *)
Ledger(att, sess, fs, mts, nm, box) ==
  /\ \A m \in MountIds :
       /\ att[m] = Cardinality(Users(SessionNames, fs, m)) + Cardinality(Users(Sandboxes, box, m))
       /\ att[m] > 0 => m \in mts
  /\ \A s \in SessionNames : fs[s] # NoMount => s \in sess
  /\ \A m \in mts : m < nm
  /\ nm > 0

Indexes(att, fs, mts, nm, box) ==
  /\ att \in [MountIds -> Nat]
  /\ fs \in [SessionNames -> MountIds \cup {NoMount}]
  /\ box \in [Sandboxes -> MountIds \cup {NoMount}]
  /\ mts \subseteq MountIds /\ nm \in Nat

(* What saturating_sub does to the count of a mount that has a user. *)
Less(att, m) == [n \in MountIds |-> att[n] - One(n = m)]
More(att, m) == [n \in MountIds |-> att[n] + One(n = m)]

(* The count of a mount that a session or a sandbox uses is positive, and the
   mount is registered. *)
LEMMA UsedIsRegistered ==
  ASSUME NEW att, NEW sess, NEW fs, NEW mts, NEW nm, NEW box, Indexes(att, fs, mts, nm, box),
         Ledger(att, sess, fs, mts, nm, box)
  PROVE  /\ \A s \in SessionNames : fs[s] # NoMount => att[fs[s]] > 0 /\ fs[s] \in mts
         /\ \A b \in Sandboxes : box[b] # NoMount => att[box[b]] > 0 /\ box[b] \in mts
<1>0. IsFiniteSet(SessionNames) /\ IsFiniteSet(Sandboxes)
  BY KernelConstants, Zenon
<1>1. \A s \in SessionNames : \A m : fs[s] = m => Cardinality(Users(SessionNames, fs, m)) > 0
  BY <1>0, UsersCount, Zenon
<1>2. \A b \in Sandboxes : \A m : box[b] = m => Cardinality(Users(Sandboxes, box, m)) > 0
  BY <1>0, UsersCount, Zenon
<1>3. \A m : Cardinality(Users(SessionNames, fs, m)) \in Nat /\ Cardinality(Users(Sandboxes, box, m)) \in Nat
  BY <1>0, UsersCount, Zenon
<1>4. ASSUME NEW s \in SessionNames, fs[s] # NoMount PROVE att[fs[s]] > 0 /\ fs[s] \in mts
  <2>1. PICK m \in MountIds : m = fs[s]
    BY <1>4, Zenon DEF Indexes
  <2>2. att[m] = Cardinality(Users(SessionNames, fs, m)) + Cardinality(Users(Sandboxes, box, m))
    BY Zenon DEF Ledger
  <2>3. att[m] > 0
    BY <1>1, <1>3, <2>1, <2>2
  <2> QED BY <2>1, <2>3, Zenon DEF Ledger
<1>5. ASSUME NEW b \in Sandboxes, box[b] # NoMount PROVE att[box[b]] > 0 /\ box[b] \in mts
  <2>1. PICK m \in MountIds : m = box[b]
    BY <1>5, Zenon DEF Indexes
  <2>2. att[m] = Cardinality(Users(SessionNames, fs, m)) + Cardinality(Users(Sandboxes, box, m))
    BY Zenon DEF Ledger
  <2>3. att[m] > 0
    BY <1>2, <1>3, <2>1, <2>2
  <2> QED BY <2>1, <2>3, Zenon DEF Ledger
<1> QED BY <1>4, <1>5, Zenon

(* Released is the exact decrement for a mount in use, and nothing for none. *)
LEMMA ReleasedIsLess ==
  ASSUME NEW att \in [MountIds -> Nat], mounts \subseteq MountIds, NEW m \in MountIds \cup {NoMount},
         m # NoMount => att[m] > 0 /\ m \in mounts
  PROVE  Released(att, m) = Less(att, m)
<1>0. NoMount \notin MountIds
  BY KernelConstants DEF MountIds, NoMount
<1>1. CASE m = NoMount
  <2>1. Released(att, m) = att
    BY <1>0, <1>1, Zenon DEF Released
  <2>2. Less(att, m) = att
    BY <1>0, <1>1 DEF Less, One
  <2> QED BY <2>1, <2>2, Zenon
<1>2. CASE m # NoMount
  <2>1. Released(att, m) = [att EXCEPT ![m] = att[m] - 1]
    BY <1>2, Zenon DEF Released
  <2>2. [att EXCEPT ![m] = att[m] - 1] = Less(att, m)
    <3>1. \A n \in MountIds : att[n] \in Nat /\ att[n] - 0 = att[n]
      OBVIOUS
    <3>2. [att EXCEPT ![m] = att[m] - 1] = [n \in MountIds |-> IF n = m THEN att[m] - 1 ELSE att[n]]
      BY Zenon
    <3>3. \A n \in MountIds : (IF n = m THEN att[m] - 1 ELSE att[n]) = att[n] - One(n = m)
      BY <3>1, Zenon DEF One
    <3> QED BY <3>2, <3>3, Zenon DEF Less
  <2> QED BY <2>1, <2>2, Zenon
<1> QED BY <1>1, <1>2, Zenon

(* A session changes its filesystem from whatever it was to v, NoMount for a
   detach: one count less, one more. *)
LEMMA SessionLedger ==
  ASSUME NEW att, NEW sess, NEW fs, NEW mts, NEW nm, NEW box, Indexes(att, fs, mts, nm, box),
         Ledger(att, sess, fs, mts, nm, box), NEW s \in SessionNames, NEW v \in mts \cup {NoMount},
         NEW sess2, v # NoMount => s \in sess2, sess \ {s} \subseteq sess2
  PROVE  Ledger(More(Less(att, fs[s]), v), sess2, [fs EXCEPT ![s] = v], mts, nm, box)
<1> DEFINE fs2 == [fs EXCEPT ![s] = v]
           att2 == More(Less(att, fs[s]), v)
<1>0. IsFiniteSet(SessionNames) /\ IsFiniteSet(Sandboxes) /\ v \in MountIds \cup {NoMount}
  BY KernelConstants, Zenon DEF Indexes
<1>1. ASSUME NEW m \in MountIds
      PROVE  /\ att2[m] = Cardinality(Users(SessionNames, fs2, m)) + Cardinality(Users(Sandboxes, box, m))
             /\ att2[m] > 0 => m \in mts
  <2>1. att2[m] = att[m] - One(m = fs[s]) + One(m = v)
    BY Zenon DEF More, Less
  <2>a. fs = [x \in SessionNames |-> fs[x]]
    BY Zenon DEF Indexes
  <2>b. m = v => m \in mts
    BY KernelConstants DEF MountIds, NoMount
  <2>c. Cardinality(Users(SessionNames, fs, m)) \in Nat
    BY <1>0, UsersCount, Zenon
  <2>2. Cardinality(Users(SessionNames, fs2, m))
             = Cardinality(Users(SessionNames, fs, m)) - One(fs[s] = m) + One(v = m)
    BY <1>0, <2>a, UsersUpdate
  <2>3. Cardinality(Users(Sandboxes, box, m)) \in Nat
    BY <1>0, UsersCount, Zenon
  <2>4. /\ att[m] \in Nat
        /\ att[m] = Cardinality(Users(SessionNames, fs, m)) + Cardinality(Users(Sandboxes, box, m))
        /\ att[m] > 0 => m \in mts
    BY Zenon DEF Ledger, Indexes
  <2> HIDE DEF att2, fs2
  <2>5. One(m = fs[s]) \in {0, 1} /\ One(m = v) = IF m = v THEN 1 ELSE 0
    BY Zenon DEF One
  <2>6. One(m = fs[s]) = One(fs[s] = m) /\ One(m = v) = One(v = m)
    BY Zenon DEF One
  <2>7. att2[m] = Cardinality(Users(SessionNames, fs2, m)) + Cardinality(Users(Sandboxes, box, m))
    BY <2>c, <2>1, <2>2, <2>3, <2>4, <2>5, <2>6
  <2>8. att2[m] > 0 => m \in mts
    BY <2>b, <2>1, <2>4, <2>5
  <2> QED BY <2>7, <2>8, Zenon
<1>2. \A x \in SessionNames : fs2[x] # NoMount => x \in sess2
  BY Zenon DEF Ledger, Indexes
<1> QED BY <1>1, <1>2, Zenon DEF Ledger

(* The same for a sandbox and its mount. *)
LEMMA BoxLedger ==
  ASSUME NEW att, NEW sess, NEW fs, NEW mts, NEW nm, NEW box, Indexes(att, fs, mts, nm, box),
         Ledger(att, sess, fs, mts, nm, box), NEW b \in Sandboxes, NEW v \in mts \cup {NoMount}
  PROVE  Ledger(More(Less(att, box[b]), v), sess, fs, mts, nm, [box EXCEPT ![b] = v])
<1> DEFINE box2 == [box EXCEPT ![b] = v]
           att2 == More(Less(att, box[b]), v)
<1>0. IsFiniteSet(SessionNames) /\ IsFiniteSet(Sandboxes) /\ v \in MountIds \cup {NoMount}
  BY KernelConstants, Zenon DEF Indexes
<1>1. ASSUME NEW m \in MountIds
      PROVE  /\ att2[m] = Cardinality(Users(SessionNames, fs, m)) + Cardinality(Users(Sandboxes, box2, m))
             /\ att2[m] > 0 => m \in mts
  <2>1. att2[m] = att[m] - One(m = box[b]) + One(m = v)
    BY Zenon DEF More, Less
  <2>a. box = [x \in Sandboxes |-> box[x]]
    BY Zenon DEF Indexes
  <2>b. m = v => m \in mts
    BY KernelConstants DEF MountIds, NoMount
  <2>c. Cardinality(Users(Sandboxes, box, m)) \in Nat
    BY <1>0, UsersCount, Zenon
  <2>2. Cardinality(Users(Sandboxes, box2, m))
             = Cardinality(Users(Sandboxes, box, m)) - One(box[b] = m) + One(v = m)
    BY <1>0, <2>a, UsersUpdate
  <2>3. Cardinality(Users(SessionNames, fs, m)) \in Nat
    BY <1>0, UsersCount, Zenon
  <2>4. /\ att[m] \in Nat
        /\ att[m] = Cardinality(Users(SessionNames, fs, m)) + Cardinality(Users(Sandboxes, box, m))
        /\ att[m] > 0 => m \in mts
    BY Zenon DEF Ledger, Indexes
  <2> HIDE DEF att2, box2
  <2>5. One(m = box[b]) \in {0, 1} /\ One(m = v) = IF m = v THEN 1 ELSE 0
    BY Zenon DEF One
  <2>6. One(m = box[b]) = One(box[b] = m) /\ One(m = v) = One(v = m)
    BY Zenon DEF One
  <2>7. att2[m] = Cardinality(Users(SessionNames, fs, m)) + Cardinality(Users(Sandboxes, box2, m))
    BY <2>c, <2>1, <2>2, <2>3, <2>4, <2>5, <2>6
  <2>8. att2[m] > 0 => m \in mts
    BY <2>b, <2>1, <2>4, <2>5
  <2> QED BY <2>7, <2>8, Zenon
<1> QED BY <1>1, Zenon DEF Ledger

----------------------------------------------------------------------------
(* Every step keeps the ledger. *)

Live(b) == b \in entries \/ (kernel.sandbox = b /\ kernel.op \in Closing)

Working == {"recv", "run", "poll", "finish", "reply"}

(* A mount is used, and a thread works, only for a sandbox the Kernel still has. *)
LiveOK ==
  \A b \in Sandboxes : sandboxMount[b] # NoMount \/ worker[b].at \in Working => Live(b)

Books ==
  /\ sessionAttachments = filesystem
  /\ sandboxAttachments = sandboxMount
  /\ Ledger(attachments, sessions, filesystem, mounts, nextMount, sandboxMount)

(* MountsBalanced is the ledger, with the users it counts. *)
LEMMA BooksMeanBalance ==
  TypeOK /\ kernel.op # "gone" => (Books /\ LiveOK <=> AttachmentsOK /\ MountsBalanced)
<1> SUFFICES ASSUME TypeOK, kernel.op # "gone"
             PROVE  Books /\ LiveOK <=> AttachmentsOK /\ MountsBalanced
  BY Zenon
<1>0. NoMount \notin MountIds /\ sessions \subseteq SessionNames
  BY KernelConstants DEF MountIds, NoMount, TypeOK
<1>1. \A b \in Sandboxes : \A m : Holds(b, m) <=> sandboxMount[b] = m /\ Live(b)
  BY Zenon DEF Holds, Live, Closing
<1>2. ASSUME \A s \in SessionNames : filesystem[s] # NoMount => s \in sessions
      PROVE  \A m \in MountIds : {s \in sessions : filesystem[s] = m} = Users(SessionNames, filesystem, m)
  BY <1>0, <1>2, Zenon DEF Users
<1>3. ASSUME \A b \in Sandboxes : sandboxMount[b] # NoMount => Live(b)
      PROVE  \A m \in MountIds : {b \in Sandboxes : Holds(b, m)} = Users(Sandboxes, sandboxMount, m)
  BY <1>0, <1>1, <1>3, Zenon DEF Users
<1>4. ASSUME Books, LiveOK PROVE AttachmentsOK /\ MountsBalanced
  <2>1. \A s \in SessionNames : filesystem[s] # NoMount => s \in sessions
    BY <1>4, Zenon DEF Books, Ledger
  <2>2. \A b \in Sandboxes : sandboxMount[b] # NoMount => Live(b)
    BY <1>4, Zenon DEF LiveOK
  <2>3. \A m \in MountIds :
          /\ attachments[m] = Cardinality({s \in sessions : filesystem[s] = m})
                            + Cardinality({b \in Sandboxes : Holds(b, m)})
          /\ attachments[m] > 0 => m \in mounts
    BY <1>2, <1>3, <1>4, <2>1, <2>2, Zenon DEF Books, Ledger
  <2>4. \A b \in Sandboxes :
          worker[b].at \in {"recv", "run", "poll", "finish", "reply"} => Holds(b, sandboxMount[b])
    BY <1>1, <1>4, Zenon DEF LiveOK, Working
  <2>5. AttachmentsOK
    BY <1>1, <1>4, <2>2, Zenon DEF AttachmentsOK, Books, Ledger
  <2> QED BY <2>1, <2>3, <2>4, <2>5, Zenon DEF MountsBalanced
<1>5. ASSUME AttachmentsOK, MountsBalanced PROVE Books /\ LiveOK
  <2>1. \A s \in SessionNames : filesystem[s] # NoMount => s \in sessions
    BY <1>5, Zenon DEF MountsBalanced
  <2>2. \A b \in Sandboxes : sandboxMount[b] # NoMount => Live(b)
    BY <1>1, <1>5, Zenon DEF AttachmentsOK
  <2>3. \A m \in MountIds :
          /\ attachments[m] = Cardinality(Users(SessionNames, filesystem, m))
                            + Cardinality(Users(Sandboxes, sandboxMount, m))
          /\ attachments[m] > 0 => m \in mounts
    BY <1>2, <1>3, <1>5, <2>1, <2>2, Zenon DEF MountsBalanced
  <2>4. LiveOK
    BY <1>1, <1>5, <2>2, Zenon DEF LiveOK, Working, MountsBalanced
  <2> QED BY <1>5, <2>1, <2>3, <2>4, Zenon DEF AttachmentsOK, Books, Ledger
<1> QED BY <1>4, <1>5, Zenon

(* The types of the ledger. *)
LEMMA BookIndexes ==
  ASSUME TypeOK
  PROVE  Indexes(attachments, filesystem, mounts, nextMount, sandboxMount)
BY Zenon DEF TypeOK, Indexes

(* A step that neither counts nor registers. *)
LEMMA BooksFrame ==
  ASSUME Books, LiveOK, UNCHANGED <<mountVars, sandboxMount>>,
         \A b \in Sandboxes : Live(b) => Live(b)',
         \A b \in Sandboxes : worker'[b].at \in Working => worker[b].at \in Working
  PROVE  Books' /\ LiveOK'
<1>1. Books'
  BY Zenon DEF Books, mountVars
<1>2. LiveOK'
  BY Zenon DEF LiveOK
<1> QED BY <1>1, <1>2, Zenon

(* attach and detach, for one session (attach_filesystem, detach_filesystem,
   close_session). *)
LEMMA SessionBooks ==
  ASSUME TypeOK, Books, NEW s \in SessionNames, NEW v \in mounts \cup {NoMount},
         filesystem' = [filesystem EXCEPT ![s] = v],
         sessionAttachments' = [sessionAttachments EXCEPT ![s] = v],
         attachments' = More(Released(attachments, sessionAttachments[s]), v),
         v # NoMount => s \in sessions', sessions \ {s} \subseteq sessions',
         UNCHANGED <<mounts, sandboxAttachments, nextMount, sandboxMount>>
  PROVE  Books'
<1>0. Indexes(attachments, filesystem, mounts, nextMount, sandboxMount)
  BY BookIndexes, Zenon
<1>1. /\ sessionAttachments = filesystem
      /\ Ledger(attachments, sessions, filesystem, mounts, nextMount, sandboxMount)
  BY Zenon DEF Books
<1>2. /\ filesystem[s] \in MountIds \cup {NoMount} /\ attachments \in [MountIds -> Nat]
      /\ mounts \subseteq MountIds
  BY Zenon DEF TypeOK
<1>3. filesystem[s] # NoMount => attachments[filesystem[s]] > 0 /\ filesystem[s] \in mounts
  BY <1>0, <1>1, UsedIsRegistered, Zenon
<1>4. Released(attachments, filesystem[s]) = Less(attachments, filesystem[s])
  BY <1>2, <1>3, ReleasedIsLess, Zenon
<1>5. Ledger(More(Less(attachments, filesystem[s]), v), sessions', [filesystem EXCEPT ![s] = v],
             mounts, nextMount, sandboxMount)
  BY <1>0, <1>1, SessionLedger, Zenon
<1>6. Ledger(attachments', sessions', filesystem', mounts', nextMount', sandboxMount')
  BY <1>1, <1>4, <1>5, Zenon
<1> QED BY <1>1, <1>6, Zenon DEF Books

(* No count changes when nothing is attached. *)
LEMMA MoreNothing ==
  ASSUME NEW att \in [MountIds -> Nat] PROVE More(att, NoMount) = att
<1>1. NoMount \notin MountIds
  BY KernelConstants DEF MountIds, NoMount
<1>2. \A n \in MountIds : att[n] + One(n = NoMount) = att[n]
  BY <1>1 DEF One
<1> QED BY <1>2, Zenon DEF More

(* One more for the mount that is attached. *)
LEMMA MoreIsExcept ==
  ASSUME NEW att \in [MountIds -> Nat], NEW m \in MountIds
  PROVE  [att EXCEPT ![m] = @ + 1] = More(att, m)
<1>1. [att EXCEPT ![m] = @ + 1] = [n \in MountIds |-> IF n = m THEN att[m] + 1 ELSE att[n]]
  BY Zenon
<1>2. \A n \in MountIds : (IF n = m THEN att[m] + 1 ELSE att[n]) = att[n] + One(n = m)
  BY DEF One
<1> QED BY <1>1, <1>2, Zenon DEF More

(* Calls on sessions and mounts. *)
LEMMA MountBooks ==
  ASSUME TypeOK, Books, LiveOK, MountNext
  PROVE  Books' /\ LiveOK'
<1>0. /\ attachments \in [MountIds -> Nat] /\ mounts \subseteq MountIds /\ sessions \subseteq SessionNames
      /\ sessionAttachments = filesystem /\ nextMount \in Nat
      /\ \A s \in SessionNames : filesystem[s] \in MountIds \cup {NoMount}
      /\ Ledger(attachments, sessions, filesystem, mounts, nextMount, sandboxMount)
  BY Zenon DEF TypeOK, Books
<1>1. UNCHANGED <<worker, entries, sandboxMount, kernel>>
  <2>1. MountCall
    BY Zenon DEF MountNext, CreateSession, DetachFilesystem, CloseSession, AttachFilesystem,
           CreateFilesystem, CloseFilesystem
  <2> QED BY <2>1, Zenon DEF MountCall, sandboxVars, registryVars
<1>2. LiveOK'
  <2>1. \A b \in Sandboxes : Live(b)' <=> Live(b)
    BY <1>1, Zenon DEF Live
  <2> QED BY <1>1, <2>1, Zenon DEF LiveOK
<1>3. ASSUME NEW s \in SessionNames PROVE Released(attachments, sessionAttachments[s]) \in [MountIds -> Nat]
  BY <1>0, ReleasedType, Zenon
<1>4. ASSUME NEW s \in SessionNames, Detach(s), sessions \ {s} \subseteq sessions',
             UNCHANGED <<mounts, sandboxAttachments, nextMount>>
      PROVE  Books'
  <2>1. attachments' = More(Released(attachments, sessionAttachments[s]), NoMount)
    BY <1>3, <1>4, MoreNothing, Zenon DEF Detach
  <2> QED BY <1>1, <1>4, <2>1, SessionBooks, Zenon DEF Detach
<1>5. ASSUME NEW s \in SessionNames, CreateSession(s) PROVE Books'
  BY <1>1, <1>5, Zenon DEF CreateSession, Books, Ledger
<1>6. ASSUME NEW s \in SessionNames, DetachFilesystem(s) PROVE Books'
  BY <1>4, <1>6, Zenon DEF DetachFilesystem
<1>7. ASSUME NEW s \in SessionNames, CloseSession(s) PROVE Books'
  BY <1>4, <1>7, Zenon DEF CloseSession
<1>8. ASSUME NEW s \in SessionNames, NEW m \in MountIds, AttachFilesystem(s, m) PROVE Books'
  <2>1. /\ s \in sessions /\ m \in mounts
        /\ attachments' = [Released(attachments, sessionAttachments[s]) EXCEPT ![m] = @ + 1]
        /\ sessionAttachments' = [sessionAttachments EXCEPT ![s] = m]
        /\ filesystem' = [filesystem EXCEPT ![s] = m]
        /\ UNCHANGED <<sessions, mounts, sandboxAttachments, nextMount>>
    BY <1>8, Zenon DEF AttachFilesystem
  <2>2. attachments' = More(Released(attachments, sessionAttachments[s]), m)
    BY <1>3, <2>1, MoreIsExcept, Zenon
  <2> QED BY <1>1, <2>1, <2>2, SessionBooks, Zenon
<1>9. CASE CreateFilesystem
  <2>1. /\ nextMount \in MountIds /\ mounts' = mounts \cup {nextMount} /\ nextMount' = nextMount + 1
        /\ attachments' = [attachments EXCEPT ![nextMount] = 0]
        /\ UNCHANGED <<sessions, filesystem, sessionAttachments, sandboxAttachments>>
    BY <1>9, Zenon DEF CreateFilesystem
  <2>2. nextMount \notin mounts
    BY <1>0 DEF Ledger
  <2>3. attachments[nextMount] = 0
    BY <1>0, <2>1, <2>2 DEF Ledger
  <2>4. attachments' = attachments
    BY <1>0, <2>1, <2>3, Zenon
  <2>5. \A m \in mounts' : m < nextMount'
    BY <1>0, <2>1, KernelConstants DEF Ledger, MountIds
  <2>6. nextMount' > 0
    BY <1>0, <2>1
  <2>7. \A m \in MountIds : attachments[m] > 0 => m \in mounts'
    BY <1>0, <2>1, Zenon DEF Ledger
  <2>8. Ledger(attachments, sessions, filesystem, mounts', nextMount', sandboxMount)
    BY <1>0, <2>5, <2>6, <2>7, Zenon DEF Ledger
  <2>9. Ledger(attachments', sessions', filesystem', mounts', nextMount', sandboxMount')
    BY <1>1, <2>1, <2>4, <2>8, Zenon
  <2>10. sessionAttachments' = filesystem' /\ sandboxAttachments' = sandboxMount'
    BY <1>1, <2>1, Zenon DEF Books
  <2>11. Books'
    BY <2>9, <2>10, Zenon DEF Books
  <2> QED BY <1>2, <2>11, Zenon
<1>10. ASSUME NEW m \in MountIds, CloseFilesystem(m) PROVE Books'
  <2>1. /\ attachments[m] = 0 /\ mounts' = mounts \ {m}
        /\ UNCHANGED <<sessions, filesystem, attachments, sessionAttachments, sandboxAttachments, nextMount>>
    BY <1>10, Zenon DEF CloseFilesystem
  <2>2. \A n \in MountIds : attachments[n] > 0 => n \in mounts'
    BY <1>0, <2>1 DEF Ledger
  <2> QED BY <1>1, <2>1, <2>2, Zenon DEF Books, Ledger
<1> QED BY <1>2, <1>5, <1>6, <1>7, <1>8, <1>9, <1>10, Zenon DEF MountNext

(* open_sandbox: the count of the mount goes up, and down again when the
   provider fails. *)
LEMMA OpenBooks ==
  ASSUME TypeOK, RegistryOK, Books, LiveOK, NEW m \in MountIds \cup {NoMount}, OpenSandbox(m)
  PROVE  Books' /\ LiveOK'
<1>0. /\ attachments \in [MountIds -> Nat] /\ mounts \subseteq MountIds /\ entries \subseteq Sandboxes
      /\ sandboxAttachments \in [Sandboxes -> MountIds \cup {NoMount}]
      /\ sandboxAttachments = sandboxMount /\ nextSandbox \in Nat
      /\ Ledger(attachments, sessions, filesystem, mounts, nextMount, sandboxMount)
      /\ worker \in [Sandboxes -> WorkerStates]
  BY Zenon DEF TypeOK, SandboxTypeOK, Books
<1>1. PICK b \in Sandboxes : b = nextSandbox
  BY Zenon DEF OpenSandbox
<1> DEFINE attached == IF m = NoMount THEN attachments ELSE [attachments EXCEPT ![m] = @ + 1]
           indexed  == [sandboxAttachments EXCEPT ![b] = m]
<1>2. /\ kernel.op = "idle" /\ m \in mounts \cup {NoMount}
      /\ UNCHANGED <<sessions, filesystem, mounts, sessionAttachments, nextMount, kernel>>
      /\ \/ /\ Open(b) /\ attachments' = attached /\ sandboxAttachments' = indexed
            /\ entries' = entries \cup {b} /\ sandboxMount' = [sandboxMount EXCEPT ![b] = m]
         \/ /\ ReleaseSandboxMount(b, m, attached, indexed)
            /\ UNCHANGED <<sandboxVars, entries, sandboxMount>>
  BY <1>1, Zenon DEF OpenSandbox
<1>3. attached = More(attachments, m) /\ attached \in [MountIds -> Nat]
  <2>1. CASE m = NoMount
    BY <1>0, <2>1, MoreNothing, Zenon
  <2>2. CASE m # NoMount
    BY <1>0, <2>2, MoreIsExcept
  <2> QED BY <2>1, <2>2, Zenon
<1>4. sandboxMount[b] = NoMount
  <2>1. b \notin entries
    BY <1>0, <1>1 DEF RegistryOK
  <2>2. ~Live(b)
    BY <1>2, <2>1, Zenon DEF Live, Closing
  <2> QED BY <2>2, Zenon DEF LiveOK
<1>5. \A c \in Sandboxes : Live(c)' <=> c \in entries'
  BY <1>2, Zenon DEF Live, Closing
<1>6. \A c \in Sandboxes : Live(c) <=> c \in entries
  BY <1>2, Zenon DEF Live, Closing
<1>7. CASE /\ Open(b) /\ attachments' = attached /\ sandboxAttachments' = indexed
           /\ entries' = entries \cup {b} /\ sandboxMount' = [sandboxMount EXCEPT ![b] = m]
  <2>1. Indexes(attachments, filesystem, mounts, nextMount, sandboxMount)
    BY BookIndexes, Zenon
  <2>2. Ledger(More(Less(attachments, sandboxMount[b]), m), sessions, filesystem, mounts, nextMount,
               [sandboxMount EXCEPT ![b] = m])
    BY <1>0, <1>2, <2>1, BoxLedger, Zenon
  <2>3. Less(attachments, NoMount) = attachments
    <3>1. NoMount \notin MountIds
      BY KernelConstants DEF MountIds, NoMount
    <3>2. \A n \in MountIds : attachments[n] - One(n = NoMount) = attachments[n]
      BY <1>0, <3>1 DEF One
    <3> QED BY <1>0, <3>2, Zenon DEF Less
  <2>4. sandboxAttachments' = sandboxMount'
    BY <1>0, <1>7, Zenon
  <2> HIDE DEF attached, indexed
  <2>5. Ledger(attachments', sessions', filesystem', mounts', nextMount', sandboxMount')
    BY <1>2, <1>3, <1>4, <1>7, <2>2, <2>3, Zenon
  <2>6. Books'
    BY <1>2, <2>4, <2>5, Zenon DEF Books
  <2>7. \A c \in Sandboxes : c # b => worker'[c] = worker[c] /\ sandboxMount'[c] = sandboxMount[c]
    BY <1>0, <1>7, Zenon DEF Open
  <2>8. LiveOK'
    BY <1>5, <1>6, <1>7, <2>7, Zenon DEF LiveOK
  <2> QED BY <2>6, <2>8, Zenon
<1>8. CASE /\ ReleaseSandboxMount(b, m, attached, indexed)
           /\ UNCHANGED <<sandboxVars, entries, sandboxMount>>
  <2>1. sandboxAttachments' = sandboxAttachments
    <3>1. sandboxAttachments' = IF m = NoMount THEN indexed ELSE [indexed EXCEPT ![b] = NoMount]
      BY <1>8, Zenon DEF ReleaseSandboxMount
    <3> QED BY <1>0, <1>4, <3>1, Zenon
  <2>2. indexed[b] = m
    BY <1>0, Zenon
  <2> HIDE DEF attached, indexed
  <2>3. attachments' = attachments
    <3>1. CASE m = NoMount
      <4>1. attachments' = attached
        BY <1>8, <3>1, Zenon DEF ReleaseSandboxMount
      <4> QED BY <1>0, <3>1, <4>1, Zenon DEF attached
    <3>2. CASE m # NoMount
      <4>0. m \in MountIds /\ m \in mounts
        BY <1>2, <3>2, Zenon
      <4>1. attachments' = Released(attached, m)
        BY <1>8, <2>2, <3>2, Zenon DEF ReleaseSandboxMount
      <4>2. attached[m] > 0
        BY <1>0, <1>3, <4>0 DEF More, One
      <4>3. attachments' = Less(attached, m)
        BY <1>0, <1>3, <4>0, <4>1, <4>2, ReleasedIsLess, Zenon
      <4>4. \A n \in MountIds : attached[n] - One(n = m) = attachments[n]
        BY <1>0, <1>3 DEF More, One
      <4> QED BY <1>0, <4>3, <4>4, Zenon DEF Less
    <3> QED BY <3>1, <3>2, Zenon
  <2>4. Books'
    BY <1>2, <1>8, <2>1, <2>3, Zenon DEF Books
  <2>5. LiveOK'
    BY <1>5, <1>6, <1>8, Zenon DEF LiveOK, sandboxVars
  <2> QED BY <2>4, <2>5
<1> QED BY <1>2, <1>7, <1>8, Zenon

(* close_sandbox gives the mount back once the worker is gone. *)
LEMMA JoinBooks ==
  ASSUME TypeOK, RegistryOK, Books, LiveOK, CloseJoin
  PROVE  Books' /\ LiveOK'
<1>0. /\ attachments \in [MountIds -> Nat] /\ mounts \subseteq MountIds
      /\ sandboxAttachments = sandboxMount /\ sandboxMount \in [Sandboxes -> MountIds \cup {NoMount}]
      /\ Ledger(attachments, sessions, filesystem, mounts, nextMount, sandboxMount)
  BY Zenon DEF TypeOK, Books
<1>1. PICK b \in Sandboxes : b = kernel.sandbox
  BY Zenon DEF CloseJoin, RegistryOK, Closing
<1>2. /\ kernel.op = "close-join" /\ worker[b].at \in {"done", "panicked"}
      /\ ReleaseSandboxMount(b, sandboxMount[b], attachments, sandboxAttachments)
      /\ sandboxMount' = [sandboxMount EXCEPT ![b] = NoMount] /\ kernel' = Idling
      /\ UNCHANGED <<entries, worker, sessions, filesystem, mounts, sessionAttachments, nextMount>>
  BY <1>1, Zenon DEF CloseJoin, Joinable
<1>3. Indexes(attachments, filesystem, mounts, nextMount, sandboxMount)
  BY BookIndexes, Zenon
<1>4. sandboxMount[b] # NoMount => attachments[sandboxMount[b]] > 0 /\ sandboxMount[b] \in mounts
  BY <1>0, <1>3, UsedIsRegistered, Zenon
<1>5. attachments' = Less(attachments, sandboxMount[b])
  <2>1. Released(attachments, sandboxMount[b]) = Less(attachments, sandboxMount[b])
    BY <1>0, <1>4, ReleasedIsLess, Zenon
  <2>2. CASE sandboxMount[b] # NoMount
    BY <1>0, <1>2, <2>1, <2>2, Zenon DEF ReleaseSandboxMount
  <2>3. CASE sandboxMount[b] = NoMount
    <3>1. NoMount \notin MountIds
      BY KernelConstants DEF MountIds, NoMount
    <3>2. attachments' = attachments /\ Released(attachments, NoMount) = attachments
      BY <1>0, <1>2, <2>3, <3>1, Zenon DEF ReleaseSandboxMount, Released
    <3> QED BY <2>1, <2>3, <3>2, Zenon
  <2> QED BY <2>2, <2>3, Zenon
<1>6. Less(attachments, sandboxMount[b]) \in [MountIds -> Nat]
  <2>1. \A n \in MountIds : attachments[n] - One(n = sandboxMount[b]) \in Nat
    BY <1>0, <1>4, KernelConstants DEF One, MountIds, NoMount
  <2> QED BY <2>1, Zenon DEF Less
<1>7. Ledger(More(Less(attachments, sandboxMount[b]), NoMount), sessions, filesystem, mounts, nextMount,
             [sandboxMount EXCEPT ![b] = NoMount])
  BY <1>0, <1>3, BoxLedger, Zenon
<1>8. Ledger(attachments', sessions', filesystem', mounts', nextMount', sandboxMount')
  BY <1>2, <1>5, <1>6, <1>7, MoreNothing, Zenon
<1>9. sandboxAttachments' = sandboxMount'
  BY <1>0, <1>2, Zenon DEF ReleaseSandboxMount
<1>10. Books'
  BY <1>2, <1>8, <1>9, Zenon DEF Books
<1>11. \A c \in Sandboxes : c # b => sandboxMount'[c] = sandboxMount[c] /\ (Live(c) => Live(c)')
  BY <1>0, <1>1, <1>2, Zenon DEF Live
<1>12. sandboxMount'[b] = NoMount /\ worker'[b].at \notin Working
  BY <1>0, <1>2, Zenon DEF Working
<1>13. LiveOK'
  BY <1>2, <1>11, <1>12, Zenon DEF LiveOK
<1> QED BY <1>10, <1>13, Zenon

(* Every step of the Kernel and of the workers. *)
LEMMA NextBooks ==
  ASSUME TypeOK, RegistryOK, [Next]_vars, kernel.op # "gone" => Books /\ LiveOK, kernel'.op # "gone"
  PROVE  Books' /\ LiveOK'
<1>0. kernel \in KernelCalls /\ entries \subseteq Sandboxes
  BY Zenon DEF TypeOK
<1>f. \A op \in {"status-error", "status-return", "close-send", "close-join"} :
        [kernel EXCEPT !.op = op].op = op /\ [kernel EXCEPT !.op = op].sandbox = kernel.sandbox
  BY <1>0, Zenon DEF KernelCalls
<1>1. ASSUME kernel.op # "gone", UNCHANGED <<mountVars, sandboxMount, worker, entries>>,
             kernel.op \in Closing => kernel'.op \in Closing /\ kernel'.sandbox = kernel.sandbox
      PROVE  Books' /\ LiveOK'
  <2>1. \A b \in Sandboxes : Live(b) => Live(b)'
    BY <1>1, Zenon DEF Live
  <2> QED BY <1>1, <2>1, BooksFrame, Zenon
<1>2. CASE MountNext
  <2>1. kernel.op = "idle"
    BY <1>2, Zenon DEF MountNext, CreateSession, DetachFilesystem, CloseSession, AttachFilesystem,
                CreateFilesystem, CloseFilesystem, MountCall
  <2> QED BY <1>2, <2>1, MountBooks, Zenon
<1>3. CASE SandboxNext
  <2>1. kernel.op = "idle"
    BY <1>3, Zenon DEF SandboxNext, OpenSandbox, SandboxEval, CancelSandbox, CancelSandboxEvaluation,
                SandboxStatus, CloseSandbox
  <2>a. kernel.op \notin Closing
    BY <2>1, Zenon DEF Closing
  <2>2. ASSUME NEW m \in MountIds \cup {NoMount}, OpenSandbox(m) PROVE Books' /\ LiveOK'
    BY <2>1, <2>2, OpenBooks, Zenon
  <2>3. ASSUME NEW b \in Sandboxes, SandboxEval(b) PROVE Books' /\ LiveOK'
    BY <1>1, <2>1, <2>a, <2>3, Zenon DEF SandboxEval, Begin, sandboxVars, registryVars
  <2>4. ASSUME NEW b \in Sandboxes, CancelSandbox(b) PROVE Books' /\ LiveOK'
    BY <1>1, <2>1, <2>a, <2>4, Zenon DEF CancelSandbox, KernelCall, sandboxVars, registryVars
  <2>5. ASSUME NEW b \in Sandboxes, NEW e \in Evaluations, CancelSandboxEvaluation(b, e)
        PROVE  Books' /\ LiveOK'
    BY <1>1, <2>1, <2>a, <2>5, Zenon DEF CancelSandboxEvaluation, Cancel, KernelCall, registryVars
  <2>6. ASSUME NEW b \in Sandboxes, SandboxStatus(b) PROVE Books' /\ LiveOK'
    BY <1>1, <2>1, <2>a, <2>6, Zenon DEF SandboxStatus, KernelCall, sandboxVars, registryVars
  <2>7. ASSUME NEW b \in Sandboxes, CloseSandbox(b) PROVE Books' /\ LiveOK'
    <3>1. /\ entries' = entries \ {b} /\ kernel'.op = "close-cancel" /\ kernel'.sandbox = b
          /\ UNCHANGED <<mountVars, sandboxMount, worker>>
      BY <2>7, Zenon DEF CloseSandbox, sandboxVars
    <3>2. \A c \in Sandboxes : Live(c) => Live(c)'
      BY <2>1, <3>1, Zenon DEF Live, Closing
    <3> QED BY <2>1, <3>1, <3>2, BooksFrame, Zenon
  <2> QED BY <1>3, <2>2, <2>3, <2>4, <2>5, <2>6, <2>7, Zenon DEF SandboxNext
<1>4. CASE KernelStep
  <2>1. kernel.op # "gone"
    BY <1>4, Zenon DEF KernelStep, CancelRead, StatusActive, StatusError, StatusReturn, CloseCancel,
                CloseSend, CloseJoin
  <2>2. CASE CancelRead
    BY <1>1, <2>1, <2>2, Zenon DEF CancelRead, Cancel, KernelCall, registryVars, Closing
  <2>3. CASE StatusActive
    BY <1>1, <2>1, <2>3, Zenon DEF StatusActive, KernelCall, registryVars, sandboxVars, Closing
  <2>4. CASE StatusError
    BY <1>1, <2>1, <2>4, Zenon DEF StatusError, KernelCall, registryVars, sandboxVars, Closing
  <2>5. CASE StatusReturn
    BY <1>1, <2>1, <2>5, Zenon DEF StatusReturn, KernelCall, registryVars, sandboxVars, Closing
  <2>6. CASE CloseCancel
    <3>1. kernel'.op \in Closing /\ kernel'.sandbox = kernel.sandbox
      BY <1>f, <2>6, Zenon DEF CloseCancel, Closing
    <3> QED BY <1>1, <2>1, <2>6, <3>1, Zenon DEF CloseCancel, Cancel, KernelCall, registryVars
  <2>7. CASE CloseSend
    <3>1. kernel'.op \in Closing /\ kernel'.sandbox = kernel.sandbox
      BY <1>f, <2>7, Zenon DEF CloseSend, Closing
    <3> QED BY <1>1, <2>1, <2>7, <3>1, Zenon DEF CloseSend, SendClose, KernelCall, registryVars
  <2>8. CASE CloseJoin
    BY <2>1, <2>8, JoinBooks, Zenon
  <2> QED BY <1>4, <2>2, <2>3, <2>4, <2>5, <2>6, <2>7, <2>8, Zenon DEF KernelStep
<1>5. CASE DropKernel
  BY <1>5, Zenon DEF DropKernel, Idling
<1>6. ASSUME NEW b \in Sandboxes, WorkerStep(b) PROVE Books' /\ LiveOK'
  <2>1. Worker(b) /\ UNCHANGED <<mountVars, sandboxMount, entries, kernel>>
    BY <1>6, Zenon DEF WorkerStep, kernelVars, registryVars
  <2>2. worker[b].at \in Working
    BY <2>1, Zenon DEF Worker, Receive, Disconnected, NextForm, Poll, Interrupted, RunControlled, WorkerPanics, FinishEvaluation, Reply, Working
  <2>3. worker \in [Sandboxes -> WorkerStates]
    BY Zenon DEF TypeOK, SandboxTypeOK
  <2>4. \E w : worker' = [worker EXCEPT ![b] = w]
    <3>1. CASE Receive(b) \/ Reply(b)
      BY <3>1, Zenon DEF Receive, Reply
    <3>2. CASE Disconnected(b) \/ RunControlled(b)
      BY <2>3, <3>2, Zenon DEF Disconnected, RunControlled
    <3>3. CASE WorkerPanics(b) \/ FinishEvaluation(b)
      BY <2>3, <3>3, Zenon DEF WorkerPanics, FinishEvaluation
    <3>4. CASE NextForm(b) \/ Poll(b)
      BY <2>3, <3>4, Zenon DEF NextForm, Poll
    <3>5. CASE Interrupted(b)
      BY <2>3, <3>5, Zenon DEF Interrupted
    <3> QED BY <2>1, <3>1, <3>2, <3>3, <3>4, <3>5, Zenon DEF Worker
  <2>5. \A c \in Sandboxes : c # b => worker'[c] = worker[c]
    BY <2>3, <2>4, Zenon
  <2>6. \A c \in Sandboxes : Live(c) => Live(c)'
    BY <2>1, Zenon DEF Live
  <2>7. kernel.op # "gone"
    BY <2>1, Zenon
  <2> QED BY <2>1, <2>2, <2>5, <2>6, <2>7, BooksFrame, Zenon
<1>7. CASE UNCHANGED vars
  <2>1. UNCHANGED <<mountVars, sandboxMount, worker, entries, kernel>>
    BY <1>7, Zenon DEF vars, kernelVars, registryVars, sandboxVars
  <2> QED BY <1>1, <2>1, Zenon
<1> QED BY <1>2, <1>3, <1>4, <1>5, <1>6, <1>7, Zenon DEF Next

----------------------------------------------------------------------------
(* The inductive invariant and what follows from it. *)

(* A Kernel starts with the ROOT session, no mount and no sandbox. *)
LEMMA InitMounts == Init => AttachmentsOK /\ MountsBalanced
<1> SUFFICES ASSUME Init PROVE AttachmentsOK /\ MountsBalanced
  BY Zenon
<1>1. TypeOK
  BY InitTypeOK, Zenon
<1>2. /\ kernel.op = "idle" /\ nextMount = 1
      /\ mounts = {} /\ sessionAttachments = filesystem /\ sandboxAttachments = sandboxMount
  BY Zenon DEF Init, Idling
<1>3. \A b \in Sandboxes : worker[b].at = "absent" /\ sandboxMount[b] = NoMount
  BY Zenon DEF Init, SandboxInit
<1>7. LiveOK
  BY <1>3, Zenon DEF LiveOK, Working
<1>8. Books
  <2>0. IsFiniteSet(SessionNames) /\ IsFiniteSet(Sandboxes) /\ NoMount \notin MountIds
    BY KernelConstants DEF MountIds, NoMount
  <2>1. \A m \in MountIds : /\ Users(SessionNames, filesystem, m) = {}
                            /\ Users(Sandboxes, sandboxMount, m) = {} /\ attachments[m] = 0
    BY <2>0, Zenon DEF Init, Users
  <2>2. \A m \in MountIds :
          /\ attachments[m] = Cardinality(Users(SessionNames, filesystem, m))
                            + Cardinality(Users(Sandboxes, sandboxMount, m))
          /\ ~(attachments[m] > 0)
    BY <2>1, FS_EmptySet
  <2>3. \A s \in SessionNames : filesystem[s] = NoMount
    BY Zenon DEF Init
  <2> QED BY <1>2, <2>2, <2>3 DEF Books, Ledger
<1> QED BY <1>1, <1>2, <1>7, <1>8, BooksMeanBalance, Zenon

(* Every step of the Kernel and of the workers keeps the ledger. *)
LEMMA NextMounts == MountInv /\ [Next]_vars => AttachmentsOK' /\ MountsBalanced'
<1> SUFFICES ASSUME MountInv, [Next]_vars PROVE AttachmentsOK' /\ MountsBalanced'
  BY Zenon
<1>1. TypeOK /\ RegistryOK /\ AttachmentsOK /\ MountsBalanced
  BY Zenon DEF MountInv, KernelInv
<1>2. TypeOK'
  BY <1>1, NextTypeOK, Zenon
<1>3. kernel.op # "gone" => Books /\ LiveOK
  BY <1>1, BooksMeanBalance, Zenon
<1>4. CASE kernel'.op = "gone"
  BY <1>4, Zenon DEF AttachmentsOK, MountsBalanced
<1>5. CASE kernel'.op # "gone"
  <2>1. Books' /\ LiveOK'
    BY <1>1, <1>3, <1>5, NextBooks, Zenon
  <2>2. (TypeOK /\ kernel.op # "gone" => (Books /\ LiveOK <=> AttachmentsOK /\ MountsBalanced))'
    BY BooksMeanBalance, PTL
  <2> QED BY <1>2, <1>5, <2>1, <2>2, Zenon
<1> QED BY <1>4, <1>5, Zenon

(* The count of a mount is the number of its users, whatever calls led there;
   close_filesystem refuses exactly the mounts in use; and no worker thread
   outlives its sandbox's claim (session.rs, sandbox.rs). *)
THEOREM MountsStayBalanced == Spec => []MountsBalanced
<1>1. Init => MountInv
  BY InitInv, InitMounts, Zenon DEF MountInv
<1>2. MountInv /\ [Next]_vars => MountInv'
  BY NextInv, NextMounts, Zenon DEF MountInv
<1>3. MountInv => MountsBalanced
  BY Zenon DEF MountInv
<1> QED BY <1>1, <1>2, <1>3, PTL DEF Spec
============================================================================

-------------------------- MODULE LocalServingProofs --------------------------
(***************************************************************************)
(* Proof that the serving processor deletes no session under a client that *)
(* began to run on it while it served.                                     *)
(***************************************************************************)
EXTENDS LocalServing, FiniteSetTheorems, TLAPS

Models == [dir : Nat, full : Nat, delta : Nat]
Dirs == [full : Nat, delta : Nat]
UpdaterPCs == {"sleep", "scanned", "full", "swap", "retire", "delta", "restoring"}
Updaters(n) == [pc : UpdaterPCs, v : Models, old : 0..n]
ClientStates(n) == [pc : {"away", "read", "run"}, s : 0..n, late : BOOLEAN]
Sessions == [alive : BOOLEAN, counter_ : Nat, model : Models, whole : BOOLEAN]

TypeOK ==
  /\ dirs \in Seq(Dirs) /\ Len(dirs) > 0
  /\ sess \in Seq(Sessions)
  /\ serving \in 1..Len(sess) /\ sessions_ \in SUBSET (1..Len(sess))
  /\ version_ \in Models
  /\ upd \in Updaters(Len(sess))
  /\ upd.pc = "scanned" => upd.v.dir \in 1..Len(dirs)
  /\ client \in [Clients -> ClientStates(Len(sess))]
  /\ \A c \in Clients : client[c].pc # "away" => client[c].s # 0

\* The session that serves is alive, and neither the clearing thread nor the
\* updater is about to delete it; nor is the one about to take over.
ServingInv ==
  /\ sess[serving].alive /\ serving \notin sessions_
  /\ upd.pc = "retire" => upd.old # serving /\ upd.old # 0
  /\ upd.pc = "swap" =>
       /\ sess[Len(sess)].alive
       /\ Len(sess) # serving /\ Len(sess) \notin sessions_

\* The clients that run on session s.
On(s) == {c \in Clients : client[c].pc = "run" /\ client[c].s = s}

\* The counter of a session that exists counts them.
CounterInv ==
  \A s \in 1..Len(sess) : sess[s].alive => sess[s].counter_ = Cardinality(On(s))

RunInv ==
  \A c \in Clients : client[c].pc = "run" /\ ~client[c].late => sess[client[c].s].alive

IInv == TypeOK /\ ServingInv /\ CounterInv /\ RunInv
-----------------------------------------------------------------------------
LEMMA FunSeq ==
  ASSUME NEW S, NEW n \in Nat, NEW f \in [1..n -> S]
  PROVE  f \in Seq(S) /\ Len(f) = n
OBVIOUS

LEMMA SeqFun ==
  ASSUME NEW S, NEW f \in Seq(S)
  PROVE  f \in [1..Len(f) -> S] /\ Len(f) \in Nat
OBVIOUS

LEMMA UpdaterFields ==
  ASSUME NEW n \in Nat, NEW u \in Updaters(n)
  PROVE  u.v \in Models /\ u.old \in 0..n /\ u \in Updaters(n + 1)
BY DEF Updaters

LEMMA UpdaterAt ==
  ASSUME NEW n \in Nat, NEW u \in Updaters(n), NEW p \in UpdaterPCs,
         NEW next, next = [u EXCEPT !.pc = p]
  PROVE  next \in Updaters(n) /\ next.pc = p
BY DEF Updaters

LEMMA SleepingUpdater ==
  ASSUME NEW n \in Nat
  PROVE  Sleeping \in Updaters(n) /\ Sleeping.pc = "sleep"
BY DEF UpdaterPCs, Updaters, Sleeping, Model, Models

LEMMA ModelFields ==
  ASSUME NEW m \in Models
  PROVE  /\ m.dir \in Nat /\ m.full \in Nat /\ m.delta \in Nat
         /\ \A d \in Nat : [m EXCEPT !.delta = d] \in Models
         /\ \A d \in Nat : Model(m.dir, m.full, d) \in Models
BY DEF Models, Model

LEMMA OnFinite ==
  ASSUME NEW s
  PROVE  IsFiniteSet(On(s)) /\ Cardinality(On(s)) \in Nat
<1>1. On(s) \in SUBSET Clients
  BY DEF On
<1> QED BY <1>1, ClientsAssumption, FS_Subset, FS_CardinalityType

\* A client that read the pointer has a session.
LEMMA HasSession ==
  ASSUME TypeOK, NEW c \in Clients, client[c].pc # "away"
  PROVE  client[c].s \in 1..Len(sess)
<1>1. client[c] \in ClientStates(Len(sess)) /\ client[c].s # 0 /\ Len(sess) \in Nat
  BY SeqFun DEF TypeOK
<1> QED BY <1>1 DEF ClientStates

LEMMA InitIInv == Init => IInv
<1> SUFFICES ASSUME Init PROVE IInv
  OBVIOUS
<1> USE DEF Init, NewSession, Model, Sleeping, Away
<1>1. TypeOK
  <2>1. sess \in Seq(Sessions) /\ Len(sess) = 1
    BY DEF Sessions, Models
  <2>2. dirs \in Seq(Dirs) /\ Len(dirs) = 1
    BY DEF Dirs
  <2>3. /\ serving \in 1..1 /\ sessions_ \in SUBSET (1..1)
        /\ upd \in Updaters(1)
        /\ client \in [Clients -> ClientStates(1)]
    BY DEF Models, UpdaterPCs, Updaters, ClientStates
  <2> QED BY <2>1, <2>2, <2>3 DEF TypeOK, Models
<1>2. ServingInv
  BY DEF ServingInv
<1>3. CounterInv
  <2>1. \A s : On(s) = {}
    BY DEF On
  <2>2. Cardinality({}) = 0
    BY FS_EmptySet
  <2>3. Len(sess) = 1 /\ sess[1].counter_ = 0
    OBVIOUS
  <2>4. ASSUME NEW s \in 1..Len(sess) PROVE sess[s].counter_ = Cardinality(On(s))
    <3>1. s = 1
      BY ONLY <2>3, s \in 1..Len(sess)
    <3> QED BY ONLY <3>1, <2>1, <2>2, <2>3
  <2> HIDE DEF Init
  <2> QED BY ONLY <2>4 DEF CounterInv
<1>4. RunInv
  BY DEF RunInv
<1> QED BY <1>1, <1>2, <1>3, <1>4 DEF IInv

\* What a step of the training or of the updater that touches no session keeps.
LEMMA SameSessions ==
  ASSUME IInv, TypeOK', UNCHANGED <<sess, serving, sessions_, client>>,
         upd'.pc \notin {"swap", "retire"} \/ upd' = upd
  PROVE  IInv'
<1>1. ServingInv'
  BY DEF IInv, ServingInv
<1>2. CounterInv' /\ RunInv'
  BY DEF IInv, CounterInv, RunInv, On
<1> QED BY <1>1, <1>2 DEF IInv

-----------------------------------------------------------------------------
(* The training. *)

LEMMA PublishStep == ASSUME IInv, Publish PROVE IInv'
<1>1. dirs \in Seq(Dirs) /\ Len(dirs) \in Nat \ {0}
  BY DEF IInv, TypeOK
<1>2. LatestStep \in Nat
  <2>1. dirs[Len(dirs)] \in Dirs
    BY <1>1, SeqFun
  <2> QED BY <2>1 DEF LatestStep, Latest, Dirs
<1>3. dirs' \in Seq(Dirs) /\ Len(dirs') \in Nat /\ Len(dirs') >= Len(dirs)
  <2> PICK d \in Dirs : d = dirs[Latest]
    BY <1>1, SeqFun DEF Latest
  <2>1. [d EXCEPT !.full = LatestStep + 1] \in Dirs
    BY <1>2 DEF Dirs
  <2>2. [d EXCEPT !.delta = LatestStep + 1] \in Dirs
    BY <1>2 DEF Dirs
  <2>3. ASSUME NEW e \in Dirs, dirs' = Append(dirs, e)
        PROVE  dirs' \in Seq(Dirs) /\ Len(dirs') = Len(dirs) + 1
    BY <1>1, <2>3
  <2>4. ASSUME NEW e \in Dirs, dirs' = [dirs EXCEPT ![Latest] = e]
        PROVE  dirs' \in Seq(Dirs) /\ Len(dirs') = Len(dirs)
    BY <1>1, <2>4 DEF Latest
  <2>5. [full |-> 1, delta |-> 0] \in Dirs
    BY DEF Dirs
  <2>6. \/ \E e \in Dirs : dirs' = Append(dirs, e)
        \/ \E e \in Dirs : dirs' = [dirs EXCEPT ![Latest] = e]
    BY <2>1, <2>2, <2>5 DEF Publish
  <2> QED BY <1>1, <2>3, <2>4, <2>6
<1>4. TypeOK'
  BY <1>1, <1>3 DEF IInv, TypeOK, Publish, sessionVars
<1> QED BY <1>4, SameSessions DEF Publish, sessionVars

-----------------------------------------------------------------------------
(* The clients. *)

LEMMA ReadServingStep == ASSUME IInv, NEW c \in Clients, ReadServing(c) PROVE IInv'
<1> USE DEF ReadServing, sessionVars, publishVars
<1>0. serving \in 1..Len(sess) /\ Len(sess) \in Nat
  BY SeqFun DEF IInv, TypeOK
<1>c. [pc |-> "read", s |-> serving, late |-> FALSE] \in ClientStates(Len(sess))
  BY <1>0 DEF ClientStates
<1>1. TypeOK'
  BY <1>0, <1>c DEF IInv, TypeOK
<1>2. ServingInv'
  BY DEF IInv, ServingInv
<1>3. \A s : On(s)' = On(s)
  BY DEF IInv, TypeOK, On
<1>4. CounterInv'
  BY <1>3 DEF IInv, CounterInv
<1>5. RunInv'
  BY DEF IInv, TypeOK, RunInv
<1> QED BY <1>1, <1>2, <1>4, <1>5 DEF IInv

LEMMA EnterStep == ASSUME IInv, NEW c \in Clients, Enter(c) PROVE IInv'
<1> USE DEF publishVars
<1> PICK s : s = client[c].s
  OBVIOUS
<1>0. /\ sess \in [1..Len(sess) -> Sessions] /\ Len(sess) \in Nat /\ s \in 1..Len(sess)
      /\ serving \in 1..Len(sess) /\ sess[serving].alive
      /\ client \in [Clients -> ClientStates(Len(sess))]
      /\ client[c].pc = "read"
  BY SeqFun, HasSession DEF IInv, TypeOK, ServingInv, Enter
<1>1. /\ client' = [client EXCEPT ![c].pc = "run", ![c].late = serving # s]
      /\ UNCHANGED <<serving, sessions_, upd, version_, dirs>>
  BY DEF Enter
<1>c. /\ client' \in [Clients -> ClientStates(Len(sess))]
      /\ client'[c].pc = "run" /\ client'[c].s = s /\ client'[c].late = (serving # s)
      /\ \A b \in Clients : b # c => client'[b] = client[b]
  BY <1>0, <1>1 DEF ClientStates
<1>2. /\ sess' \in [1..Len(sess) -> Sessions]
      /\ \A q \in 1..Len(sess) : sess'[q].alive = sess[q].alive
      /\ \A q \in 1..Len(sess) : q # s => sess'[q] = sess[q]
      /\ sess[s].alive => sess'[s].counter_ = sess[s].counter_ + 1
  <2>1. CASE sess[s].alive
    <3>1. sess' = [sess EXCEPT ![s].counter_ = @ + 1]
      BY <2>1 DEF Enter
    <3>2. PICK r \in Sessions : r = sess[s]
      BY <1>0
    <3>3. PICK new : new = [r EXCEPT !.counter_ = @ + 1]
      OBVIOUS
    <3>4. new \in Sessions /\ new.counter_ = r.counter_ + 1 /\ new.alive = r.alive
      BY <3>3 DEF Sessions
    <3>5. sess' = [sess EXCEPT ![s] = new]
      BY <1>0, <3>1, <3>2, <3>3
    <3> QED BY <1>0, <3>2, <3>4, <3>5
  <2>2. CASE ~sess[s].alive
    <3>1. sess' = sess
      BY <2>2 DEF Enter
    <3> QED BY <1>0, <2>2, <3>1
  <2> QED BY <2>1, <2>2
<1>3. sess' \in Seq(Sessions) /\ Len(sess') = Len(sess)
  BY <1>0, <1>2, FunSeq
<1>4. TypeOK'
  BY <1>0, <1>1, <1>c, <1>3 DEF IInv, TypeOK
<1>5. ServingInv'
  <2>1. /\ sess'[serving].alive
        /\ sess[Len(sess)].alive => sess'[Len(sess)].alive
    BY <1>0, <1>2
  <2> QED BY <1>0, <1>1, <1>3, <2>1 DEF IInv, ServingInv
<1>6. CounterInv'
  <2>1. ASSUME NEW q \in 1..Len(sess), sess[q].alive
        PROVE  sess'[q].counter_ = Cardinality(On(q)')
    <3>0. sess[q].counter_ = Cardinality(On(q)) /\ sess[q].counter_ \in Nat
      BY <1>0, <2>1 DEF IInv, CounterInv, Sessions
    <3>1. CASE q = s
      <4>1. On(q)' = On(q) \cup {c} /\ c \notin On(q)
        BY <1>0, <1>c, <3>1 DEF On
      <4>2. Cardinality(On(q)') = Cardinality(On(q)) + 1
        BY <4>1, OnFinite, FS_AddElement
      <4> QED BY <1>2, <2>1, <3>0, <3>1, <4>2
    <3>2. CASE q # s
      <4>1. On(q)' = On(q)
        BY <1>0, <1>c, <3>2 DEF On
      <4> QED BY <1>2, <2>1, <3>0, <3>2, <4>1
    <3> QED BY <3>1, <3>2
  <2> QED BY <1>2, <1>3, <2>1 DEF CounterInv
<1>7. RunInv'
  <2>1. ASSUME NEW b \in Clients, b # c, client[b].pc = "run", ~client[b].late
        PROVE  sess'[client[b].s].alive
    <3>1. client[b].s \in 1..Len(sess) /\ sess[client[b].s].alive
      BY <2>1, HasSession DEF IInv, RunInv
    <3> QED BY <1>2, <3>1
  <2> QED BY <1>0, <1>c, <1>2, <2>1 DEF RunInv
<1> QED BY <1>4, <1>5, <1>6, <1>7 DEF IInv

LEMMA LeaveStep == ASSUME IInv, NEW c \in Clients, Leave(c) PROVE IInv'
<1> USE DEF publishVars
<1> PICK s : s = client[c].s
  OBVIOUS
<1>0. /\ sess \in [1..Len(sess) -> Sessions] /\ Len(sess) \in Nat /\ s \in 1..Len(sess)
      /\ serving \in 1..Len(sess) /\ sess[serving].alive
      /\ client \in [Clients -> ClientStates(Len(sess))]
      /\ client[c].pc = "run"
  BY SeqFun, HasSession DEF IInv, TypeOK, ServingInv, Leave
<1>1. /\ client' = [client EXCEPT ![c] = Away]
      /\ UNCHANGED <<serving, sessions_, upd, version_, dirs>>
  BY DEF Leave
<1>c. /\ client' \in [Clients -> ClientStates(Len(sess))]
      /\ client'[c].pc = "away"
      /\ \A b \in Clients : b # c => client'[b] = client[b]
  BY <1>0, <1>1 DEF Away, ClientStates
\* The client counted itself, so that the counter does not fall below zero.
<1>n. ASSUME NEW q \in 1..Len(sess), sess[q].alive, q = s
      PROVE  /\ sess[q].counter_ \in Nat \ {0}
             /\ Cardinality(On(q)') = sess[q].counter_ - 1
  <2>1. On(q)' = On(q) \ {c} /\ c \in On(q)
    BY <1>0, <1>c, <1>n DEF On
  <2>2. Cardinality(On(q)') = Cardinality(On(q)) - 1
    BY <2>1, OnFinite, FS_RemoveElement
  <2>3. IsFiniteSet(On(q)') /\ Cardinality(On(q)') \in Nat
    BY <2>1, OnFinite, FS_RemoveElement, FS_CardinalityType
  <2>4. sess[q].counter_ = Cardinality(On(q)) /\ sess[q].counter_ \in Nat
    BY <1>0, <1>n DEF IInv, CounterInv, Sessions
  <2> QED BY <2>2, <2>3, <2>4
<1>2. /\ sess' \in [1..Len(sess) -> Sessions]
      /\ \A q \in 1..Len(sess) : sess'[q].alive = sess[q].alive
      /\ \A q \in 1..Len(sess) : q # s => sess'[q] = sess[q]
      /\ sess[s].alive => sess'[s].counter_ = sess[s].counter_ - 1
  <2>1. CASE sess[s].alive
    <3>1. sess' = [sess EXCEPT ![s].counter_ = @ - 1]
      BY <2>1 DEF Leave
    <3>2. sess[s].counter_ \in Nat \ {0}
      BY <1>0, <1>n, <2>1
    <3>3. PICK r \in Sessions : r = sess[s]
      BY <1>0
    <3>4. PICK new : new = [r EXCEPT !.counter_ = @ - 1]
      OBVIOUS
    <3>5. new \in Sessions /\ new.counter_ = r.counter_ - 1 /\ new.alive = r.alive
      BY <3>2, <3>3, <3>4 DEF Sessions
    <3>6. sess' = [sess EXCEPT ![s] = new]
      BY <1>0, <3>1, <3>3, <3>4
    <3> QED BY <1>0, <3>3, <3>5, <3>6
  <2>2. CASE ~sess[s].alive
    <3>1. sess' = sess
      BY <2>2 DEF Leave
    <3> QED BY <1>0, <2>2, <3>1
  <2> QED BY <2>1, <2>2
<1>3. sess' \in Seq(Sessions) /\ Len(sess') = Len(sess)
  BY <1>0, <1>2, FunSeq
<1>4. TypeOK'
  BY <1>0, <1>1, <1>c, <1>3 DEF IInv, TypeOK
<1>5. ServingInv'
  <2>1. /\ sess'[serving].alive
        /\ sess[Len(sess)].alive => sess'[Len(sess)].alive
    BY <1>0, <1>2
  <2> QED BY <1>0, <1>1, <1>3, <2>1 DEF IInv, ServingInv
<1>6. CounterInv'
  <2>1. ASSUME NEW q \in 1..Len(sess), sess[q].alive
        PROVE  sess'[q].counter_ = Cardinality(On(q)')
    <3>1. CASE q = s
      BY <1>2, <1>n, <2>1, <3>1
    <3>2. CASE q # s
      <4>1. On(q)' = On(q)
        BY <1>0, <1>c, <3>2 DEF On
      <4>2. sess[q].counter_ = Cardinality(On(q)) /\ sess[q].counter_ \in Nat
        BY <1>0, <2>1 DEF IInv, CounterInv, Sessions
      <4> QED BY <1>2, <2>1, <3>2, <4>1, <4>2
    <3> QED BY <3>1, <3>2
  <2> QED BY <1>2, <1>3, <2>1 DEF CounterInv
<1>7. RunInv'
  <2>1. ASSUME NEW b \in Clients, b # c, client[b].pc = "run", ~client[b].late
        PROVE  sess'[client[b].s].alive
    <3>1. client[b].s \in 1..Len(sess) /\ sess[client[b].s].alive
      BY <2>1, HasSession DEF IInv, RunInv
    <3> QED BY <1>2, <3>1
  <2> QED BY <1>0, <1>c, <1>2, <2>1 DEF RunInv
<1> QED BY <1>4, <1>5, <1>6, <1>7 DEF IInv
-----------------------------------------------------------------------------
(* Deletion, by the clearing thread and by the updater. *)

\* Deleting sessions that nobody uses, the serving one not among them, takes no
\* session away from a client that entered in time.
LEMMA DeleteUnused ==
  ASSUME IInv, NEW S \in SUBSET (1..Len(sess)), \A s \in S : ~(sess[s].counter_ > 0),
         sess' = Deleted(S), client' = client
  PROVE  /\ sess' \in Seq(Sessions) /\ Len(sess') = Len(sess)
         /\ \A s \in 1..Len(sess) : s \notin S => sess'[s] = sess[s]
         /\ CounterInv' /\ RunInv'
<1>0. sess \in [1..Len(sess) -> Sessions] /\ Len(sess) \in Nat /\ DOMAIN sess = 1..Len(sess)
  BY SeqFun DEF IInv, TypeOK
<1>1. /\ sess' \in [1..Len(sess) -> Sessions]
      /\ \A s \in 1..Len(sess) : s \in S => ~sess'[s].alive
      /\ \A s \in 1..Len(sess) : s \notin S => sess'[s] = sess[s]
  BY <1>0 DEF Deleted, Sessions
<1>2. sess' \in Seq(Sessions) /\ Len(sess') = Len(sess)
  BY <1>0, <1>1, FunSeq
<1>3. CounterInv'
  BY <1>0, <1>1, <1>2 DEF IInv, CounterInv, On
<1>4. ASSUME NEW s \in S, sess[s].alive
      PROVE  On(s) = {}
  <2>1. Cardinality(On(s)) = 0
    BY <1>0, <1>4 DEF IInv, CounterInv, Sessions
  <2> QED BY <2>1, OnFinite, FS_EmptySet
<1>5. RunInv'
  <2> SUFFICES ASSUME NEW c \in Clients, client[c].pc = "run", ~client[c].late
               PROVE  sess'[client[c].s].alive
    BY DEF RunInv
  <2>1. client[c].s \in 1..Len(sess) /\ sess[client[c].s].alive /\ c \in On(client[c].s)
    BY HasSession DEF IInv, RunInv, On
  <2> QED BY <1>1, <1>4, <2>1
<1> QED BY <1>1, <1>2, <1>3, <1>5

LEMMA CleanupStep == ASSUME IInv, CleanupModelSession PROVE IInv'
<1> PICK idle : idle = {s \in sessions_ : Unused(s)}
  OBVIOUS
<1>0. /\ sess \in [1..Len(sess) -> Sessions] /\ Len(sess) \in Nat
      /\ serving \in 1..Len(sess) /\ sessions_ \in SUBSET (1..Len(sess))
  BY SeqFun DEF IInv, TypeOK
<1>1. idle \in SUBSET (1..Len(sess)) /\ \A s \in idle : ~(sess[s].counter_ > 0)
  <2>1. \A s \in 1..Len(sess) : sess[s].counter_ \in Nat
    BY <1>0 DEF Sessions
  <2>2. idle \subseteq sessions_ /\ \A s \in idle : sess[s].counter_ <= 0
    BY DEF Unused
  <2>3. idle \in SUBSET (1..Len(sess))
    BY <1>0, <2>2
  <2>4. ASSUME NEW s \in idle PROVE ~(sess[s].counter_ > 0)
    BY <2>1, <2>2, <2>3
  <2> QED BY <2>3, <2>4
<1>2. /\ sess' = Deleted(idle) /\ sessions_' = sessions_ \ idle
      /\ UNCHANGED <<dirs, serving, version_, upd, client>>
  BY DEF CleanupModelSession, publishVars
<1>3. /\ sess' \in Seq(Sessions) /\ Len(sess') = Len(sess)
      /\ \A s \in 1..Len(sess) : s \notin idle => sess'[s] = sess[s]
      /\ CounterInv' /\ RunInv'
  BY <1>1, <1>2, DeleteUnused
<1>4. TypeOK'
  BY <1>0, <1>2, <1>3 DEF IInv, TypeOK
<1>5. ServingInv'
  <2>1. serving \notin idle /\ sess'[serving] = sess[serving]
    BY <1>0, <1>3 DEF IInv, ServingInv
  <2>2. upd.pc = "swap" => sess'[Len(sess)] = sess[Len(sess)]
    <3>1. Len(sess) \in 1..Len(sess)
      BY <1>0
    <3> QED BY <1>3, <3>1 DEF IInv, ServingInv
  <2> QED BY <1>2, <1>3, <2>1, <2>2 DEF IInv, ServingInv
<1> QED BY <1>3, <1>4, <1>5 DEF IInv

LEMMA RetireStep == ASSUME IInv, RetireOld PROVE IInv'
<1> PICK s : s = upd.old
  OBVIOUS
<1>0. /\ sess \in [1..Len(sess) -> Sessions] /\ Len(sess) \in Nat
      /\ serving \in 1..Len(sess) /\ sessions_ \in SUBSET (1..Len(sess))
      /\ upd \in Updaters(Len(sess))
      /\ s # 0 /\ s # serving /\ upd.pc = "retire"
  BY SeqFun DEF IInv, TypeOK, ServingInv, RetireOld
<1>s. s \in 1..Len(sess) /\ upd.v \in Models
  BY <1>0, UpdaterFields
<1>1. /\ upd'.pc \in {"sleep", "delta"}
      /\ upd' \in Updaters(Len(sess))
      /\ version_' \in Models
      /\ UNCHANGED <<dirs, serving, client>>
  <2>1. CASE upd' = Sleeping
    BY <1>0, <1>s, <2>1, SleepingUpdater DEF RetireOld, publishVars
  <2>2. CASE upd' = [upd EXCEPT !.pc = "delta"]
    <3>1. "delta" \in UpdaterPCs
      BY DEF UpdaterPCs
    <3> QED BY <1>0, <1>s, <2>2, <3>1, UpdaterAt DEF RetireOld, publishVars
  <2> QED BY <2>1, <2>2 DEF RetireOld
<1>2. CASE InUse(s)
  <2>1. sessions_' = sessions_ \cup {s} /\ sess' = sess
    BY <1>2 DEF RetireOld
  <2>2. TypeOK'
    BY <1>0, <1>s, <1>1, <2>1 DEF IInv, TypeOK
  <2>3. ServingInv'
    BY <1>0, <1>1, <2>1 DEF IInv, ServingInv
  <2>4. CounterInv' /\ RunInv'
    BY <1>1, <2>1 DEF IInv, CounterInv, RunInv, On
  <2> QED BY <2>2, <2>3, <2>4 DEF IInv
<1>3. CASE ~InUse(s)
  <2>1. sess' = Deleted({s}) /\ sessions_' = sessions_
    BY <1>3 DEF RetireOld
  <2>2. /\ sess' \in Seq(Sessions) /\ Len(sess') = Len(sess)
        /\ \A q \in 1..Len(sess) : q \notin {s} => sess'[q] = sess[q]
        /\ CounterInv' /\ RunInv'
    <3>1. {s} \in SUBSET (1..Len(sess)) /\ \A q \in {s} : ~(sess[q].counter_ > 0)
      BY <1>0, <1>s, <1>3 DEF InUse
    <3> QED BY <1>1, <2>1, <3>1, DeleteUnused
  <2>3. TypeOK'
    BY <1>0, <1>1, <2>1, <2>2 DEF IInv, TypeOK
  <2>4. ServingInv'
    BY <1>0, <1>1, <2>1, <2>2 DEF IInv, ServingInv
  <2> QED BY <2>2, <2>3, <2>4 DEF IInv
<1> QED BY <1>2, <1>3

-----------------------------------------------------------------------------
(* The updater. *)

LEMMA ScanStep == ASSUME IInv, ScanFull \/ ScanFails \/ ScanDelta PROVE IInv'
<1> USE DEF sessionVars, publishVars
<1>0. /\ dirs \in Seq(Dirs) /\ Len(dirs) \in Nat \ {0}
      /\ upd \in Updaters(Len(sess))
      /\ Len(sess) \in Nat
  BY SeqFun DEF IInv, TypeOK
<1>1. CASE ScanFull
  <2>1. /\ upd'.pc = "scanned" /\ upd'.v.dir \in 1..Len(dirs)
        /\ upd' \in Updaters(Len(sess))
    <3>1. dirs[Latest] \in Dirs /\ Latest \in 1..Len(dirs)
      BY <1>0, SeqFun DEF Latest
    <3>2. PICK v : v = Model(Latest, dirs[Latest].full, 0)
      OBVIOUS
    <3>3. v \in Models /\ v.dir = Latest
      BY <3>1, <3>2 DEF Model, Models, Dirs
    <3>4. upd' = [upd EXCEPT !.pc = "scanned", !.v = v]
      BY <1>1, <3>2 DEF ScanFull
    <3>5. "scanned" \in UpdaterPCs
      BY DEF UpdaterPCs
    <3>6. upd' \in Updaters(Len(sess)) /\ upd'.pc = "scanned" /\ upd'.v = v
      BY <1>0, <3>3, <3>4, <3>5 DEF Updaters
    <3> QED BY <3>1, <3>3, <3>6
  <2>2. TypeOK'
    BY <1>1, <2>1 DEF ScanFull, IInv, TypeOK
  <2> QED BY <1>1, <2>1, <2>2, SameSessions DEF ScanFull
<1>2. CASE ScanFails
  <2>1. TypeOK'
    BY <1>2 DEF ScanFails, IInv, TypeOK
  <2> QED BY <1>2, <2>1, SameSessions DEF ScanFails
<1>3. CASE ScanDelta
  <2>1. upd.v.dir \in 1..Len(dirs) /\ upd.v \in Models
    BY <1>0, <1>3, UpdaterFields DEF ScanDelta, IInv, TypeOK
  <2>2. PICK v \in Models : Decide(v)
    <3>1. dirs[upd.v.dir] \in Dirs
      BY <1>0, <2>1, SeqFun
    <3>2. PICK delta \in Nat :
                 \/ Decide([upd.v EXCEPT !.delta = delta])
                 \/ Decide(upd.v)
      BY <1>3, <3>1 DEF ScanDelta, Dirs
    <3> QED BY <2>1, <3>2, ModelFields
  <2>3. /\ upd'.pc \in {"full", "delta", "sleep"}
        /\ upd' \in Updaters(Len(sess))
    <3>1. \/ upd' = [upd EXCEPT !.pc = "full", !.v = v]
          \/ upd' = [upd EXCEPT !.pc = "delta", !.v = v]
          \/ upd' = Sleeping
      BY <2>2 DEF Decide
    <3>2. "full" \in UpdaterPCs /\ "delta" \in UpdaterPCs
      BY DEF UpdaterPCs
    <3>3. CASE upd' = [upd EXCEPT !.pc = "full", !.v = v]
      BY <1>0, <3>2, <3>3 DEF Updaters
    <3>4. CASE upd' = [upd EXCEPT !.pc = "delta", !.v = v]
      BY <1>0, <3>2, <3>4 DEF Updaters
    <3>5. CASE upd' = Sleeping
      BY <1>0, <3>5, SleepingUpdater
    <3> QED BY <3>1, <3>3, <3>4, <3>5
  <2>4. TypeOK'
    BY <1>3, <2>3 DEF ScanDelta, IInv, TypeOK
  <2> QED BY <1>3, <2>3, <2>4, SameSessions DEF ScanDelta
<1> QED BY <1>1, <1>2, <1>3

LEMMA CreateStep == ASSUME IInv, CreateModelSession PROVE IInv'
<1> USE DEF publishVars
<1>0. /\ sess \in Seq(Sessions) /\ sess \in [1..Len(sess) -> Sessions] /\ Len(sess) \in Nat
      /\ serving \in 1..Len(sess) /\ sessions_ \in SUBSET (1..Len(sess))
      /\ upd \in Updaters(Len(sess))
      /\ UNCHANGED <<dirs, serving, sessions_, version_, client>>
  BY SeqFun DEF IInv, TypeOK, CreateModelSession
<1>1. CASE /\ sess' = Append(sess, NewSession(Model(upd.v.dir, upd.v.full, 0)))
           /\ upd' = [upd EXCEPT !.pc = "swap"]
  <2>1. PICK new : new = NewSession(Model(upd.v.dir, upd.v.full, 0))
    OBVIOUS
  <2>2. new \in Sessions /\ new.alive /\ new.counter_ = 0
    BY <1>0, <2>1, UpdaterFields, ModelFields DEF NewSession, Sessions
  <2>3. /\ sess' \in Seq(Sessions) /\ Len(sess') = Len(sess) + 1
        /\ \A q \in 1..Len(sess) : sess'[q] = sess[q]
        /\ sess'[Len(sess) + 1] = new
    BY <1>0, <1>1, <2>1, <2>2
  <2>u. /\ upd'.pc = "swap"
        /\ upd' \in Updaters(Len(sess'))
    <3>1. "swap" \in UpdaterPCs
      BY DEF UpdaterPCs
    <3> QED BY <1>0, <1>1, <2>3, <3>1, UpdaterAt, UpdaterFields
  <2>c. client' \in [Clients -> ClientStates(Len(sess'))]
    BY <1>0, <2>3 DEF IInv, TypeOK, ClientStates
  <2>4. TypeOK'
    BY <1>0, <2>3, <2>u, <2>c DEF IInv, TypeOK
  <2>5. ServingInv'
    <3>1. sess'[serving] = sess[serving] /\ sess'[Len(sess')].alive
      BY <1>0, <2>2, <2>3
    <3>2. Len(sess') # serving /\ Len(sess') \notin sessions_
      BY <1>0, <2>3
    <3> QED BY <1>0, <2>u, <3>1, <3>2 DEF IInv, ServingInv
  <2>6. On(Len(sess) + 1) = {} /\ \A q : On(q)' = On(q)
    <3>1. \A c \in Clients : client[c].pc = "run" => client[c].s # Len(sess) + 1
      BY <1>0, HasSession DEF IInv
    <3> QED BY <1>0, <3>1 DEF On
  <2>7. Cardinality({}) = 0
    BY FS_EmptySet
  <2>8. CounterInv'
    <3>1. ASSUME NEW q \in 1..Len(sess), sess[q].alive
          PROVE  sess'[q].counter_ = Cardinality(On(q)')
      BY <2>3, <2>6, <3>1 DEF IInv, CounterInv
    <3> PICK last : last = Len(sess) + 1
      OBVIOUS
    <3>2. sess'[last].counter_ = Cardinality(On(last)')
      <4>1. On(last)' = {}
        BY <2>6
      <4>2. sess'[Len(sess) + 1].counter_ = 0
        BY <2>2, <2>3
      <4> QED BY <2>7, <4>1, <4>2
    <3>3. \A q \in 1..(Len(sess) + 1) : q \in 1..Len(sess) \/ q = Len(sess) + 1
      BY <1>0
    <3>4. \A q \in 1..(Len(sess) + 1) :
            sess'[q].alive => sess'[q].counter_ = Cardinality(On(q)')
      <4> SUFFICES ASSUME NEW q \in 1..(Len(sess) + 1), sess'[q].alive
                   PROVE  sess'[q].counter_ = Cardinality(On(q)')
        OBVIOUS
      <4>1. CASE q \in 1..Len(sess)
        BY <2>3, <3>1, <4>1
      <4>2. CASE q = Len(sess) + 1
        BY <3>2, <4>2
      <4> QED BY <3>3, <4>1, <4>2
    <3> QED BY <2>3, <3>4 DEF CounterInv
  <2>9. RunInv'
    BY <1>0, <2>3, HasSession DEF IInv, RunInv
  <2> QED BY <2>4, <2>5, <2>8, <2>9 DEF IInv
<1>2. CASE upd' = Sleeping /\ UNCHANGED sess
  <2>1. /\ upd'.pc = "sleep"
        /\ upd' \in Updaters(Len(sess))
    BY <1>0, <1>2, SleepingUpdater
  <2>2. TypeOK'
    BY <1>0, <1>2, <2>1 DEF IInv, TypeOK
  <2> QED BY <1>0, <1>2, <2>1, <2>2, SameSessions
<1> QED BY <1>1, <1>2 DEF CreateModelSession

LEMMA SwapStep == ASSUME IInv, SwapServing PROVE IInv'
<1> USE DEF publishVars
<1>0. /\ sess \in Seq(Sessions) /\ Len(sess) \in Nat
      /\ serving \in 1..Len(sess) /\ sessions_ \in SUBSET (1..Len(sess))
      /\ upd \in Updaters(Len(sess))
      /\ upd.pc = "swap" /\ sess[Len(sess)].alive
      /\ Len(sess) # serving /\ Len(sess) \notin sessions_
  BY SeqFun DEF IInv, TypeOK, ServingInv, SwapServing
<1>1. /\ serving' = Len(sess)
      /\ upd' = [upd EXCEPT !.pc = "retire", !.old = serving]
      /\ UNCHANGED <<dirs, sess, sessions_, version_, client>>
  BY DEF SwapServing
<1>2. /\ upd'.pc = "retire" /\ upd'.old = serving
      /\ upd' \in Updaters(Len(sess))
  <2>1. "retire" \in UpdaterPCs /\ serving \in 0..Len(sess)
    BY <1>0 DEF UpdaterPCs
  <2> QED BY <1>0, <1>1, <2>1 DEF Updaters
<1>3. TypeOK'
  BY <1>0, <1>1, <1>2 DEF IInv, TypeOK
<1>4. ServingInv'
  BY <1>0, <1>1, <1>2 DEF ServingInv
<1>5. CounterInv' /\ RunInv'
  BY <1>1 DEF IInv, CounterInv, RunInv, On
<1> QED BY <1>3, <1>4, <1>5 DEF IInv

\* A delta restore changes the model of the session that serves.
LEMMA DeltaStep == ASSUME IInv, DeltaBegin \/ DeltaEnd PROVE IInv'
<1> USE DEF publishVars
<1>0. /\ sess \in [1..Len(sess) -> Sessions] /\ Len(sess) \in Nat
      /\ serving \in 1..Len(sess)
      /\ upd \in Updaters(Len(sess))
      /\ UNCHANGED <<dirs, serving, sessions_, client>>
  BY SeqFun DEF IInv, TypeOK, DeltaBegin, DeltaEnd
<1>1. /\ upd'.pc \in {"restoring", "sleep"}
      /\ upd' \in Updaters(Len(sess))
  <2>1. upd' = [upd EXCEPT !.pc = "restoring"] \/ upd' = Sleeping
    BY DEF DeltaBegin, DeltaEnd
  <2>2. "restoring" \in UpdaterPCs
    BY DEF UpdaterPCs
  <2> QED BY <1>0, <2>1, <2>2, UpdaterAt, SleepingUpdater
<1>2. version_' \in Models
  <2>1. version_ \in Models /\ upd.v \in Models
    BY <1>0, UpdaterFields DEF IInv, TypeOK
  <2> QED BY <2>1 DEF DeltaBegin, DeltaEnd
<1>3. /\ sess' \in [1..Len(sess) -> Sessions]
      /\ \A q \in 1..Len(sess) :
           sess'[q].alive = sess[q].alive /\ sess'[q].counter_ = sess[q].counter_
  <2>1. CASE sess' = sess
    BY <1>0, <2>1
  <2>2. CASE sess' = [sess EXCEPT ![serving].whole = FALSE]
    BY <1>0, <2>2 DEF Sessions
  <2>3. CASE sess' = [sess EXCEPT ![serving].whole = TRUE, ![serving].model.delta = upd.v.delta]
    <3>1. upd.v.delta \in Nat
      BY <1>0, UpdaterFields, ModelFields
    <3>2. PICK t \in Sessions : t = sess[serving]
      BY <1>0
    <3>3. PICK new : new = [t EXCEPT !.whole = TRUE, !.model.delta = upd.v.delta]
      OBVIOUS
    <3>4. new \in Sessions /\ new.alive = t.alive /\ new.counter_ = t.counter_
      BY <3>1, <3>3 DEF Sessions, Models
    <3>5. sess' = [sess EXCEPT ![serving] = new]
      BY <1>0, <2>3, <3>2, <3>3 DEF Sessions
    <3> QED BY <1>0, <3>2, <3>4, <3>5
  <2> QED BY <2>1, <2>2, <2>3 DEF DeltaBegin, DeltaEnd
<1>4. sess' \in Seq(Sessions) /\ Len(sess') = Len(sess)
  BY <1>0, <1>3, FunSeq
<1>5. TypeOK'
  BY <1>0, <1>1, <1>2, <1>4 DEF IInv, TypeOK
<1>6. ServingInv'
  BY <1>0, <1>1, <1>3, <1>4 DEF IInv, ServingInv
<1>7. CounterInv'
  BY <1>0, <1>3, <1>4 DEF IInv, CounterInv, On
<1>8. RunInv'
  BY <1>0, <1>3, HasSession DEF IInv, RunInv
<1> QED BY <1>5, <1>6, <1>7, <1>8 DEF IInv

-----------------------------------------------------------------------------
LEMMA NextIInv == IInv /\ [Next]_vars => IInv'
<1> SUFFICES ASSUME IInv, [Next]_vars PROVE IInv'
  OBVIOUS
<1>1. CASE Publish
  BY <1>1, PublishStep
<1>2. ASSUME NEW c \in Clients, ReadServing(c) \/ ClientNext(c) PROVE IInv'
  BY <1>2, ReadServingStep, EnterStep, LeaveStep DEF ClientNext
<1>3. CASE UpdaterNext
  BY <1>3, ScanStep, CreateStep, SwapStep, RetireStep, DeltaStep DEF UpdaterNext
<1>4. CASE CleanupModelSession
  BY <1>4, CleanupStep
<1>5. CASE UNCHANGED vars
  <2>1. TypeOK'
    BY <1>5 DEF vars, IInv, TypeOK
  <2> QED BY <1>5, <2>1, SameSessions DEF vars
<1> QED BY <1>1, <1>2, <1>3, <1>4, <1>5 DEF Next

\* The inductive invariant holds in every reachable state (model_session.cc and
\* model_instance.cc).
THEOREM InductiveInvariant == Spec => []IInv
<1>1. Spec => Init /\ [][Next]_vars
  BY PTL DEF Spec
<1> QED BY <1>1, InitIInv, NextIInv, PTL

\* A client that began to run on a session while it served never has it deleted
\* under it, for any number of clients, checkpoints and failures
\* (ResetServingSession and CleanupModelSession of model_session.cc).
THEOREM NoSessionDeletedUnderClient == Spec => []RunningSessionAlive
<1>1. IInv => RunningSessionAlive
  BY DEF IInv, RunInv, RunningSessionAlive
<1> QED BY <1>1, InductiveInvariant, PTL
=============================================================================

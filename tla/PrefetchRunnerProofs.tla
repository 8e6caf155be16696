------------------------ MODULE PrefetchRunnerProofs ------------------------
(***************************************************************************)
(* Proofs about the PrefetchRunner and its TensorBuf: thread_nums_ is      *)
(* exact, no sample is taken twice, and "EOF reached." means that the      *)
(* input is drained.                                                       *)
(***************************************************************************)
EXTENDS PrefetchRunner, FiniteSetTheorems, TLAPS

\* The workers that have not ended, those the loop of Start() left out included.
NotEnded == {w \in Workers : ended[w] = "none"}

\* thread_nums_ counts them, and a worker has ended exactly when Run is past its
\* decrement.
CountInv ==
  /\ runs > 0 => thread_nums_ = Cardinality(NotEnded)
  /\ mgr = "stopped" => \A w \in Workers : wpc[w] \in {"none", "Done"}
  /\ runs = 0 => mgr = "stopped" /\ \A w \in Workers : wpc[w] = "none"
  /\ \A w \in Workers : ended[w] # "none" <=> wpc[w] \in {"CloseOp", "Done"}

\* Only workers inside of the prefetch subgraph are in Put, only takers in Take.
ThreadInv ==
  \A t \in Threads :
    /\ pc[t] \in {"Put", "PutWait"} => t \in Workers /\ wpc[t] = "PutDone"
    /\ pc[t] \in {"Take", "TakeWait"} => t \in Takers

\* The workers that carry a sample they have not pushed, and their samples.
Carrying == {w \in Workers : pc[w] \in {"Put", "PutWait"}}
Carried == {record[w] : w \in Carrying}

\* Every sample handed out is in one place: taken, in the buffer, carried, or lost.
SampleInv ==
  /\ IsInjective(taken) /\ IsInjective(buffer)
  /\ ToSet(taken) \cap ToSet(buffer) = {}
  /\ Carried \cap (ToSet(taken) \cup ToSet(buffer)) = {}
  /\ \A v, w \in Carrying : record[v] = record[w] => v = w
  /\ ToSet(taken) \cup ToSet(buffer) \cup Carried \cup lost = 1..(next_sample - 1)

\* The worker that closes the buffer is the last one, and a buffer closed in this
\* run has no worker left.
CloseInv ==
  /\ \A w \in Workers : wpc[w] = "CloseOp" => \A v \in Workers : v # w => wpc[v] = "Done"
  /\ is_closed /\ ~was_closed => \A w \in Workers : wpc[w] = "Done"

\* EOF is told of a closed buffer, which is empty unless it was closed before.
EofInv ==
  /\ eof # {} => is_closed
  /\ eof # {} /\ ~was_closed => buffer = <<>>

IInv == TypeOK /\ CountInv /\ ThreadInv /\ SampleInv /\ CloseInv /\ EofInv
-----------------------------------------------------------------------------
(* Sequences. *)

LEMMA SeqAppend ==
  ASSUME NEW S, NEW s \in Seq(S), NEW e \in S
  PROVE  /\ Append(s, e) \in Seq(S) /\ Len(Append(s, e)) = Len(s) + 1
         /\ ToSet(Append(s, e)) = ToSet(s) \cup {e}
         /\ IsInjective(s) /\ e \notin ToSet(s) => IsInjective(Append(s, e))
<1>0. /\ Append(s, e) \in Seq(S) /\ Len(Append(s, e)) = Len(s) + 1 /\ Len(s) \in Nat
      /\ DOMAIN s = 1..Len(s) /\ DOMAIN Append(s, e) = 1..(Len(s) + 1)
      /\ \A i \in 1..Len(s) : Append(s, e)[i] = s[i]
      /\ Append(s, e)[Len(s) + 1] = e
  OBVIOUS
<1>1. \A i \in 1..(Len(s) + 1) : i \in 1..Len(s) \/ i = Len(s) + 1
  BY <1>0
<1>2. ToSet(Append(s, e)) = ToSet(s) \cup {e}
  BY <1>0, <1>1 DEF ToSet
<1>3. ASSUME IsInjective(s), e \notin ToSet(s)
      PROVE  IsInjective(Append(s, e))
  BY <1>0, <1>1, <1>3 DEF IsInjective, ToSet
<1> QED BY <1>0, <1>2, <1>3

LEMMA SeqTail ==
  ASSUME NEW S, NEW s \in Seq(S), s # <<>>
  PROVE  /\ Tail(s) \in Seq(S) /\ Len(Tail(s)) = Len(s) - 1 /\ Len(s) \in Nat
         /\ Head(s) \in S /\ ToSet(s) = {Head(s)} \cup ToSet(Tail(s))
         /\ IsInjective(s) => IsInjective(Tail(s)) /\ Head(s) \notin ToSet(Tail(s))
<1>0. /\ Tail(s) \in Seq(S) /\ Len(Tail(s)) = Len(s) - 1 /\ Len(s) \in Nat \ {0}
      /\ DOMAIN s = 1..Len(s) /\ DOMAIN Tail(s) = 1..(Len(s) - 1)
      /\ \A i \in 1..(Len(s) - 1) : Tail(s)[i] = s[i + 1]
      /\ Head(s) = s[1] /\ Head(s) \in S
  OBVIOUS
<1>1. /\ 1 \in 1..Len(s) /\ \A i \in 1..(Len(s) - 1) : i + 1 \in 1..Len(s)
      /\ \A i \in 1..Len(s) : i = 1 \/ (i - 1 \in 1..(Len(s) - 1) /\ (i - 1) + 1 = i)
      /\ \A i, j \in 1..(Len(s) - 1) : i + 1 # 1 /\ (i + 1 = j + 1 => i = j)
  BY <1>0
<1>2. ToSet(s) = {Head(s)} \cup ToSet(Tail(s))
  <2>1. ASSUME NEW i \in 1..Len(s) PROVE s[i] \in {Head(s)} \cup ToSet(Tail(s))
    <3>1. CASE i = 1
      BY <1>0, <3>1
    <3>2. CASE i - 1 \in 1..(Len(s) - 1) /\ (i - 1) + 1 = i
      BY <1>0, <3>2 DEF ToSet
    <3> QED BY <1>1, <3>1, <3>2
  <2>2. ASSUME NEW i \in 1..(Len(s) - 1) PROVE Tail(s)[i] \in ToSet(s)
    BY <1>0, <1>1 DEF ToSet
  <2>3. Head(s) \in ToSet(s)
    BY <1>0, <1>1 DEF ToSet
  <2>4. ToSet(s) \subseteq {Head(s)} \cup ToSet(Tail(s))
    BY <1>0, <2>1 DEF ToSet
  <2>5. ToSet(Tail(s)) \subseteq ToSet(s)
    BY <1>0, <2>2 DEF ToSet
  <2> QED BY <2>3, <2>4, <2>5
<1>3. ASSUME IsInjective(s)
      PROVE  IsInjective(Tail(s)) /\ Head(s) \notin ToSet(Tail(s))
  BY <1>0, <1>1, <1>3 DEF IsInjective, ToSet
<1> QED BY <1>0, <1>2, <1>3

LEMMA SeqEmpty == ToSet(<<>>) = {} /\ IsInjective(<<>>)
BY DEF ToSet, IsInjective

-----------------------------------------------------------------------------
(* Where the samples are. *)

\* The calls and the notifications that move no sample.
LEMMA SamplesStay ==
  ASSUME SampleInv, UNCHANGED <<taken, buffer, lost, next_sample>>,
         Carrying' = Carrying, \A w \in Carrying : record'[w] = record[w]
  PROVE  SampleInv'
<1>1. Carried' = Carried
  BY DEF Carried
<1>2. \A v, w \in Carrying' : record'[v] = record'[w] => v = w
  BY DEF SampleInv
<1> QED BY <1>1, <1>2 DEF SampleInv

\* A worker gets the next sample.
LEMMA SampleFetched ==
  ASSUME SampleInv, next_sample \in Nat \ {0}, NEW w \in Workers, w \notin Carrying,
         Carrying' = Carrying \cup {w}, record'[w] = next_sample,
         \A v \in Carrying : record'[v] = record[v],
         next_sample' = next_sample + 1, UNCHANGED <<taken, buffer, lost>>
  PROVE  SampleInv'
<1>1. Carried' = Carried \cup {next_sample}
  BY DEF Carried
<1>2. next_sample \notin ToSet(taken) \cup ToSet(buffer) \cup Carried \cup lost
  BY DEF SampleInv
<1>3. \A u, v \in Carrying' : record'[u] = record'[v] => u = v
  BY <1>2 DEF SampleInv, Carried
<1>4. 1..(next_sample' - 1) = 1..(next_sample - 1) \cup {next_sample}
  OBVIOUS
<1>5. Carried' \cap (ToSet(taken) \cup ToSet(buffer)) = {}
  BY <1>1, <1>2 DEF SampleInv
<1>6. ToSet(taken) \cup ToSet(buffer) \cup Carried' \cup lost = 1..(next_sample' - 1)
  BY <1>1, <1>4 DEF SampleInv
<1> QED BY <1>3, <1>5, <1>6 DEF SampleInv

\* A worker hands its sample on, to the buffer or to nobody.
LEMMA SampleLeaves ==
  ASSUME SampleInv, buffer \in Seq(Records), NEW w \in Carrying, record[w] \in Records,
         Carrying' = Carrying \ {w}, \A v \in Carrying' : record'[v] = record[v],
         UNCHANGED <<taken, next_sample>>,
         \/ buffer' = Append(buffer, record[w]) /\ lost' = lost
         \/ buffer' = buffer /\ lost' = lost \cup {record[w]}
  PROVE  SampleInv'
<1> PICK r : r = record[w]
  OBVIOUS
<1>1. Carried' = Carried \ {r} /\ r \in Carried
  BY DEF Carried, SampleInv
<1>2. \A u, v \in Carrying' : record'[u] = record'[v] => u = v
  BY DEF SampleInv
<1>3. r \notin ToSet(taken) /\ r \notin ToSet(buffer)
  BY <1>1 DEF SampleInv
<1>4. CASE buffer' = Append(buffer, r) /\ lost' = lost
  <2>1. ToSet(buffer') = ToSet(buffer) \cup {r} /\ IsInjective(buffer')
    BY <1>3, <1>4, SeqAppend DEF SampleInv
  <2>2. ToSet(taken) \cap ToSet(buffer') = {}
    BY <1>3, <2>1 DEF SampleInv
  <2>3. Carried' \cap (ToSet(taken) \cup ToSet(buffer')) = {}
    BY <1>1, <1>3, <2>1 DEF SampleInv
  <2>4. ToSet(taken) \cup ToSet(buffer') \cup Carried' \cup lost = 1..(next_sample - 1)
    BY <1>1, <2>1 DEF SampleInv
  <2> QED BY <1>2, <1>4, <2>1, <2>2, <2>3, <2>4 DEF SampleInv
<1>5. CASE buffer' = buffer /\ lost' = lost \cup {r}
  <2>1. Carried' \cap (ToSet(taken) \cup ToSet(buffer)) = {}
    BY <1>1 DEF SampleInv
  <2>2. ToSet(taken) \cup ToSet(buffer) \cup Carried' \cup lost' = 1..(next_sample - 1)
    BY <1>1, <1>5 DEF SampleInv
  <2> QED BY <1>2, <1>5, <2>1, <2>2 DEF SampleInv
<1> QED BY <1>4, <1>5

\* A taker pops the first sample of the buffer.
LEMMA SampleTaken ==
  ASSUME SampleInv, buffer \in Seq(Records), taken \in Seq(Records), buffer # <<>>,
         buffer' = Tail(buffer), taken' = Append(taken, Head(buffer)),
         Carrying' = Carrying, \A w \in Carrying : record'[w] = record[w],
         UNCHANGED <<lost, next_sample>>
  PROVE  SampleInv'
<1> PICK h : h = Head(buffer)
  OBVIOUS
<1>1. Carried' = Carried
  BY DEF Carried
<1>2. \A v, w \in Carrying' : record'[v] = record'[w] => v = w
  BY DEF SampleInv
<1>3. /\ h \in Records /\ ToSet(buffer) = {h} \cup ToSet(buffer')
      /\ IsInjective(buffer') /\ h \notin ToSet(buffer')
  BY SeqTail DEF SampleInv
<1>4. h \notin ToSet(taken)
  BY <1>3 DEF SampleInv
<1>5. ToSet(taken') = ToSet(taken) \cup {h} /\ IsInjective(taken')
  BY <1>3, <1>4, SeqAppend DEF SampleInv
<1>6. ToSet(taken') \cap ToSet(buffer') = {}
  BY <1>3, <1>5 DEF SampleInv
<1>7. ToSet(taken') \cup ToSet(buffer') = ToSet(taken) \cup ToSet(buffer)
  BY <1>3, <1>5
<1> QED BY <1>1, <1>2, <1>3, <1>5, <1>6, <1>7 DEF SampleInv
-----------------------------------------------------------------------------
(* The buffer and the samples, under every step. *)

SampleTypeOK == next_sample \in 1..(MaxSamples + 1) /\ lost \subseteq Records
BufferInv == BufTypeOK /\ SampleTypeOK /\ ThreadInv /\ SampleInv

LEMMA CarriedRecords ==
  ASSUME SampleInv, SampleTypeOK, NEW w \in Carrying
  PROVE  record[w] \in Records
<1>1. record[w] \in 1..(next_sample - 1)
  BY DEF SampleInv, Carried
<1> QED BY <1>1, SamplesAssumption DEF SampleTypeOK

\* Steps outside of the buffer.
LEMMA BufferStays ==
  ASSUME BufferInv, UNCHANGED <<bufVars, next_sample, lost>>,
         \A w \in Workers : wpc[w] = "PutDone" => wpc'[w] = "PutDone" \/ pc[w] = "idle"
  PROVE  BufferInv'
<1> USE DEF bufVars
<1>1. BufTypeOK' /\ SampleTypeOK'
  BY DEF BufferInv, BufTypeOK, SampleTypeOK
<1>2. ThreadInv'
  BY ThreadsAssumption DEF BufferInv, ThreadInv
<1>3. Carrying' = Carrying /\ \A w \in Carrying : record'[w] = record[w]
  BY DEF Carrying
<1>4. SampleInv'
  BY <1>3, SamplesStay DEF BufferInv
<1> QED BY <1>1, <1>2, <1>4 DEF BufferInv

\* Cancel, Close and the call of Take, which begin on an idle thread.
LEMMA BufferCall ==
  ASSUME BufferInv, NEW t \in Threads, pc[t] = "idle",
         NEW to \in {"NotifyBoth", "Take"}, pc' = [pc EXCEPT ![t] = to],
         to = "Take" => t \in Takers,
         \A u \in Threads : u \in Workers => record'[u] = record[u],
         BufTypeOK', UNCHANGED <<buffer, taken, next_sample, lost>>,
         \A w \in Workers : wpc[w] = "PutDone" => wpc'[w] = "PutDone" \/ pc[w] = "idle"
  PROVE  BufferInv'
<1>0. pc \in [Threads -> PCs] /\ Workers \subseteq Threads /\ Takers \subseteq Threads
  BY ThreadsAssumption DEF BufferInv, BufTypeOK
<1>1. ThreadInv'
  BY <1>0 DEF BufferInv, ThreadInv
<1>2. Carrying' = Carrying /\ \A w \in Carrying : record'[w] = record[w]
  BY <1>0 DEF Carrying
<1>3. SampleInv'
  BY <1>2, SamplesStay DEF BufferInv
<1>4. SampleTypeOK'
  BY DEF BufferInv, SampleTypeOK
<1> QED BY <1>1, <1>3, <1>4 DEF BufferInv

LEMMA CancelBuffer ==
  ASSUME BufferInv, NEW t \in Threads, NEW flag \in BOOLEAN, Cancel(t, flag) \/ Close(t),
         UNCHANGED <<next_sample, lost>>,
         \A w \in Workers : wpc[w] = "PutDone" => wpc'[w] = "PutDone" \/ pc[w] = "idle"
  PROVE  BufferInv'
<1>1. BufTypeOK'
  BY DEF Cancel, Close, BufferInv, BufTypeOK, PCs, Statuses
<1>2. /\ pc[t] = "idle" /\ pc' = [pc EXCEPT ![t] = "NotifyBoth"]
      /\ UNCHANGED <<buffer, taken, record>>
  BY DEF Cancel, Close
<1> QED BY <1>1, <1>2, BufferCall

LEMMA TakeOpBuffer ==
  ASSUME BufferInv, NEW k \in Takers, TakeOp(k)
  PROVE  BufferInv'
<1>0. k \in Threads /\ k \notin Workers
  BY ThreadsAssumption
<1>1. BufTypeOK'
  BY <1>0 DEF TakeOp, TakeCall, BufferInv, BufTypeOK, PCs
<1>2. /\ pc[k] = "idle" /\ pc' = [pc EXCEPT ![k] = "Take"]
      /\ UNCHANGED <<buffer, taken, next_sample, lost, wpc>>
      /\ record' = [record EXCEPT ![k] = NoRecord]
  BY DEF TakeOp, TakeCall, inputVars
<1>3. \A u \in Threads : u \in Workers => record'[u] = record[u]
  BY <1>0, <1>2 DEF BufferInv, BufTypeOK
<1> QED BY <1>0, <1>1, <1>2, <1>3, BufferCall

LEMMA FetchSampleBuffer ==
  ASSUME BufferInv, wpc \in [Workers -> WorkerPCs], NEW w \in Workers, FetchSample(w)
  PROVE  BufferInv'
<1>0. /\ w \in Threads /\ pc[w] = "idle" /\ wpc' = [wpc EXCEPT ![w] = "PutDone"]
      /\ pc' = [pc EXCEPT ![w] = "Put"] /\ record' = [record EXCEPT ![w] = next_sample]
      /\ UNCHANGED <<buffer, is_cancelled, is_closed, status, taken, lost>>
      /\ next_sample' = next_sample + 1 /\ next_sample <= MaxSamples
  BY ThreadsAssumption DEF FetchSample, PutCall, WorkerAt
<1>1. /\ next_sample \in Nat \ {0} /\ next_sample \in Records /\ SampleTypeOK'
  BY <1>0, SamplesAssumption DEF BufferInv, SampleTypeOK
<1>2. BufTypeOK'
  BY <1>0, <1>1 DEF BufferInv, BufTypeOK, PCs
<1>3. ThreadInv'
  BY <1>0, ThreadsAssumption DEF BufferInv, BufTypeOK, ThreadInv
<1>4. /\ w \notin Carrying /\ Carrying' = Carrying \cup {w}
      /\ record'[w] = next_sample /\ \A v \in Carrying : record'[v] = record[v]
  BY <1>0, ThreadsAssumption DEF BufferInv, BufTypeOK, Carrying
<1>5. SampleInv'
  BY <1>0, <1>1, <1>4, SampleFetched DEF BufferInv
<1> QED BY <1>1, <1>2, <1>3, <1>5 DEF BufferInv

LEMMA FetchFailsBuffer ==
  ASSUME BufferInv, wpc \in [Workers -> WorkerPCs], NEW w \in Workers, FetchFails(w)
  PROVE  BufferInv'
<1>0. \A v \in Workers : wpc[v] = "PutDone" => wpc'[v] = "PutDone" \/ pc[v] = "idle"
  BY DEF FetchFails, WorkerAt
<1>1. CASE UNCHANGED <<next_sample, lost>>
  BY <1>0, <1>1, BufferStays DEF FetchFails
<1>2. CASE /\ next_sample <= MaxSamples /\ lost' = lost \cup {next_sample}
           /\ next_sample' = next_sample + 1
  <2>1. SampleTypeOK' /\ next_sample \in Nat \ {0}
    BY <1>2, SamplesAssumption DEF BufferInv, SampleTypeOK
  <2>2. UNCHANGED <<buffer, is_cancelled, is_closed, pc, record, status, taken>>
    BY DEF FetchFails, bufVars
  <2>3. BufTypeOK' /\ ThreadInv'
    BY <1>0, <2>2, ThreadsAssumption DEF BufferInv, BufTypeOK, ThreadInv
  <2>4. Carrying' = Carrying /\ Carried' = Carried
    BY <2>2 DEF Carrying, Carried
  <2>5. 1..(next_sample' - 1) = 1..(next_sample - 1) \cup {next_sample}
    BY <1>2, <2>1
  <2>6. ToSet(taken) \cup ToSet(buffer) \cup Carried \cup lost' = 1..(next_sample' - 1)
    BY <1>2, <2>5 DEF BufferInv, SampleInv
  <2>7. SampleInv'
    BY <2>2, <2>4, <2>6 DEF BufferInv, SampleInv
  <2> QED BY <2>1, <2>3, <2>7 DEF BufferInv
<1> QED BY <1>1, <1>2 DEF FetchFails

\* Put and its timeout.
LEMMA PutBuffer ==
  ASSUME BufferInv, NEW t \in Threads, Put(t) \/ PutTimeout(t), InBuffer(t)
  PROVE  BufferInv'
<1>0. /\ pc[t] \in {"Put", "PutWait"} /\ t \in Workers /\ t \in Carrying
      /\ Workers \subseteq Threads /\ pc \in [Threads -> PCs]
      /\ record \in [Threads -> Records \cup {NoRecord}]
      /\ UNCHANGED <<next_sample, wpc, taken, is_cancelled, is_closed>>
  BY ThreadsAssumption DEF BufferInv, BufTypeOK, ThreadInv, Put, PutTimeout, InBuffer, inputVars,
                           Carrying
<1>1. record[t] \in Records
  BY <1>0, CarriedRecords DEF BufferInv
<1>2. CASE pc' = [pc EXCEPT ![t] = "PutWait"] /\ UNCHANGED <<buffer, record, status>>
  <2>1. BufTypeOK'
    BY <1>0, <1>2 DEF BufferInv, BufTypeOK, PCs
  <2>2. pc'[t] # "idle" /\ lost' = lost
    BY <1>0, <1>2 DEF InBuffer
  <2>3. ThreadInv' /\ SampleTypeOK'
    BY <1>0, <1>2, <2>2 DEF BufferInv, ThreadInv, SampleTypeOK
  <2>4. Carrying' = Carrying /\ \A w \in Carrying : record'[w] = record[w]
    BY <1>0, <1>2 DEF Carrying
  <2>5. SampleInv'
    BY <1>0, <1>2, <2>2, <2>4, SamplesStay DEF BufferInv
  <2> QED BY <2>1, <2>3, <2>5 DEF BufferInv
<1>3. CASE /\ buffer' = Append(buffer, record[t]) /\ Len(buffer) < Capacity
           /\ record' = [record EXCEPT ![t] = NoRecord]
           /\ pc' = [pc EXCEPT ![t] = "NotifyTake"]
           /\ status' = [status EXCEPT ![t] = "OK"]
  <2>1. BufTypeOK'
    <3>1. buffer' \in Seq(Records) /\ Len(buffer') <= Capacity
      BY <1>1, <1>3, CapacityAssumption, SeqAppend DEF BufferInv, BufTypeOK
    <3> QED BY <1>0, <1>3, <3>1 DEF BufferInv, BufTypeOK, PCs, Statuses
  <2>2. pc'[t] = "NotifyTake" /\ lost' = lost
    BY <1>0, <1>3 DEF InBuffer
  <2>3. ThreadInv' /\ SampleTypeOK'
    BY <1>0, <1>3, <2>2 DEF BufferInv, ThreadInv, SampleTypeOK
  <2>4. Carrying' = Carrying \ {t} /\ \A w \in Carrying' : record'[w] = record[w]
    BY <1>0, <1>3 DEF Carrying
  <2>5. SampleInv'
    BY <1>0, <1>1, <1>3, <2>2, <2>4, SampleLeaves DEF BufferInv, BufTypeOK
  <2> QED BY <2>1, <2>3, <2>5 DEF BufferInv
<1>4. CASE /\ pc' = [pc EXCEPT ![t] = "idle"] /\ buffer' = buffer
           /\ record' = [record EXCEPT ![t] = NoRecord]
           /\ \E s \in Statuses : status' = [status EXCEPT ![t] = s]
  <2>1. BufTypeOK'
    BY <1>0, <1>4 DEF BufferInv, BufTypeOK, PCs
  <2>2. pc'[t] = "idle" /\ lost' = lost \cup {record[t]}
    BY <1>0, <1>4 DEF InBuffer
  <2>3. ThreadInv' /\ SampleTypeOK'
    BY <1>0, <1>1, <1>4, <2>2 DEF BufferInv, ThreadInv, SampleTypeOK
  <2>4. Carrying' = Carrying \ {t} /\ \A w \in Carrying' : record'[w] = record[w]
    BY <1>0, <1>4 DEF Carrying
  <2>5. SampleInv'
    BY <1>0, <1>1, <1>4, <2>2, <2>4, SampleLeaves DEF BufferInv, BufTypeOK
  <2> QED BY <2>1, <2>3, <2>5 DEF BufferInv
<1> QED BY <1>2, <1>3, <1>4 DEF Put, PutTimeout, PutReady, PutRecord, Return, Statuses

LEMMA TakeBuffer ==
  ASSUME BufferInv, NEW t \in Threads, Take(t), InBuffer(t)
  PROVE  BufferInv'
<1>0. /\ pc[t] = "Take" /\ t \in Takers /\ t \notin Workers
      /\ Workers \subseteq Threads /\ pc \in [Threads -> PCs]
      /\ record \in [Threads -> Records \cup {NoRecord}]
      /\ buffer \in Seq(Records) /\ taken \in Seq(Records)
      /\ UNCHANGED <<next_sample, wpc, lost, is_cancelled, is_closed>>
  BY ThreadsAssumption DEF BufferInv, BufTypeOK, ThreadInv, Take, InBuffer, inputVars
<1>1. /\ \E to \in {"idle", "TakeWait", "NotifyPut"} : pc' = [pc EXCEPT ![t] = to]
      /\ \A u \in Threads : u # t => record'[u] = record[u]
  BY <1>0 DEF Take, TakeRecord, Return
<1>2. ThreadInv' /\ SampleTypeOK'
  BY <1>0, <1>1 DEF BufferInv, ThreadInv, SampleTypeOK
<1>3. Carrying' = Carrying /\ \A w \in Carrying : record'[w] = record[w]
  BY <1>0, <1>1 DEF Carrying
<1>4. CASE UNCHANGED <<buffer, record, taken>>
  <2>1. BufTypeOK'
    BY <1>0, <1>1, <1>4 DEF BufferInv, BufTypeOK, Take, TakeRecord, Return, PCs, Statuses
  <2>2. SampleInv'
    BY <1>0, <1>3, <1>4, SamplesStay DEF BufferInv
  <2> QED BY <1>2, <2>1, <2>2 DEF BufferInv
<1>5. CASE /\ buffer # <<>> /\ buffer' = Tail(buffer) /\ taken' = Append(taken, Head(buffer))
           /\ record' = [record EXCEPT ![t] = Head(buffer)]
           /\ pc' = [pc EXCEPT ![t] = "NotifyPut"]
           /\ status' = [status EXCEPT ![t] = "OK"]
  <2>1. /\ Head(buffer) \in Records /\ buffer' \in Seq(Records) /\ taken' \in Seq(Records)
        /\ Len(buffer') <= Capacity
    BY <1>0, <1>5, SeqTail, SeqAppend, CapacityAssumption DEF BufferInv, BufTypeOK
  <2>2. BufTypeOK'
    BY <1>0, <1>5, <2>1 DEF BufferInv, BufTypeOK, PCs, Statuses
  <2>3. SampleInv'
    BY <1>0, <1>3, <1>5, SampleTaken DEF BufferInv
  <2> QED BY <1>2, <2>2, <2>3 DEF BufferInv
<1> QED BY <1>4, <1>5 DEF Take, TakeRecord

LEMMA WakeBuffer ==
  ASSUME BufferInv, NEW t \in Threads, InBuffer(t),
         NotifyPut(t) \/ NotifyTake(t) \/ NotifyBoth(t) \/ SpuriousWakeup(t)
  PROVE  BufferInv'
<1>0. /\ pc \in [Threads -> PCs] /\ Workers \subseteq Threads
      /\ UNCHANGED <<buffer, is_cancelled, is_closed, record, status, taken, wpc, next_sample>>
  BY ThreadsAssumption DEF BufferInv, BufTypeOK, NotifyPut, NotifyTake, NotifyBoth,
                           SpuriousWakeup, InBuffer, inputVars
<1>1. /\ pc' \in [Threads -> PCs]
      /\ \A u \in Threads : pc'[u] \in {"Put", "PutWait"} <=> pc[u] \in {"Put", "PutWait"}
      /\ \A u \in Threads : pc'[u] \in {"Take", "TakeWait"} <=> pc[u] \in {"Take", "TakeWait"}
  BY <1>0 DEF NotifyPut, NotifyTake, NotifyBoth, SpuriousWakeup, WakeAll, PCs
<1>2. BufTypeOK'
  BY <1>0, <1>1 DEF BufferInv, BufTypeOK
<1>3. lost' = lost
  <2>1. pc'[t] = "idle" => pc[t] \notin {"Put", "PutWait"}
    BY <1>1
  <2> QED BY <2>1 DEF InBuffer
<1>4. ThreadInv' /\ SampleTypeOK'
  BY <1>0, <1>1, <1>3 DEF BufferInv, ThreadInv, SampleTypeOK
<1>5. Carrying' = Carrying /\ \A w \in Carrying : record'[w] = record[w]
  BY <1>0, <1>1 DEF Carrying
<1>6. SampleInv'
  BY <1>0, <1>3, <1>5, SamplesStay DEF BufferInv
<1> QED BY <1>2, <1>4, <1>6 DEF BufferInv
-----------------------------------------------------------------------------
(* The threads, under every step. *)

RunTypeOK ==
  /\ at_end \in BOOLEAN /\ was_closed \in BOOLEAN
  /\ should_stop_ \in BOOLEAN
  /\ thread_nums_ \in 0..Cardinality(Workers)
  /\ is_running_ \in BOOLEAN
  /\ mgr \in {"stopped", "starting", "loop_done", "started", "joining"}
  /\ wpc \in [Workers -> WorkerPCs]
  /\ error \in [Workers -> Statuses \cup {"Ignored", "Unexpected"}]
  /\ ended \in [Workers -> Ends]
  /\ spc \in {"none", "WaitForStop", "CancelOp", "Done"}
  /\ runs \in 0..MaxRuns
  /\ eof \subseteq asked /\ asked \subseteq Takers

RunnerInv == RunTypeOK /\ CountInv /\ CloseInv /\ EofInv

LEMMA TypeParts == TypeOK <=> BufTypeOK /\ SampleTypeOK /\ RunTypeOK
BY DEF TypeOK, SampleTypeOK, RunTypeOK

LEMMA NotEndedFinite ==
  /\ IsFiniteSet(NotEnded) /\ Cardinality(NotEnded) \in Nat
  /\ Cardinality(Workers) \in Nat /\ Cardinality(NotEnded) <= Cardinality(Workers)
<1>1. NotEnded \in SUBSET Workers
  BY DEF NotEnded
<1> QED BY <1>1, ThreadsAssumption, FS_Subset, FS_CardinalityType

\* A worker that runs belongs to a run that was not joined.
LEMMA RunningWorker ==
  ASSUME RunnerInv, NEW w \in Workers, wpc[w] \notin {"none", "Done"}
  PROVE  runs > 0 /\ mgr # "stopped"
BY DEF RunnerInv, RunTypeOK, CountInv

\* A worker goes on, or is created, before its end.
LEMMA WorkerMoves ==
  ASSUME RunnerInv, NEW w \in Workers, NEW to \in WorkerPCs \ {"CloseOp", "Done"},
         wpc[w] \notin {"CloseOp", "Done"}, wpc' = [wpc EXCEPT ![w] = to],
         mgr # "stopped", UNCHANGED <<mgr, ended, thread_nums_, runs, was_closed, is_closed>>
  PROVE  /\ wpc' \in [Workers -> WorkerPCs] /\ CountInv' /\ CloseInv'
<1>0. wpc \in [Workers -> WorkerPCs]
  BY DEF RunnerInv, RunTypeOK
<1>1. NotEnded' = NotEnded
  BY DEF NotEnded
<1>2. CountInv'
  BY <1>0, <1>1 DEF RunnerInv, CountInv
<1>3. CloseInv'
  BY <1>0 DEF RunnerInv, CloseInv
<1> QED BY <1>0, <1>2, <1>3

\* A worker ends; the one that finds thread_nums_ 0 goes on to close the buffer.
LEMMA WorkerEnds ==
  ASSUME RunnerInv, NEW w \in Workers, NEW to \in {"CloseOp", "Done"},
         NEW why \in Ends \ {"none"}, End(w, why),
         wpc[w] \notin {"none", "CloseOp", "Done"}, wpc' = [wpc EXCEPT ![w] = to],
         to = "CloseOp" => LastWorkerCloses,
         UNCHANGED <<mgr, runs, was_closed, is_closed>>
  PROVE  /\ wpc' \in [Workers -> WorkerPCs] /\ ended' \in [Workers -> Ends]
         /\ thread_nums_' \in 0..Cardinality(Workers)
         /\ CountInv' /\ CloseInv'
<1>0. /\ wpc \in [Workers -> WorkerPCs] /\ ended \in [Workers -> Ends]
      /\ runs > 0 /\ mgr # "stopped" /\ w \in NotEnded
      /\ thread_nums_ = Cardinality(NotEnded)
  BY RunningWorker DEF RunnerInv, RunTypeOK, CountInv, NotEnded
<1>1. ended' = [ended EXCEPT ![w] = why] /\ thread_nums_' = thread_nums_ - 1
  BY DEF End
<1>2. NotEnded' = NotEnded \ {w}
  BY <1>0, <1>1 DEF NotEnded
<1>3. /\ IsFiniteSet(NotEnded') /\ Cardinality(NotEnded') = Cardinality(NotEnded) - 1
  BY <1>0, <1>2, NotEndedFinite, FS_RemoveElement
<1>4. Cardinality(NotEnded') \in Nat
  BY <1>3, FS_CardinalityType
<1>5. thread_nums_' = Cardinality(NotEnded') /\ thread_nums_' \in 0..Cardinality(Workers)
  BY <1>0, <1>1, <1>3, <1>4, NotEndedFinite
<1>6. wpc' \in [Workers -> WorkerPCs] /\ ended' \in [Workers -> Ends]
  BY <1>0, <1>1 DEF WorkerPCs
<1>7. CountInv'
  BY <1>0, <1>1, <1>5 DEF RunnerInv, CountInv
<1>8. \A v \in Workers : v # w => wpc[v] # "CloseOp"
  BY DEF RunnerInv, CloseInv
<1>9. CASE to = "CloseOp"
  <2>1. Cardinality(NotEnded') = 0
    BY <1>0, <1>3, <1>9, NotEndedFinite DEF LastWorkerCloses
  <2>2. NotEnded' = {}
    BY <1>3, <2>1, FS_EmptySet
  <2>3. \A v \in Workers : v # w => ended[v] # "none"
    BY <1>2, <2>2 DEF NotEnded
  <2>4. \A v \in Workers : v # w => wpc[v] = "Done"
    BY <1>8, <2>3 DEF RunnerInv, CountInv
  <2> QED BY <1>0, <1>5, <1>6, <1>7, <1>8, <1>9, <2>4 DEF RunnerInv, CloseInv
<1>10. CASE to = "Done"
  BY <1>0, <1>5, <1>6, <1>7, <1>8, <1>10 DEF RunnerInv, CloseInv
<1> QED BY <1>9, <1>10

\* Steps of no worker, other than the start of a run.
LEMMA WorkersStay ==
  ASSUME RunnerInv, UNCHANGED <<wpc, ended, thread_nums_, runs, was_closed, is_closed>>,
         mgr' # "stopped" \/ mgr' = mgr \/ \A w \in Workers : wpc[w] \in {"none", "Done"},
         mgr = "stopped" => mgr' = mgr
  PROVE  CountInv' /\ CloseInv'
<1>1. NotEnded' = NotEnded
  BY DEF NotEnded
<1>2. CountInv'
  BY <1>1 DEF RunnerInv, CountInv
<1>3. CloseInv'
  BY DEF RunnerInv, CloseInv
<1> QED BY <1>2, <1>3

LEMMA EofStays ==
  ASSUME EofInv, UNCHANGED <<eof, buffer, was_closed>>, is_closed => is_closed'
  PROVE  EofInv'
BY DEF EofInv
-----------------------------------------------------------------------------
LEMMA IInvParts == IInv <=> BufferInv /\ RunnerInv
BY TypeParts DEF IInv, BufferInv, RunnerInv

LEMMA IInvPartsNext == BufferInv' /\ RunnerInv' => IInv'
BY DEF IInv, BufferInv, RunnerInv, TypeOK, SampleTypeOK, RunTypeOK

LEMMA InitIInv == Init => IInv
<1> SUFFICES ASSUME Init PROVE IInv
  OBVIOUS
<1> USE DEF Init, BufInit
<1>1. BufTypeOK
  <2>1. buffer \in Seq(Records) /\ Len(buffer) <= Capacity /\ taken \in Seq(Records)
    BY CapacityAssumption
  <2>2. is_cancelled \in BOOLEAN /\ is_closed \in BOOLEAN
    OBVIOUS
  <2>3. /\ pc \in [Threads -> PCs] /\ status \in [Threads -> Statuses]
        /\ record \in [Threads -> Records \cup {NoRecord}]
    BY DEF PCs, Statuses
  <2> QED BY <2>1, <2>2, <2>3 DEF BufTypeOK
<1>2. SampleTypeOK
  BY SamplesAssumption DEF SampleTypeOK
<1>3. RunTypeOK
  <2>1. /\ at_end \in BOOLEAN /\ was_closed \in BOOLEAN /\ should_stop_ \in BOOLEAN
        /\ is_running_ \in BOOLEAN
    OBVIOUS
  <2>2. thread_nums_ \in 0..Cardinality(Workers) /\ runs \in 0..MaxRuns
    BY NotEndedFinite, MaxRunsAssumption
  <2>3. /\ wpc \in [Workers -> WorkerPCs] /\ ended \in [Workers -> Ends]
        /\ error \in [Workers -> Statuses \cup {"Ignored", "Unexpected"}]
    BY DEF WorkerPCs, Statuses, Ends
  <2> QED BY <2>1, <2>2, <2>3 DEF RunTypeOK
<1>4. ThreadInv
  BY DEF ThreadInv
<1>5. Carrying = {} /\ Carried = {}
  BY ThreadsAssumption DEF Carrying, Carried
<1>6. SampleInv
  BY <1>5, SeqEmpty DEF SampleInv
<1>7. CountInv /\ CloseInv /\ EofInv
  BY DEF CountInv, CloseInv, EofInv
<1> QED BY <1>1, <1>2, <1>3, <1>4, <1>6, <1>7, IInvParts DEF BufferInv, RunnerInv

\* StartRunners, on workers that have all ended or never ran.
LEMMA StartRunnersStep == ASSUME IInv, StartRunners PROVE IInv'
<1>0. BufferInv /\ RunnerInv
  BY IInvParts
<1>1. BufferInv'
  <2>1. \A w \in Workers : wpc[w] # "PutDone"
    BY <1>0 DEF StartRunners, RunnerInv, CountInv
  <2> QED BY <1>0, <2>1, BufferStays DEF StartRunners
<1>2. RunTypeOK'
  <2>1. /\ at_end' \in BOOLEAN /\ was_closed' \in BOOLEAN /\ should_stop_' \in BOOLEAN
        /\ is_running_' \in BOOLEAN
    BY <1>0 DEF StartRunners, RunnerInv, RunTypeOK, BufferInv, BufTypeOK
  <2>2. thread_nums_' \in 0..Cardinality(Workers) /\ runs' \in 0..MaxRuns
    BY <1>0, NotEndedFinite, MaxRunsAssumption DEF StartRunners, RunnerInv, RunTypeOK
  <2>3. /\ wpc' \in [Workers -> WorkerPCs] /\ ended' \in [Workers -> Ends]
        /\ error' \in [Workers -> Statuses \cup {"Ignored", "Unexpected"}]
    BY DEF StartRunners, WorkerPCs, Statuses, Ends
  <2> QED BY <2>1, <2>2, <2>3 DEF StartRunners, RunTypeOK
<1>3. runs' > 0 /\ NotEnded' = Workers
  BY <1>0, MaxRunsAssumption DEF StartRunners, RunnerInv, RunTypeOK, NotEnded
<1>4. CountInv'
  BY <1>3 DEF StartRunners, CountInv
<1>5. CloseInv' /\ EofInv'
  BY DEF StartRunners, bufVars, CloseInv, EofInv
<1> QED BY <1>1, <1>2, <1>4, <1>5, IInvPartsNext DEF RunnerInv

\* The other steps of the manager, and the return of Stop().
LEMMA ManagerStep ==
  ASSUME IInv, StartCancelThread \/ StartReturns \/ StopRunners \/ Join \/ StopReturns
  PROVE  IInv'
<1>0. BufferInv /\ RunnerInv
  BY IInvParts
<1>1. UNCHANGED <<bufVars, inputVars, thread_nums_, wpc, error, ended, runs, asked, eof, lost>>
  BY DEF StartCancelThread, StartReturns, StopRunners, Join, StopReturns
<1> USE DEF inputVars
<1>2. BufferInv'
  BY <1>0, <1>1, BufferStays
<1>3. RunTypeOK'
  BY <1>0, <1>1 DEF StartCancelThread, StartReturns, StopRunners, Join, StopReturns,
                    RunnerInv, RunTypeOK
<1>4. /\ mgr' # "stopped" \/ mgr' = mgr \/ \A w \in Workers : wpc[w] \in {"none", "Done"}
      /\ mgr = "stopped" => mgr' = mgr
  BY <1>0 DEF StartCancelThread, StartReturns, StopRunners, Join, StopReturns, Created
<1>5. CountInv' /\ CloseInv'
  BY <1>0, <1>1, <1>4, WorkersStay DEF bufVars
<1>6. EofInv'
  BY <1>0, <1>1, EofStays DEF bufVars, RunnerInv
<1> QED BY <1>2, <1>3, <1>5, <1>6, IInvPartsNext DEF RunnerInv

LEMMA WaitForStopStep == ASSUME IInv, WaitForStop PROVE IInv'
<1>0. BufferInv /\ RunnerInv /\ CancelThread \in Threads
  BY IInvParts, ThreadsAssumption
<1> USE DEF WaitForStop, inputVars
<1>1. BufferInv'
  BY <1>0, CancelBuffer
<1>2. RunTypeOK'
  BY <1>0 DEF RunnerInv, RunTypeOK
<1>3. CountInv' /\ CloseInv'
  BY <1>0, WorkersStay DEF Cancel
<1>4. EofInv'
  BY <1>0, EofStays DEF Cancel, RunnerInv
<1> QED BY <1>1, <1>2, <1>3, <1>4, IInvPartsNext DEF RunnerInv

-----------------------------------------------------------------------------
(* The workers. *)

\* Steps of a worker that neither end it nor touch the buffer.
LEMMA QuietStep ==
  ASSUME IInv, NEW w \in Workers, NEW from \in WorkerPCs \ {"CloseOp", "Done"},
         NEW to \in WorkerPCs \ {"CloseOp", "Done"}, WorkerAt(w, from, to),
         from # "none" \/ mgr = "starting",
         from = "PutDone" => pc[w] = "idle",
         UNCHANGED <<bufVars, next_sample, lost, was_closed, thread_nums_, ended, mgr, runs,
                     asked, eof, is_running_, spc, at_end>>,
         should_stop_' \in BOOLEAN,
         error' \in [Workers -> Statuses \cup {"Ignored", "Unexpected"}]
  PROVE  IInv'
<1>0. BufferInv /\ RunnerInv /\ wpc \in [Workers -> WorkerPCs]
  BY IInvParts DEF RunnerInv, RunTypeOK
<1>1. wpc[w] = from /\ wpc' = [wpc EXCEPT ![w] = to]
  BY DEF WorkerAt
<1>2. BufferInv'
  BY <1>0, <1>1, BufferStays
<1>3. wpc[w] \notin {"none", "Done"} \/ mgr = "starting"
  BY <1>1
<1>4. mgr # "stopped"
  BY <1>0, <1>3, RunningWorker
<1>5. wpc' \in [Workers -> WorkerPCs] /\ CountInv' /\ CloseInv'
  BY <1>0, <1>1, <1>4, WorkerMoves DEF bufVars
<1>6. RunTypeOK'
  BY <1>0, <1>5 DEF RunnerInv, RunTypeOK
<1>7. EofInv'
  BY <1>0, EofStays DEF bufVars, RunnerInv
<1> QED BY <1>2, <1>5, <1>6, <1>7, IInvPartsNext DEF RunnerInv

\* Steps of a worker that end it.
LEMMA EndingStep ==
  ASSUME IInv, NEW w \in Workers, NEW from \in {"Loop", "CheckStatus", "Unexpected"},
         NEW to \in {"CloseOp", "Done"}, WorkerAt(w, from, to),
         NEW why \in Ends \ {"none"}, End(w, why), to = "CloseOp" => LastWorkerCloses,
         UNCHANGED <<bufVars, inputVars, should_stop_, is_running_, mgr, error, spc, runs,
                     asked, eof, lost>>
  PROVE  IInv'
<1>0. BufferInv /\ RunnerInv /\ wpc \in [Workers -> WorkerPCs]
  BY IInvParts DEF RunnerInv, RunTypeOK
<1>1. wpc[w] = from /\ wpc' = [wpc EXCEPT ![w] = to]
  BY DEF WorkerAt
<1> USE DEF inputVars
<1>2. BufferInv'
  BY <1>0, <1>1, BufferStays
<1>3. /\ wpc' \in [Workers -> WorkerPCs] /\ ended' \in [Workers -> Ends]
      /\ thread_nums_' \in 0..Cardinality(Workers)
      /\ CountInv' /\ CloseInv'
  BY <1>0, <1>1, WorkerEnds DEF bufVars
<1>4. RunTypeOK'
  BY <1>0, <1>3 DEF RunnerInv, RunTypeOK
<1>5. EofInv'
  BY <1>0, EofStays DEF bufVars, RunnerInv
<1> QED BY <1>2, <1>3, <1>4, <1>5, IInvPartsNext DEF RunnerInv

LEMMA StartThreadStep == ASSUME IInv, NEW w \in Workers, StartThread(w) PROVE IInv'
<1>1. WorkerAt(w, "none", "Resume") /\ mgr = "starting"
  BY DEF StartThread, WorkerAt
<1>2. should_stop_ \in BOOLEAN /\ error \in [Workers -> Statuses \cup {"Ignored", "Unexpected"}]
  BY DEF IInv, TypeOK
<1> QED BY <1>1, <1>2, QuietStep DEF StartThread, inputVars, WorkerPCs

LEMMA ResumeStep == ASSUME IInv, NEW w \in Workers, Resume(w) PROVE IInv'
<1>0. BufferInv /\ RunnerInv /\ wpc \in [Workers -> WorkerPCs] /\ w \in Threads
  BY IInvParts, ThreadsAssumption DEF RunnerInv, RunTypeOK
<1>1. wpc[w] = "Resume" /\ wpc' = [wpc EXCEPT ![w] = "Loop"]
  BY DEF Resume, WorkerAt
<1> USE DEF Resume, inputVars
<1>2. BufferInv'
  BY <1>0, <1>1, CancelBuffer
<1>3. mgr # "stopped"
  BY <1>0, <1>1, RunningWorker
<1>4. wpc' \in [Workers -> WorkerPCs] /\ CountInv' /\ CloseInv'
  <2>1. "Loop" \in WorkerPCs \ {"CloseOp", "Done"} /\ is_closed' = is_closed
    BY DEF WorkerPCs, Cancel
  <2> QED BY <1>0, <1>1, <1>3, <2>1, WorkerMoves
<1>5. RunTypeOK'
  BY <1>0, <1>4 DEF RunnerInv, RunTypeOK
<1>6. EofInv'
  BY <1>0, EofStays DEF Cancel, RunnerInv
<1> QED BY <1>2, <1>4, <1>5, <1>6, IInvPartsNext DEF RunnerInv

LEMMA ResumeFailsStep == ASSUME IInv, NEW w \in Workers, ResumeFails(w) PROVE IInv'
<1>1. error \in [Workers -> Statuses \cup {"Ignored", "Unexpected"}]
  BY DEF IInv, TypeOK
<1> QED BY <1>1, QuietStep DEF ResumeFails, inputVars, WorkerPCs

LEMMA CheckStopStep == ASSUME IInv, NEW w \in Workers, CheckStop(w) PROVE IInv'
<1>1. CASE should_stop_
  BY <1>1, EndingStep DEF CheckStop, Ends
<1>2. CASE ~should_stop_
  <2>1. /\ error \in [Workers -> Statuses \cup {"Ignored", "Unexpected"}]
        /\ should_stop_ \in BOOLEAN
    BY DEF IInv, TypeOK
  <2> QED BY <1>2, <2>1, QuietStep DEF CheckStop, inputVars, WorkerPCs
<1> QED BY <1>1, <1>2

LEMMA FetchStep ==
  ASSUME IInv, NEW w \in Workers, FetchSample(w) \/ FetchFails(w) PROVE IInv'
<1>0. BufferInv /\ RunnerInv /\ wpc \in [Workers -> WorkerPCs]
  BY IInvParts DEF RunnerInv, RunTypeOK
<1>1. BufferInv'
  BY <1>0, FetchSampleBuffer, FetchFailsBuffer
<1>2. /\ wpc[w] = "Fetch"
      /\ \E to \in {"PutDone", "CheckStatus"} : wpc' = [wpc EXCEPT ![w] = to]
      /\ UNCHANGED <<mgr, ended, thread_nums_, runs, was_closed, is_closed, buffer, eof, asked,
                     should_stop_, is_running_, spc>>
  BY DEF FetchSample, FetchFails, WorkerAt, PutCall, bufVars
<1>3. /\ at_end' \in BOOLEAN
      /\ error' \in [Workers -> Statuses \cup {"Ignored", "Unexpected"}]
  BY <1>0, FetchErrorsAssumption DEF FetchSample, FetchFails, RunnerInv, RunTypeOK, Statuses
<1>4. mgr # "stopped"
  BY <1>0, <1>2, RunningWorker
<1>5. wpc' \in [Workers -> WorkerPCs] /\ CountInv' /\ CloseInv'
  <2>1. {"PutDone", "CheckStatus"} \subseteq WorkerPCs \ {"CloseOp", "Done"}
    BY DEF WorkerPCs
  <2> QED BY <1>0, <1>2, <1>4, <2>1, WorkerMoves
<1>6. RunTypeOK'
  BY <1>0, <1>2, <1>3, <1>5 DEF RunnerInv, RunTypeOK
<1>7. EofInv'
  BY <1>0, <1>2, EofStays DEF RunnerInv
<1> QED BY <1>1, <1>5, <1>6, <1>7, IInvPartsNext DEF RunnerInv

LEMMA PutReturnsStep == ASSUME IInv, NEW w \in Workers, PutReturns(w) PROVE IInv'
<1>1. /\ error' \in [Workers -> Statuses \cup {"Ignored", "Unexpected"}]
      /\ should_stop_ \in BOOLEAN
  BY ThreadsAssumption DEF PutReturns, IInv, TypeOK, BufTypeOK
<1> QED BY <1>1, QuietStep DEF PutReturns, inputVars, WorkerPCs

LEMMA CheckRunErrorStatusStep ==
  ASSUME IInv, NEW w \in Workers, CheckRunErrorStatus(w) PROVE IInv'
<1>0. /\ error \in [Workers -> Statuses \cup {"Ignored", "Unexpected"}]
      /\ should_stop_ \in BOOLEAN
      /\ UNCHANGED <<bufVars, inputVars, is_running_, mgr, error, spc, runs, asked, eof, lost>>
  BY DEF IInv, TypeOK, CheckRunErrorStatus
<1>1. CASE /\ WorkerAt(w, "CheckStatus", "Loop")
           /\ UNCHANGED <<should_stop_, thread_nums_, ended>>
  BY <1>0, <1>1, QuietStep DEF inputVars, WorkerPCs
<1>2. CASE /\ WorkerAt(w, "CheckStatus", "Done") /\ End(w, "cancelled")
           /\ UNCHANGED should_stop_
  BY <1>0, <1>2, EndingStep DEF Ends
<1>3. CASE /\ WorkerAt(w, "CheckStatus", IF LastWorkerCloses THEN "CloseOp" ELSE "Done")
           /\ End(w, "closed") /\ UNCHANGED should_stop_
  <2>1. CASE LastWorkerCloses
    BY <1>0, <1>3, <2>1, EndingStep DEF Ends
  <2>2. CASE ~LastWorkerCloses
    BY <1>0, <1>3, <2>2, EndingStep DEF Ends
  <2> QED BY <2>1, <2>2
<1>4. CASE /\ WorkerAt(w, "CheckStatus", "Unexpected") /\ should_stop_' = TRUE
           /\ UNCHANGED <<thread_nums_, ended>>
  BY <1>0, <1>4, QuietStep DEF inputVars, WorkerPCs
<1> QED BY <1>1, <1>2, <1>3, <1>4 DEF CheckRunErrorStatus

LEMMA DealWithUnexpectedErrorStep ==
  ASSUME IInv, NEW w \in Workers, DealWithUnexpectedError(w) PROVE IInv'
BY EndingStep DEF DealWithUnexpectedError, Ends

\* The close op of the last worker.
LEMMA DealWithClosedErrorStep ==
  ASSUME IInv, NEW w \in Workers, DealWithClosedError(w) PROVE IInv'
<1>0. BufferInv /\ RunnerInv /\ wpc \in [Workers -> WorkerPCs] /\ w \in Threads
  BY IInvParts, ThreadsAssumption DEF RunnerInv, RunTypeOK
<1>1. wpc[w] = "CloseOp" /\ wpc' = [wpc EXCEPT ![w] = "Done"]
  BY DEF DealWithClosedError, WorkerAt
<1> USE DEF DealWithClosedError, inputVars
<1>2. BufferInv'
  BY <1>0, <1>1, CancelBuffer
<1>3. \A v \in Workers : wpc'[v] = "Done"
  BY <1>0, <1>1 DEF RunnerInv, CloseInv
<1>4. CloseInv'
  BY <1>3 DEF CloseInv
<1>5. NotEnded' = NotEnded /\ runs > 0
  BY <1>0, <1>1, RunningWorker DEF NotEnded
<1>6. CountInv'
  BY <1>0, <1>1, <1>5 DEF RunnerInv, CountInv
<1>7. RunTypeOK'
  BY <1>0, <1>1 DEF RunnerInv, RunTypeOK, WorkerPCs
<1>8. EofInv'
  BY <1>0, EofStays DEF Close, RunnerInv
<1> QED BY <1>2, <1>4, <1>6, <1>7, <1>8, IInvPartsNext DEF RunnerInv

-----------------------------------------------------------------------------
(* The takers and the steps inside of the buffer. *)

LEMMA TakeOpStep == ASSUME IInv, NEW k \in Takers, TakeOp(k) PROVE IInv'
<1>0. BufferInv /\ RunnerInv
  BY IInvParts
<1>1. BufferInv'
  BY <1>0, TakeOpBuffer
<1> USE DEF TakeOp, inputVars
<1>2. RunTypeOK'
  BY <1>0 DEF RunnerInv, RunTypeOK
<1>3. CountInv' /\ CloseInv'
  BY <1>0, WorkersStay DEF TakeCall
<1>4. EofInv'
  BY <1>0, EofStays DEF TakeCall, RunnerInv
<1> QED BY <1>1, <1>2, <1>3, <1>4, IInvPartsNext DEF RunnerInv

LEMMA InBufferStep == ASSUME IInv, NEW t \in Threads, InBuffer(t) PROVE IInv'
<1>0. BufferInv /\ RunnerInv
  BY IInvParts
<1>s. \/ Put(t) \/ PutTimeout(t) \/ Take(t)
      \/ NotifyPut(t) \/ NotifyTake(t) \/ NotifyBoth(t) \/ SpuriousWakeup(t)
  BY DEF InBuffer, BufStep
<1>1. BufferInv'
  BY <1>0, <1>s, PutBuffer, TakeBuffer, WakeBuffer
<1>2. UNCHANGED <<is_closed, is_cancelled>>
  BY <1>s DEF Put, PutTimeout, Take, NotifyPut, NotifyTake, NotifyBoth, SpuriousWakeup
<1>3. CountInv' /\ CloseInv'
  BY <1>0, <1>2, WorkersStay DEF InBuffer, inputVars
<1>4. RunTypeOK'
  BY <1>0 DEF InBuffer, inputVars, RunnerInv, RunTypeOK
\* A taker that is told EOF finds the buffer closed and empty.
<1>5. eof' # eof => is_closed /\ buffer = <<>> /\ buffer' = <<>>
  <2> SUFFICES ASSUME pc[t] = "Take", status'[t] = "OutOfRange", pc'[t] = "idle"
               PROVE  is_closed /\ buffer = <<>> /\ buffer' = <<>>
    BY DEF InBuffer
  <2>1. Take(t) /\ pc \in [Threads -> PCs] /\ status \in [Threads -> Statuses]
    BY <1>0, <1>s DEF Put, PutTimeout, NotifyPut, NotifyTake, NotifyBoth, SpuriousWakeup,
                      BufferInv, BufTypeOK
  <2>2. TakeReady /\ TakeRecord(t)
    BY <2>1 DEF Take
  <2>3. buffer = <<>>
    BY <2>1, <2>2 DEF TakeRecord
  <2>4. status'[t] = (IF is_closed THEN "OutOfRange" ELSE "Cancelled") /\ buffer' = buffer
    BY <2>1, <2>2, <2>3 DEF TakeRecord, Return
  <2> QED BY <2>3, <2>4
\* No worker is left to push into a buffer closed in this run.
<1>6. is_closed /\ ~was_closed /\ buffer = <<>> => buffer' = <<>>
  <2> SUFFICES ASSUME is_closed, ~was_closed, buffer = <<>> PROVE buffer' = <<>>
    OBVIOUS
  <2>1. pc[t] \notin {"Put", "PutWait"}
    BY <1>0 DEF RunnerInv, CloseInv, BufferInv, ThreadInv
  <2> QED BY <1>s, <2>1 DEF Put, PutTimeout, Take, TakeRecord, NotifyPut, NotifyTake, NotifyBoth,
                            SpuriousWakeup
<1>7. EofInv'
  <2>1. was_closed' = was_closed
    BY DEF InBuffer, inputVars
  <2>2. CASE eof' # eof
    BY <1>2, <1>5, <2>1, <2>2 DEF EofInv
  <2>3. CASE eof' = eof
    BY <1>0, <1>2, <1>6, <2>1, <2>3 DEF RunnerInv, EofInv
  <2> QED BY <2>2, <2>3
<1> QED BY <1>1, <1>3, <1>4, <1>7, IInvPartsNext DEF RunnerInv

-----------------------------------------------------------------------------
LEMMA NextIInv == IInv /\ [Next]_vars => IInv'
<1> SUFFICES ASSUME IInv, [Next]_vars PROVE IInv'
  OBVIOUS
<1>1. CASE StartRunners
  BY <1>1, StartRunnersStep
<1>2. CASE StopRunners \/ MgrStep \/ CancelStep
  BY <1>2, ManagerStep, StartThreadStep, WaitForStopStep DEF MgrStep, CancelStep
<1>3. ASSUME NEW w \in Workers, WorkerStep(w) PROVE IInv'
  BY <1>3, ResumeStep, ResumeFailsStep, CheckStopStep, FetchStep, PutReturnsStep,
     CheckRunErrorStatusStep, DealWithUnexpectedErrorStep, DealWithClosedErrorStep DEF WorkerStep
<1>4. ASSUME NEW k \in Takers, TakeOp(k) PROVE IInv'
  BY <1>4, TakeOpStep
<1>5. ASSUME NEW t \in Threads, InBuffer(t) PROVE IInv'
  BY <1>5, InBufferStep
<1>6. CASE UNCHANGED vars
  <2> USE DEF vars, runVars, inputVars
  <2>0. BufferInv /\ RunnerInv
    BY IInvParts
  <2>1. BufferInv'
    BY <1>6, <2>0, BufferStays
  <2>2. RunTypeOK'
    BY <1>6, <2>0 DEF RunnerInv, RunTypeOK
  <2>3. CountInv' /\ CloseInv' /\ EofInv'
    BY <1>6, <2>0, WorkersStay, EofStays DEF bufVars, RunnerInv
  <2> QED BY <2>1, <2>2, <2>3, IInvPartsNext DEF RunnerInv
<1> QED BY <1>1, <1>2, <1>3, <1>4, <1>5, <1>6 DEF Next

\* The inductive invariant holds in every reachable state (prefetch_runner.cc,
\* coordinator.cc and tensor_buffer_ops.h).
THEOREM InductiveInvariant == Spec => []IInv
<1> QED BY InitIInv, NextIInv, PTL DEF Spec

\* Type correctness: the buffer keeps to capacity_ and thread_nums_ never falls
\* below 0 (Put, Take, Run).
THEOREM TypeCorrect == Spec => []TypeOK
<1>1. IInv => TypeOK
  BY DEF IInv
<1> QED BY <1>1, InductiveInvariant, PTL

\* thread_nums_ counts the workers that have not ended (Run and the DealWith
\* methods).
THEOREM ThreadNumsCorrect == Spec => []ThreadNumsExact
<1>1. IInv => ThreadNumsExact
  BY DEF IInv, CountInv, NotEnded, ThreadNumsExact
<1> QED BY <1>1, InductiveInvariant, PTL

\* No sample is taken twice, for any number of threads, samples, timeouts and
\* restarts (Put, Take, StartRunners).
THEOREM NeverTakenTwice == Spec => []NoSampleTakenTwice
<1>1. IInv => NoSampleTakenTwice
  BY DEF IInv, SampleInv, NoSampleTakenTwice
<1> QED BY <1>1, InductiveInvariant, PTL

\* A taker is told "EOF reached." only when the input is drained (Take, Close and
\* DealWithClosedError).
THEOREM EOFIsTheEnd == Spec => []EOFMeansDrained
<1>1. IInv => EOFMeansDrained
  <2> SUFFICES ASSUME IInv, eof # {}, ~was_closed
               PROVE  /\ buffer = <<>>
                      /\ \A w \in Workers : wpc[w] = "Done"
                      /\ ToSet(taken) \cup lost = 1..(next_sample - 1)
    BY DEF EOFMeansDrained
  <2>1. buffer = <<>> /\ \A w \in Workers : wpc[w] = "Done"
    BY DEF IInv, EofInv, CloseInv
  <2>2. Carrying = {}
    BY <2>1, ThreadsAssumption DEF IInv, ThreadInv, Carrying
  <2>3. ToSet(buffer) = {} /\ Carried = {}
    BY <2>1, <2>2, SeqEmpty DEF Carried
  <2> QED BY <2>1, <2>3 DEF IInv, SampleInv
<1> QED BY <1>1, InductiveInvariant, PTL
=============================================================================

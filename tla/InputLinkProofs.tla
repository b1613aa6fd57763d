--------------------------- MODULE InputLinkProofs --------------------------
(***************************************************************************)
(* Proofs about InputLink: for any number of threads, connections, calls   *)
(* and any length of chunks, events reach the desktop in order and SendInput *)
(* reports what was applied.                                               *)
(*                                                                         *)
(* The invariant says which thread has which call and the lock (Calling),  *)
(* what a session is doing (Serving), that a call has at most one chunk on *)
(* its way and how much of it is applied (Carrying), what the answer on    *)
(* the connection says (Answering), and what the log holds (Logged).       *)
(***************************************************************************)
EXTENDS InputLink, FiniteSetTheorems, SequenceTheorems, TLAPS

\* A call belongs to one thread; input_lock to the thread that is sending or waiting.
Calling ==
    /\ \A t \in Threads :
         /\ lock = t <=> at[t] \in {"locked", "reply"}
         /\ at[t] = "idle" <=> call[t] = 0
         /\ at[t] = "reply" => connection # NoLink
         /\ at[t] # "idle" =>
              /\ outcome[call[t]] = "running"
              /\ accepted[call[t]] < Len(input[call[t]])
         /\ \A u \in Threads : call[t] = call[u] => t = u \/ call[t] = 0
    /\ \A c \in Calls : outcome[c] = "running" => \E t \in Threads : call[t] = c
    /\ connection = NoLink => ~valid
    /\ NoChunk \notin Chunks

\* What a session has to do, and that input_lock's owner or nobody has left it something.
Serving ==
    /\ \A l \in Links :
         /\ session[l] \in {"none", "read"} <=> job[l] = NoChunk
         /\ session[l] \in {"none", "read", "bridge"} => done[l] = 0
         /\ bridge = l <=> session[l] = "apply"
         /\ requests[l] # <<>> => session[l] = "read" /\ Len(requests[l]) = 1
         /\ replies[l] # <<>> => connection = l /\ valid /\ Len(replies[l]) = 1
         /\ (\A t \in Threads : at[t] # "reply") /\ connection = l =>
              requests[l] = <<>> /\ replies[l] = <<>> /\ session[l] \in {"none", "read"}

\* The chunk that is on its way over link l, or in the hands of its session.
Out == [l \in Links |-> IF requests[l] # <<>> THEN Head(requests[l]) ELSE job[l]]

Carrying ==
    /\ \A l \in Links : Out[l] # NoChunk =>
         /\ Out[l] \in Chunks
         /\ outcome[Out[l].call] # "none"
         /\ Out[l].first = accepted[Out[l].call] + 1
         /\ done[l] <= Out[l].count
         /\ Total[Out[l].call] = accepted[Out[l].call] + done[l]
         /\ replies[l] = <<>>
         /\ \A t \in Threads : call[t] = Out[l].call =>
              at[t] = "reply" /\ connection = l /\ Out[l] = Chunk(t)
         /\ outcome[Out[l].call] # "running" => Out[l].call \in given_up
         /\ \A m \in Links : Out[m] # NoChunk /\ Out[m].call = Out[l].call => m = l
    /\ \A t \in Threads : at[t] = "reply" => (Out[connection] # NoChunk => Out[connection].call = call[t])

Answering ==
    /\ \A t \in Threads :
         /\ at[t] \in {"chunk", "locked"} => Total[call[t]] = accepted[call[t]]
         /\ at[t] = "reply" => Total[call[t]] >= accepted[call[t]]
         /\ at[t] = "reply" /\ replies[connection] # <<>> =>
              /\ Head(replies[connection]) <= Chunk(t).count
              /\ Total[call[t]] = accepted[call[t]] + Head(replies[connection])
    /\ \A c \in Calls :
         /\ outcome[c] = "none" => Total[c] = 0 /\ accepted[c] = 0 /\ input[c] = <<>>
         /\ outcome[c] = "wine" => accepted[c] = 0
         /\ outcome[c] \in {"done", "wine"} =>
              Total[c] = accepted[c] \/ (c \in given_up /\ Total[c] > accepted[c])
         /\ \A d \in before[c] : outcome[d] \in {"done", "wine"}

\* The chunk that a session is applying is the end of the log, as far as it has come.
Logged ==
    /\ AppliedInOrder
    /\ CallsInOrder
    /\ \A i \in DOMAIN log :
         log[i].first <= log[i].event /\ log[i].event <= Total[log[i].call]
    /\ \A l \in Links : session[l] = "apply" =>
         /\ done[l] <= Len(log)
         /\ \A i \in DOMAIN log :
              i > Len(log) - done[l] <=> log[i].call = job[l].call /\ log[i].first = job[l].first

IInv == TypeOK /\ Calling /\ Serving /\ Carrying /\ Answering /\ Logged

-----------------------------------------------------------------------------

LEMMA NumbersTyped ==
    TypeOK => /\ \A c \in Calls : accepted[c] \in Nat /\ Len(input[c]) \in Nat /\ accepted[c] <= Len(input[c])
              /\ Len(log) \in Nat /\ \A l \in Links : done[l] \in Nat
              /\ \A c \in Calls : c # 0
<1> SUFFICES ASSUME TypeOK
             PROVE  /\ \A c \in Calls : accepted[c] \in Nat /\ Len(input[c]) \in Nat /\ accepted[c] <= Len(input[c])
                    /\ Len(log) \in Nat /\ \A l \in Links : done[l] \in Nat
                    /\ \A c \in Calls : c # 0
  OBVIOUS
<1>1. \A c \in Calls : input[c] \in Seq({"known", "other"})
  <2>1. \A x \in Inputs \cup {<<>>} : x \in Seq({"known", "other"})
    <3>1. <<>> \in Seq({"known", "other"})
      OBVIOUS
    <3> QED
      BY <3>1, InputsAssumption
  <2> QED
    BY <2>1 DEF TypeOK
<1>2. \A c \in Calls : Len(input[c]) \in Nat
  BY <1>1, LenProperties
<1>3. Len(log) \in Nat
  BY LenProperties DEF TypeOK
<1>4. \A l \in Links : done[l] \in Nat
  BY BoundsAssumption DEF TypeOK
<1>5. \A c \in Calls : c # 0
  BY BoundsAssumption DEF Calls
<1> QED
  BY <1>2, <1>3, <1>4, <1>5 DEF TypeOK

\* The next chunk of a call that is not complete is one.
LEMMA ChunkTyped ==
    ASSUME TypeOK, Calling, NEW t \in Threads, at[t] # "idle"
    PROVE  /\ call[t] \in Calls /\ Chunk(t) \in Chunks /\ Chunk(t) # NoChunk
           /\ Chunk(t).call = call[t] /\ Chunk(t).first = accepted[call[t]] + 1
           /\ Chunk(t).count \in 1..MaxEvents /\ Chunk(t).count <= Len(input[call[t]]) - accepted[call[t]]
<1>1. call[t] \in Calls /\ accepted[call[t]] < Len(input[call[t]])
  BY DEF TypeOK, Calling
<1>2. Chunk(t).count \in 1..MaxEvents /\ Chunk(t).count <= Len(input[call[t]]) - accepted[call[t]]
  BY <1>1, NumbersTyped, BoundsAssumption DEF Chunk, Lesser
<1>3. Chunk(t) \in Chunks
  BY <1>1, <1>2, NumbersTyped DEF Chunk, Chunks
<1> QED
  BY <1>1, <1>2, <1>3 DEF Chunk, Calling

\* Counting the entries of a log.
LEMMA CountTyped ==
    ASSUME NEW n \in Nat
    PROVE  Count(n) \in [Calls -> Nat]
<1> SUFFICES ASSUME NEW c \in Calls PROVE Cardinality({i \in 1..n : log[i].call = c}) \in Nat
  BY DEF Count
<1>1. IsFiniteSet(1..n)
  BY FS_Interval
<1>2. IsFiniteSet({i \in 1..n : log[i].call = c})
  BY <1>1, FS_Subset
<1> QED
  BY <1>2, FS_CardinalityType

LEMMA LogTyped ==
    ASSUME TypeOK, NEW i \in DOMAIN log
    PROVE  /\ i \in 1..Len(log) /\ log[i].call \in Calls
           /\ log[i].first \in Nat \ {0} /\ log[i].event \in Nat \ {0}
<1> DEFINE S == [call : Calls, first : Nat \ {0}, event : Nat \ {0}]
<1>1. log \in Seq(S)
  BY DEF TypeOK
<1> HIDE DEF S
<1>2. i \in 1..Len(log) /\ log[i] \in S
  BY <1>1, LenProperties, ElementOfSeq
<1> QED
  BY <1>2 DEF S

\* A sequence of one message.
LEMMA Single ==
    ASSUME NEW S, NEW q \in Seq(S), Len(q) = 1
    PROVE  Head(q) \in S /\ Tail(q) = <<>>
<1>1. q # <<>>
  OBVIOUS
<1>2. Head(q) \in S /\ Tail(q) \in Seq(S) /\ Len(Tail(q)) = 0
  BY <1>1, HeadTailProperties
<1> QED
  BY <1>2, EmptySeq

LEMMA CountStays ==
    ASSUME UNCHANGED log
    PROVE  Total' = Total /\ \A n : Count(n)' = Count(n)
BY DEF Total, Count

LEMMA CountGrows ==
    ASSUME NEW S, log \in Seq(S), NEW e \in S, log' = Append(log, e), e.call \in Calls
    PROVE  /\ log' \in Seq(S) /\ Len(log') = Len(log) + 1 /\ Len(log) \in Nat
           /\ log'[Len(log) + 1] = e /\ \A i \in 1..Len(log) : log'[i] = log[i]
           /\ Total' = [Total EXCEPT ![e.call] = @ + 1]
           /\ \A n \in 0..Len(log) : Count(n)' = Count(n)
           /\ \A n : n = Len(log) + 1 => Count(n)' = Total'
<1>1. /\ log' \in Seq(S) /\ Len(log') = Len(log) + 1 /\ Len(log) \in Nat
      /\ log'[Len(log) + 1] = e /\ \A i \in 1..Len(log) : log'[i] = log[i]
  BY AppendProperties, LenProperties
<1>2. \A n \in 0..Len(log) : Count(n)' = Count(n)
  <2> SUFFICES ASSUME NEW n \in 0..Len(log), NEW c \in Calls
               PROVE  {i \in 1..n : log'[i].call = c} = {i \in 1..n : log[i].call = c}
    BY DEF Count
  <2>1. \A i \in 1..n : log'[i] = log[i]
    BY <1>1
  <2> QED
    BY <2>1
<1>3. \A n : n = Len(log) + 1 => Count(n)' = Total'
  BY <1>1 DEF Total, Count
<1>4. Total' = [Total EXCEPT ![e.call] = @ + 1]
  <2> DEFINE n == Len(log)
             Old(c) == {i \in 1..n : log[i].call = c}
             New(c) == {i \in 1..(n + 1) : log'[i].call = c}
  <2>1. Total = [c \in Calls |-> Cardinality(Old(c))] /\ Total' = [c \in Calls |-> Cardinality(New(c))]
    BY <1>1 DEF Total, Count
  <2>2. \A c \in Calls : New(c) = IF c = e.call THEN Old(c) \cup {n + 1} ELSE Old(c)
    <3> TAKE c \in Calls
    <3>1. 1..(n + 1) = 1..n \cup {n + 1}
      BY <1>1
    <3> QED
      BY <1>1, <3>1
  <2>3. \A c \in Calls : IsFiniteSet(Old(c)) /\ n + 1 \notin Old(c)
    <3> TAKE c \in Calls
    <3>1. IsFiniteSet(1..n)
      BY <1>1, FS_Interval
    <3>2. Old(c) \subseteq 1..n /\ n + 1 \notin 1..n
      BY <1>1
    <3> HIDE DEF Old
    <3> QED
      BY <3>1, <3>2, FS_Subset
  <2>4. \A c \in Calls : Cardinality(Old(c) \cup {n + 1}) = Cardinality(Old(c)) + 1
    BY <2>3, FS_AddElement
  <2> HIDE DEF Old, New, n
  <2> QED
    BY <2>1, <2>2, <2>4
<1> QED
  BY <1>1, <1>2, <1>3, <1>4

LEMMA TotalTyped ==
    TypeOK => Total \in [Calls -> Nat]
BY NumbersTyped, CountTyped DEF Total

\* Only one thread holds input_lock.
LEMMA NobodyElse ==
    ASSUME Calling, NEW t \in Threads, at[t] \in {"locked", "reply"}
    PROVE  lock = t /\ \A u \in Threads \ {t} : at[u] \notin {"locked", "reply"}
BY DEF Calling

\* What is on its way is a chunk.
LEMMA OutTyped ==
    ASSUME TypeOK, Calling, Serving, NEW l \in Links
    PROVE  /\ Out[l] \in Chunks \cup {NoChunk}
           /\ Out[l] = NoChunk <=> requests[l] = <<>> /\ session[l] \in {"none", "read"}
           /\ requests[l] = <<>> => Out[l] = job[l]
           /\ requests[l] # <<>> => Out[l] = Head(requests[l]) /\ Out[l] # NoChunk /\ Tail(requests[l]) = <<>>
<1>1. requests[l] \in Seq(Chunks) /\ job[l] \in Chunks \cup {NoChunk} /\ NoChunk \notin Chunks
  BY DEF TypeOK, Calling
<1>2. requests[l] # <<>> => Head(requests[l]) \in Chunks /\ Tail(requests[l]) = <<>>
  <2> SUFFICES ASSUME requests[l] # <<>> PROVE Head(requests[l]) \in Chunks /\ Tail(requests[l]) = <<>>
    OBVIOUS
  <2>1. Len(requests[l]) = 1
    BY DEF Serving
  <2>2. Head(requests[l]) \in Chunks /\ Tail(requests[l]) \in Seq(Chunks) /\ Len(Tail(requests[l])) = 0
    BY <1>1, <2>1, HeadTailProperties
  <2> QED
    BY <2>2, EmptySeq
<1> QED
  BY <1>1, <1>2 DEF Out, Serving

-----------------------------------------------------------------------------
(* The hook *)

\* How a call goes on when n events of its chunk have been accepted.
LEMMA ResultFacts ==
    ASSUME TypeOK, Calling, NEW t \in Threads, at[t] # "idle", NEW n \in 0..Chunk(t).count, Result(t, n)
    PROVE  /\ UNCHANGED input
           /\ accepted' = [accepted EXCEPT ![call[t]] = @ + n]
           /\ accepted[call[t]] + n <= Len(input[call[t]])
           /\ \/ /\ n > 0 /\ accepted[call[t]] + n < Len(input[call[t]])
                 /\ at' = [at EXCEPT ![t] = "chunk"] /\ UNCHANGED <<call, outcome>>
              \/ \E how \in {"done", "wine"} :
                   /\ how = "wine" => accepted[call[t]] + n = 0
                   /\ at' = [at EXCEPT ![t] = "idle"] /\ call' = [call EXCEPT ![t] = 0]
                   /\ outcome' = [outcome EXCEPT ![call[t]] = how]
<1>1. /\ call[t] \in Calls /\ Chunk(t).count \in 1..MaxEvents
      /\ Chunk(t).count <= Len(input[call[t]]) - accepted[call[t]]
  BY ChunkTyped
<1>2. accepted[call[t]] \in Nat /\ Len(input[call[t]]) \in Nat /\ n \in Nat /\ Chunk(t).count \in Nat
  BY <1>1, NumbersTyped, BoundsAssumption
<1>3. accepted[call[t]] + n <= Len(input[call[t]]) /\ Chunk(t).count > 0
  BY <1>1, <1>2, BoundsAssumption
<1>4. CASE n + accepted[call[t]] = 0 /\ Return(t, "wine")
  BY <1>2, <1>3, <1>4 DEF Result, Return, Goto
<1>5. CASE /\ n = Chunk(t).count /\ accepted[call[t]] + n # Len(input[call[t]])
           /\ Goto(t, "chunk") /\ UNCHANGED <<call, outcome>>
  BY <1>2, <1>3, <1>5 DEF Result, Goto
<1>6. CASE Return(t, "done")
  BY <1>3, <1>6 DEF Result, Return, Goto
<1> QED
  BY <1>4, <1>5, <1>6 DEF Result

(***************************************************************************)
(* send_input_chunk returns: the lock is left, the connection is kept with *)
(* nothing on it or given up, and n events count as accepted.              *)
(***************************************************************************)
LEMMA ResultKeeps ==
    ASSUME IInv, NEW t \in Threads, at[t] # "idle", NEW n \in 0..Chunk(t).count, Result(t, n),
           lock' = IF lock = t THEN NoThread ELSE lock,
           connection' \in {connection, NoLink}, valid' \in {valid, FALSE},
           connection' = connection => valid' = valid,
           connection' = NoLink => ~valid',
           connection' # connection => at[t] # "chunk",
           replies' \in [Links -> Seq(0..MaxEvents)],
           \A l \in Links : replies'[l] = IF l = connection /\ at[t] # "chunk" THEN <<>> ELSE replies[l],
           at[t] = "reply" /\ connection' # NoLink => Out[connection] = NoChunk,
           given_up' \in SUBSET Calls, given_up \subseteq given_up', trouble' \in BOOLEAN,
           n > 0 => Total[call[t]] = accepted[call[t]] + n,
           \/ Total[call[t]] = accepted[call[t]] + n
           \/ Total[call[t]] > accepted[call[t]] + n /\ call[t] \in given_up',
           \A l \in Links : Out[l] # NoChunk /\ Out[l].call = call[t] => n = 0 /\ call[t] \in given_up',
           UNCHANGED <<requests, helper, log, before>>
    PROVE  IInv'
<1> DEFINE c == call[t]
<1>1. /\ UNCHANGED <<requests, running, bridge, session, job, done, log, before>>
      /\ Total' = Total /\ Out' = Out
  BY CountStays DEF helper, Out
<1>2. c \in Calls /\ outcome[c] = "running" /\ accepted[c] \in Nat /\ n \in Nat
  BY ChunkTyped, NumbersTyped, BoundsAssumption DEF IInv, Calling
<1>3. /\ UNCHANGED input
      /\ accepted' = [accepted EXCEPT ![c] = @ + n] /\ accepted[c] + n <= Len(input[c])
      /\ \/ /\ n > 0 /\ accepted[c] + n < Len(input[c])
            /\ at' = [at EXCEPT ![t] = "chunk"] /\ UNCHANGED <<call, outcome>>
         \/ \E how \in {"done", "wine"} :
              /\ how = "wine" => accepted[c] + n = 0
              /\ at' = [at EXCEPT ![t] = "idle"] /\ call' = [call EXCEPT ![t] = 0]
              /\ outcome' = [outcome EXCEPT ![c] = how]
  BY ResultFacts DEF IInv
<1> HIDE DEF c
\* The same for each call and thread.
<1>4. /\ accepted'[c] = accepted[c] + n
      /\ \A d \in Calls \ {c} : accepted'[d] = accepted[d] /\ outcome'[d] = outcome[d]
      /\ \A u \in Threads \ {t} : at'[u] = at[u] /\ call'[u] = call[u]
      /\ \/ n > 0 /\ accepted'[c] < Len(input[c]) /\ at'[t] = "chunk" /\ call'[t] = c /\ outcome'[c] = "running"
         \/ /\ at'[t] = "idle" /\ call'[t] = 0 /\ outcome'[c] \in {"done", "wine"}
            /\ outcome'[c] = "wine" => accepted'[c] = 0
  BY <1>2, <1>3 DEF IInv, TypeOK, c
<1>5. \A u \in Threads \ {t} : call[u] # c
  BY <1>2, NumbersTyped DEF IInv, Calling, c
<1>6. TypeOK'
  <2>1. at' \in [Threads -> {"idle", "chunk", "locked", "reply"}] /\ call' \in [Threads -> Calls \cup {0}]
    BY <1>3 DEF IInv, TypeOK
  <2>2. outcome' \in [Calls -> {"none", "running", "done", "wine"}]
    BY <1>3 DEF IInv, TypeOK
  <2>3. accepted' \in [Calls -> Nat] /\ \A d \in Calls : accepted'[d] <= Len(input'[d])
    BY <1>2, <1>3, <1>4 DEF IInv, TypeOK
  <2> QED
    BY <1>1, <1>3, <2>1, <2>2, <2>3 DEF IInv, TypeOK
<1>7. \A u \in Threads : lock' = u <=> at'[u] \in {"locked", "reply"}
  BY <1>4, NoneAssumption DEF IInv, Calling
<1>8. connection' # connection \/ at[t] # "chunk" => \A u \in Threads : at'[u] \notin {"locked", "reply"}
  <2>1. connection' # connection \/ at[t] # "chunk" => at[t] \in {"locked", "reply"}
    BY DEF IInv, TypeOK
  <2> QED
    BY <1>4, <2>1, NobodyElse DEF IInv
<1>9. Calling'
  <2>1. \A u \in Threads : at'[u] = "idle" <=> call'[u] = 0
    BY <1>2, <1>4, NumbersTyped DEF IInv, Calling
  <2>2. \A u \in Threads : at'[u] = "reply" => connection' # NoLink
    BY <1>4, <1>8 DEF IInv, Calling
  <2>3. \A u \in Threads : at'[u] # "idle" =>
          outcome'[call'[u]] = "running" /\ accepted'[call'[u]] < Len(input'[call'[u]])
    <3> SUFFICES ASSUME NEW u \in Threads, at'[u] # "idle"
                 PROVE  outcome'[call'[u]] = "running" /\ accepted'[call'[u]] < Len(input'[call'[u]])
      OBVIOUS
    <3>1. CASE u = t
      BY <1>3, <1>4, <3>1
    <3>2. CASE u # t
      <4>1. call[u] \in Calls \ {c} /\ at[u] # "idle"
        BY <1>4, <1>5, <3>2, ChunkTyped DEF IInv
      <4> QED
        BY <1>3, <1>4, <3>2, <4>1 DEF IInv, Calling
    <3> QED
      BY <3>1, <3>2
  <2>4. \A u, w \in Threads : call'[u] = call'[w] => u = w \/ call'[u] = 0
    BY <1>4, <1>5 DEF IInv, Calling
  <2>5. \A d \in Calls : outcome'[d] = "running" => \E u \in Threads : call'[u] = d
    <3> SUFFICES ASSUME NEW d \in Calls, outcome'[d] = "running" PROVE \E u \in Threads : call'[u] = d
      OBVIOUS
    <3>1. CASE d = c
      BY <1>4, <3>1
    <3>2. CASE d # c
      <4>1. PICK u \in Threads : call[u] = d
        BY <1>4, <3>2 DEF IInv, Calling
      <4>2. u # t
        BY <3>2, <4>1 DEF c
      <4> QED
        BY <1>4, <4>1, <4>2
    <3> QED
      BY <3>1, <3>2
  <2> QED
    BY <1>7, <2>1, <2>2, <2>3, <2>4, <2>5 DEF IInv, Calling, Chunks, NoChunk
<1>10. Serving'
  <2>1. \A l \in Links :
          /\ session[l] \in {"none", "read"} <=> job[l] = NoChunk
          /\ session[l] \in {"none", "read", "bridge"} => done[l] = 0
          /\ bridge = l <=> session[l] = "apply"
          /\ requests[l] # <<>> => session[l] = "read" /\ Len(requests[l]) = 1
    BY DEF IInv, Serving
  <2>2. \A l \in Links : replies'[l] # <<>> => connection' = l /\ valid' /\ Len(replies'[l]) = 1
    BY DEF IInv, Serving
  <2>3. \A l \in Links : (\A u \in Threads : at'[u] # "reply") /\ connection' = l =>
          requests[l] = <<>> /\ replies'[l] = <<>> /\ session[l] \in {"none", "read"}
    <3> SUFFICES ASSUME NEW l \in Links, \A u \in Threads : at'[u] # "reply", connection' = l
                 PROVE  requests[l] = <<>> /\ replies'[l] = <<>> /\ session[l] \in {"none", "read"}
      OBVIOUS
    <3>1. connection' # NoLink /\ connection = l
      BY NoneAssumption
    <3>2. CASE at[t] = "reply"
      <4>1. Out[l] = NoChunk
        BY <3>1, <3>2
      <4> QED
        BY <3>1, <3>2, <4>1, OutTyped DEF IInv
    <3>3. CASE at[t] # "reply"
      <4>1. \A u \in Threads : at[u] # "reply"
        BY <1>4, <3>3
      <4> QED
        BY <3>1, <4>1 DEF IInv, Serving
    <3> QED
      BY <3>2, <3>3
  <2> QED
    BY <1>1, <2>1, <2>2, <2>3 DEF Serving
<1>11. \A u \in Threads : at'[u] = "reply" => u # t /\ at[u] = "reply" /\ connection' = connection /\ at[t] = "chunk"
  BY <1>4, <1>8
<1>12. \A u \in Threads : at'[u] = "reply" => Chunk(u)' = Chunk(u)
  <2> SUFFICES ASSUME NEW u \in Threads, at'[u] = "reply" PROVE Chunk(u)' = Chunk(u)
    OBVIOUS
  <2>1. call'[u] = call[u] /\ call[u] \in Calls \ {c}
    BY <1>4, <1>5, <1>11, ChunkTyped DEF IInv
  <2> QED
    BY <1>3, <1>4, <2>1 DEF Chunk
<1>13. Carrying'
  <2>1. ASSUME NEW l \in Links, Out[l] # NoChunk
        PROVE  /\ Out[l] \in Chunks
               /\ outcome'[Out[l].call] # "none"
               /\ Out[l].first = accepted'[Out[l].call] + 1
               /\ done[l] <= Out[l].count
               /\ Total[Out[l].call] = accepted'[Out[l].call] + done[l]
               /\ replies'[l] = <<>>
               /\ \A u \in Threads : call'[u] = Out[l].call =>
                    at'[u] = "reply" /\ connection' = l /\ Out[l] = Chunk(u)'
               /\ outcome'[Out[l].call] # "running" => Out[l].call \in given_up'
    <3>1. /\ Out[l] \in Chunks
          /\ outcome[Out[l].call] # "none"
          /\ Out[l].first = accepted[Out[l].call] + 1
          /\ done[l] <= Out[l].count
          /\ Total[Out[l].call] = accepted[Out[l].call] + done[l]
          /\ replies[l] = <<>>
          /\ \A u \in Threads : call[u] = Out[l].call => at[u] = "reply" /\ connection = l /\ Out[l] = Chunk(u)
          /\ outcome[Out[l].call] # "running" => Out[l].call \in given_up
      BY <2>1 DEF IInv, Carrying
    <3>2. Out[l].call \in Calls
      BY <3>1 DEF Chunks
    <3>3. CASE Out[l].call = c
      <4>1. n = 0 /\ c \in given_up'
        BY <2>1, <3>3 DEF c
      <4>2. accepted'[c] = accepted[c] /\ outcome'[c] \in {"done", "wine"} /\ call'[t] = 0
        BY <1>2, <1>4, <4>1
      <4>3. \A u \in Threads : call'[u] # c
        BY <1>2, <1>4, <1>5, <4>2, NumbersTyped DEF IInv
      <4> QED
        BY <3>1, <3>3, <4>1, <4>2, <4>3
    <3>4. CASE Out[l].call # c
      <4>1. accepted'[Out[l].call] = accepted[Out[l].call] /\ outcome'[Out[l].call] = outcome[Out[l].call]
        BY <1>4, <3>2, <3>4
      <4>2. ASSUME NEW u \in Threads, call'[u] = Out[l].call
            PROVE  at'[u] = "reply" /\ connection' = l /\ Out[l] = Chunk(u)'
        <5>1. u # t
          BY <1>4, <3>2, <3>4, <4>2, NumbersTyped DEF IInv
        <5>2. at[u] = "reply" /\ connection = l /\ Out[l] = Chunk(u) /\ at'[u] = "reply"
          BY <1>4, <3>1, <4>2, <5>1
        <5> QED
          BY <1>11, <1>12, <5>2
      <4> QED
        BY <3>1, <4>1, <4>2
    <3> QED
      BY <3>3, <3>4
  <2>2. \A u \in Threads : at'[u] = "reply" => (Out[connection'] # NoChunk => Out[connection'].call = call'[u])
    BY <1>4, <1>11 DEF IInv, Carrying
  <2>3. \A l, m \in Links : Out[l] # NoChunk /\ Out[m] # NoChunk /\ Out[m].call = Out[l].call => m = l
    BY DEF IInv, Carrying
  <2> QED
    BY <1>1, <2>1, <2>2, <2>3 DEF Carrying
<1>14. Answering'
  <2>1. ASSUME NEW u \in Threads
        PROVE  /\ at'[u] \in {"chunk", "locked"} => Total[call'[u]] = accepted'[call'[u]]
               /\ at'[u] = "reply" => Total[call'[u]] >= accepted'[call'[u]]
               /\ at'[u] = "reply" /\ replies'[connection'] # <<>> =>
                    /\ Head(replies'[connection']) <= Chunk(u)'.count
                    /\ Total[call'[u]] = accepted'[call'[u]] + Head(replies'[connection'])
    <3>1. CASE u = t
      BY <1>4, <1>11, <3>1 DEF c
    <3>2. CASE u # t /\ at'[u] # "idle"
      <4>1. at[u] = at'[u] /\ call'[u] = call[u] /\ call[u] \in Calls \ {c}
        BY <1>4, <1>5, <3>2, ChunkTyped DEF IInv
      <4>2. accepted'[call'[u]] = accepted[call[u]]
        BY <1>4, <4>1
      <4>3. at'[u] = "reply" => /\ connection' = connection /\ connection \in Links /\ Chunk(u)' = Chunk(u)
                                /\ replies'[connection] = replies[connection]
        BY <1>11, <1>12 DEF IInv, TypeOK, Calling
      <4> QED
        BY <4>1, <4>2, <4>3 DEF IInv, Answering
    <3> QED
      BY <3>1, <3>2
  <2>2. ASSUME NEW d \in Calls
        PROVE  /\ outcome'[d] = "none" => Total[d] = 0 /\ accepted'[d] = 0 /\ input[d] = <<>>
               /\ outcome'[d] = "wine" => accepted'[d] = 0
               /\ outcome'[d] \in {"done", "wine"} =>
                    Total[d] = accepted'[d] \/ (d \in given_up' /\ Total[d] > accepted'[d])
               /\ \A e \in before[d] : outcome'[e] \in {"done", "wine"}
    <3>1. \A e \in before[d] : e \in Calls /\ outcome[e] \in {"done", "wine"}
      BY DEF IInv, TypeOK, Answering
    <3>2. CASE d = c
      BY <1>2, <1>4, <3>1, <3>2 DEF c
    <3>3. CASE d # c
      BY <1>2, <1>4, <3>1, <3>3 DEF IInv, Answering
    <3> QED
      BY <3>2, <3>3
  <2> QED
    BY <1>1, <1>3, <2>1, <2>2 DEF Answering
<1>15. Logged'
  <2>1. AppliedInOrder' /\ CallsInOrder'
    BY <1>1, CountStays DEF IInv, Logged, AppliedInOrder, CallsInOrder, SameChunk
  <2> QED
    BY <1>1, <2>1 DEF IInv, Logged
<1> QED
  BY <1>6, <1>9, <1>10, <1>13, <1>14, <1>15 DEF IInv

\* A call that is not waiting for an answer has nothing on its way.
LEMMA NothingOut ==
    ASSUME IInv, NEW t \in Threads, at[t] # "reply"
    PROVE  \A l \in Links : Out[l] # NoChunk => Out[l].call # call[t]
BY DEF IInv, Carrying

LEMMA ChunkFailsKeeps ==
    ASSUME IInv, NEW t \in Threads, at[t] \in {"locked", "reply"}, ChunkFails(t),
           at[t] = "reply" => given_up' = given_up \cup {call[t]},
           at[t] = "locked" => UNCHANGED given_up,
           trouble' \in BOOLEAN
    PROVE  IInv'
<1>1. /\ connection' = NoLink /\ valid' = FALSE /\ lock' = NoThread
      /\ replies' = [l \in Links |-> IF l = connection THEN <<>> ELSE replies[l]]
      /\ Result(t, 0) /\ UNCHANGED <<requests, helper, log, before>>
  BY DEF ChunkFails
<1>2. lock = t
  BY NobodyElse DEF IInv
<1>3. call[t] \in Calls /\ Chunk(t).count \in 1..MaxEvents
  BY ChunkTyped DEF IInv
<1>4. 0 \in 0..Chunk(t).count /\ accepted[call[t]] + 0 = accepted[call[t]] /\ ~(0 > 0)
  BY <1>3, NumbersTyped, BoundsAssumption DEF IInv
<1>5. replies' \in [Links -> Seq(0..MaxEvents)]
  <2>1. <<>> \in Seq(0..MaxEvents)
    OBVIOUS
  <2> QED
    BY <1>1, <2>1 DEF IInv, TypeOK
<1>6. given_up' \in SUBSET Calls /\ given_up \subseteq given_up'
  BY <1>3 DEF IInv, TypeOK
<1>7. \/ Total[call[t]] = accepted[call[t]] + 0
      \/ Total[call[t]] > accepted[call[t]] + 0 /\ call[t] \in given_up'
  <2>1. Total[call[t]] \in Nat /\ accepted[call[t]] \in Nat
    BY <1>3, TotalTyped, NumbersTyped DEF IInv
  <2>2. CASE at[t] = "locked"
    BY <1>4, <2>2 DEF IInv, Answering
  <2>3. CASE at[t] = "reply"
    <3>1. Total[call[t]] >= accepted[call[t]]
      BY <2>3 DEF IInv, Answering
    <3> QED
      BY <1>4, <2>1, <2>3, <3>1
  <2> QED
    BY <2>2, <2>3
<1>8. \A l \in Links : Out[l] # NoChunk /\ Out[l].call = call[t] => 0 = 0 /\ call[t] \in given_up'
  BY NothingOut
<1>9. connection' = connection => valid' = valid
  BY <1>1 DEF IInv, TypeOK, Calling
<1> QED
  BY <1>1, <1>2, <1>4, <1>5, <1>6, <1>7, <1>8, <1>9, ResultKeeps

LEMMA RefuseKeeps ==
    ASSUME IInv, NEW t \in Threads, Refuse(t)
    PROVE  IInv'
<1>1. at[t] = "chunk" /\ Result(t, 0) /\ trouble' = TRUE /\ UNCHANGED <<hook, stream, helper, log, before, given_up>>
  BY DEF Refuse
<1>2. UNCHANGED <<lock, connection, valid, requests, replies>>
  BY <1>1 DEF hook, stream
<1>3. lock # t
  BY <1>1 DEF IInv, Calling
<1>4. call[t] \in Calls /\ Chunk(t).count \in 1..MaxEvents
  BY <1>1, ChunkTyped DEF IInv
<1>5. 0 \in 0..Chunk(t).count /\ accepted[call[t]] + 0 = accepted[call[t]] /\ ~(0 > 0)
  BY <1>4, NumbersTyped, BoundsAssumption DEF IInv
<1>6. Total[call[t]] = accepted[call[t]] + 0
  <2>1. Total[call[t]] = accepted[call[t]]
    BY <1>1 DEF IInv, Answering
  <2> QED
    BY <1>5, <2>1
<1>7. /\ replies \in [Links -> Seq(0..MaxEvents)] /\ given_up \in SUBSET Calls
      /\ connection = NoLink => ~valid
  BY DEF IInv, TypeOK, Calling
<1>8. \A l \in Links : Out[l] # NoChunk /\ Out[l].call = call[t] => 0 = 0 /\ call[t] \in given_up'
  BY <1>1, NothingOut
<1>9. /\ lock' = (IF lock = t THEN NoThread ELSE lock) /\ connection' \in {connection, NoLink}
      /\ valid' \in {valid, FALSE} /\ (connection' = connection => valid' = valid)
      /\ connection' = NoLink => ~valid'
      /\ replies' \in [Links -> Seq(0..MaxEvents)] /\ given_up' \in SUBSET Calls /\ trouble' \in BOOLEAN
  BY <1>1, <1>2, <1>3, <1>7
<1>10. /\ connection' = connection /\ given_up \subseteq given_up' /\ at[t] # "idle" /\ at[t] # "reply"
       /\ \A l \in Links : replies'[l] = IF l = connection /\ at[t] # "chunk" THEN <<>> ELSE replies[l]
       /\ UNCHANGED <<requests, helper, log, before>>
  BY <1>1, <1>2
<1>11. Result(t, 0)
  BY <1>1
<1> QED
  BY <1>5, <1>6, <1>8, <1>9, <1>10, <1>11, ResultKeeps

LEMMA TimeoutKeeps ==
    ASSUME IInv, NEW t \in Threads, Timeout(t)
    PROVE  IInv'
<1>1. trouble' \in BOOLEAN
  BY DEF Timeout, IInv, TypeOK
<1> QED
  BY <1>1, ChunkFailsKeeps DEF Timeout

LEMMA ReceiveKeeps ==
    ASSUME IInv, NEW t \in Threads, Receive(t)
    PROVE  IInv'
<1>1. /\ at[t] = "reply" /\ valid /\ replies[connection] # <<>>
      /\ connection \in Links /\ lock = t
  BY NobodyElse DEF Receive, IInv, TypeOK, Calling
<1> DEFINE n == Head(replies[connection])
<1>2. n \in Nat /\ Tail(replies[connection]) = <<>>
  <2>1. replies[connection] \in Seq(0..MaxEvents) /\ Len(replies[connection]) = 1
    BY <1>1 DEF IInv, TypeOK, Serving
  <2>2. n \in 0..MaxEvents /\ Tail(replies[connection]) = <<>>
    BY <2>1, Single
  <2> QED
    BY <2>2, BoundsAssumption
<1>3. n <= Chunk(t).count /\ Total[call[t]] = accepted[call[t]] + n
  BY <1>1 DEF IInv, Answering
<1>4. call[t] \in Calls /\ Chunk(t).count \in Nat
  BY <1>1, ChunkTyped, BoundsAssumption DEF IInv
<1>5. /\ Result(t, n) /\ replies' = [replies EXCEPT ![connection] = Tail(@)] /\ lock' = NoThread
      /\ UNCHANGED <<connection, valid, requests, helper, history>>
  <2>1. ~(n > Chunk(t).count)
    BY <1>2, <1>3, <1>4
  <2> HIDE DEF n
  <2> QED
    BY <2>1 DEF Receive, n
<1>6. n \in 0..Chunk(t).count
  BY <1>2, <1>3, <1>4
<1> HIDE DEF n
<1>7. /\ replies' \in [Links -> Seq(0..MaxEvents)]
      /\ \A l \in Links : replies'[l] = IF l = connection THEN <<>> ELSE replies[l]
  <2>1. replies' = [replies EXCEPT ![connection] = <<>>]
    BY <1>2, <1>5
  <2> QED
    BY <1>1, <2>1 DEF IInv, TypeOK
<1>8. Out[connection] = NoChunk
  BY <1>1 DEF IInv, Carrying
<1>9. \A l \in Links : Out[l] # NoChunk => Out[l].call # call[t]
  <2> SUFFICES ASSUME NEW l \in Links, Out[l] # NoChunk, Out[l].call = call[t] PROVE FALSE
    OBVIOUS
  <2>1. connection = l
    BY DEF IInv, Carrying
  <2> QED
    BY <1>8, <2>1
<1>10. /\ UNCHANGED <<log, before, given_up, trouble>>
       /\ given_up \in SUBSET Calls /\ trouble \in BOOLEAN /\ connection # NoLink
  BY <1>1, <1>5, NoneAssumption DEF history, IInv, TypeOK
<1> QED
  BY <1>1, <1>3, <1>5, <1>6, <1>7, <1>8, <1>9, <1>10, ResultKeeps

LEMMA SendInputKeeps ==
    ASSUME IInv, NEW t \in Threads, NEW events \in Inputs, SendInput(t, events)
    PROVE  IInv'
<1>1. PICK c \in Calls :
        /\ outcome[c] = "none"
        /\ call' = [call EXCEPT ![t] = c]
        /\ input' = [input EXCEPT ![c] = events]
        /\ outcome' = [outcome EXCEPT ![c] = "running"]
        /\ before' = [before EXCEPT ![c] = {d \in Calls : outcome[d] \in {"done", "wine"}}]
  BY DEF SendInput
<1>2. /\ at[t] = "idle" /\ at' = [at EXCEPT ![t] = "chunk"]
      /\ UNCHANGED <<accepted, lock, connection, valid, requests, replies, running, bridge, session, job, done,
                     log, given_up, trouble>>
      /\ Total' = Total /\ Out' = Out
  BY CountStays DEF SendInput, Goto, hook, stream, helper, Out
<1>3. /\ accepted[c] = 0 /\ Total[c] = 0 /\ events # <<>> /\ Len(events) \in Nat /\ Len(events) > 0
      /\ \A u \in Threads : call[u] # c
      /\ \A l \in Links : Out[l] # NoChunk => Out[l].call # c
      /\ call[t] = 0
  <2>1. accepted[c] = 0 /\ Total[c] = 0
    BY <1>1 DEF IInv, Answering
  <2>2. events \in Seq({"known", "other"}) /\ events # <<>>
    BY InputsAssumption
  <2>3. Len(events) \in Nat /\ Len(events) > 0
    BY <2>2, LenProperties, EmptySeq
  <2>4. \A u \in Threads : call[u] # c
    <3>1. \A u \in Threads : at[u] # "idle" => outcome[call[u]] = "running"
      BY DEF IInv, Calling
    <3>2. \A u \in Threads : at[u] = "idle" => call[u] = 0
      BY DEF IInv, Calling
    <3> QED
      BY <1>1, <3>1, <3>2, NumbersTyped DEF IInv
  <2>5. \A l \in Links : Out[l] # NoChunk => Out[l].call # c
    BY <1>1 DEF IInv, Carrying
  <2>6. call[t] = 0
    BY <1>2 DEF IInv, Calling
  <2> QED
    BY <2>1, <2>2, <2>3, <2>4, <2>5, <2>6
<1>4. /\ call'[t] = c /\ at'[t] = "chunk" /\ input'[c] = events /\ outcome'[c] = "running"
      /\ before'[c] = {d \in Calls : outcome[d] \in {"done", "wine"}}
      /\ \A u \in Threads \ {t} : call'[u] = call[u] /\ at'[u] = at[u]
      /\ \A d \in Calls \ {c} : input'[d] = input[d] /\ outcome'[d] = outcome[d] /\ before'[d] = before[d]
  BY <1>1, <1>2 DEF IInv, TypeOK
<1>5. TypeOK'
  <2>1. accepted' \in [Calls -> Nat] /\ \A d \in Calls : accepted'[d] <= Len(input'[d])
    <3>1. \A d \in Calls \ {c} : accepted'[d] <= Len(input'[d])
      BY <1>2, <1>4 DEF IInv, TypeOK
    <3>2. accepted'[c] <= Len(input'[c])
      BY <1>2, <1>3, <1>4
    <3> QED
      BY <1>2, <3>1, <3>2 DEF IInv, TypeOK
  <2>2. input' \in [Calls -> Inputs \cup {<<>>}] /\ call' \in [Threads -> Calls \cup {0}]
        /\ outcome' \in [Calls -> {"none", "running", "done", "wine"}]
        /\ at' \in [Threads -> {"idle", "chunk", "locked", "reply"}]
    BY <1>1, <1>2 DEF IInv, TypeOK
  <2>3. before' \in [Calls -> SUBSET Calls]
    BY <1>1 DEF IInv, TypeOK
  <2> QED
    BY <1>2, <2>1, <2>2, <2>3 DEF IInv, TypeOK
<1>6. Calling'
  <2>1. \A u \in Threads :
          /\ lock' = u <=> at'[u] \in {"locked", "reply"}
          /\ at'[u] = "idle" <=> call'[u] = 0
          /\ at'[u] = "reply" => connection' # NoLink
    BY <1>2, <1>4, NumbersTyped DEF IInv, Calling
  <2>2. \A u \in Threads : at'[u] # "idle" =>
          outcome'[call'[u]] = "running" /\ accepted'[call'[u]] < Len(input'[call'[u]])
    <3> SUFFICES ASSUME NEW u \in Threads, at'[u] # "idle"
                 PROVE  outcome'[call'[u]] = "running" /\ accepted'[call'[u]] < Len(input'[call'[u]])
      OBVIOUS
    <3>1. CASE u = t
      BY <1>2, <1>3, <1>4, <3>1
    <3>2. CASE u # t
      <4>1. call[u] \in Calls \ {c} /\ at[u] # "idle"
        BY <1>3, <1>4, <3>2, ChunkTyped DEF IInv
      <4> QED
        BY <1>2, <1>4, <3>2, <4>1 DEF IInv, Calling
    <3> QED
      BY <3>1, <3>2
  <2>3. \A u, w \in Threads : call'[u] = call'[w] => u = w \/ call'[u] = 0
    BY <1>3, <1>4 DEF IInv, Calling
  <2>4. \A d \in Calls : outcome'[d] = "running" => \E u \in Threads : call'[u] = d
    <3> SUFFICES ASSUME NEW d \in Calls, outcome'[d] = "running", d # c PROVE \E u \in Threads : call'[u] = d
      BY <1>4
    <3>1. PICK u \in Threads : call[u] = d
      BY <1>4 DEF IInv, Calling
    <3>2. u # t
      BY <1>3, <3>1, NumbersTyped DEF IInv
    <3> QED
      BY <1>4, <3>1, <3>2
  <2> QED
    BY <1>2, <2>1, <2>2, <2>3, <2>4 DEF IInv, Calling, Chunks, NoChunk
<1>7. Serving'
  BY <1>2, <1>4 DEF IInv, Serving
<1>8. \A u \in Threads : at'[u] = "reply" => u # t /\ at[u] = "reply" /\ Chunk(u)' = Chunk(u)
  <2> SUFFICES ASSUME NEW u \in Threads, at'[u] = "reply" PROVE u # t /\ at[u] = "reply" /\ Chunk(u)' = Chunk(u)
    OBVIOUS
  <2>1. u # t /\ at[u] = "reply"
    BY <1>4
  <2>2. call'[u] = call[u] /\ call[u] \in Calls \ {c}
    BY <1>3, <1>4, <2>1, ChunkTyped DEF IInv
  <2> QED
    BY <1>2, <1>4, <2>1, <2>2 DEF Chunk
<1>9. Carrying'
  <2>1. ASSUME NEW l \in Links, Out[l] # NoChunk
        PROVE  /\ outcome'[Out[l].call] # "none"
               /\ outcome'[Out[l].call] # "running" => Out[l].call \in given_up
               /\ \A u \in Threads : call'[u] = Out[l].call =>
                    at'[u] = "reply" /\ connection = l /\ Out[l] = Chunk(u)'
    <3>1. Out[l].call \in Calls \ {c}
      BY <1>3, <2>1 DEF IInv, Carrying, Chunks
    <3>2. /\ outcome[Out[l].call] # "none"
          /\ outcome[Out[l].call] # "running" => Out[l].call \in given_up
          /\ \A u \in Threads : call[u] = Out[l].call => at[u] = "reply" /\ connection = l /\ Out[l] = Chunk(u)
      BY <2>1 DEF IInv, Carrying
    <3> QED
      BY <1>4, <1>8, <3>1, <3>2
  <2>2. \A u \in Threads : at'[u] = "reply" => (Out[connection] # NoChunk => Out[connection].call = call'[u])
    BY <1>4, <1>8 DEF IInv, Carrying
  <2> QED
    BY <1>2, <2>1, <2>2 DEF IInv, Carrying
<1>10. Answering'
  <2>1. ASSUME NEW u \in Threads
        PROVE  /\ at'[u] \in {"chunk", "locked"} => Total[call'[u]] = accepted[call'[u]]
               /\ at'[u] = "reply" => Total[call'[u]] >= accepted[call'[u]]
               /\ at'[u] = "reply" /\ replies[connection] # <<>> =>
                    /\ Head(replies[connection]) <= Chunk(u)'.count
                    /\ Total[call'[u]] = accepted[call'[u]] + Head(replies[connection])
    <3>1. CASE u = t
      BY <1>3, <1>4, <3>1
    <3>2. CASE u # t
      BY <1>4, <1>8, <3>2 DEF IInv, Answering
    <3> QED
      BY <3>1, <3>2
  <2>2. ASSUME NEW d \in Calls
        PROVE  /\ outcome'[d] = "none" => Total[d] = 0 /\ accepted[d] = 0 /\ input'[d] = <<>>
               /\ outcome'[d] = "wine" => accepted[d] = 0
               /\ outcome'[d] \in {"done", "wine"} =>
                    Total[d] = accepted[d] \/ (d \in given_up /\ Total[d] > accepted[d])
               /\ \A e \in before'[d] : outcome'[e] \in {"done", "wine"}
    <3>1. \A e \in Calls : outcome[e] \in {"done", "wine"} => outcome'[e] \in {"done", "wine"}
      BY <1>1, <1>4
    <3>2. CASE d = c
      BY <1>4, <3>1, <3>2
    <3>3. CASE d # c
      BY <1>4, <3>1, <3>3 DEF IInv, TypeOK, Answering
    <3> QED
      BY <3>2, <3>3
  <2> QED
    BY <1>2, <2>1, <2>2 DEF Answering
<1>11. Logged'
  <2>1. AppliedInOrder'
    BY <1>2, CountStays DEF IInv, Logged, AppliedInOrder, SameChunk
  <2>2. \A i \in DOMAIN log : log[i].call # c
    <3> SUFFICES ASSUME NEW i \in DOMAIN log, log[i].call = c PROVE FALSE
      OBVIOUS
    <3>1. log[i].first <= log[i].event /\ log[i].event <= 0
      BY <1>3 DEF IInv, Logged
    <3>2. log[i].first \in Nat \ {0} /\ log[i].event \in Nat
      BY LogTyped DEF IInv
    <3> QED
      BY <3>1, <3>2
  <2>3. CallsInOrder'
    <3>1. \A i \in DOMAIN log : before'[log[i].call] = before[log[i].call]
      <4>1. \A i \in DOMAIN log : log[i].call \in Calls
        BY LogTyped DEF IInv
      <4> QED
        BY <1>4, <2>2, <4>1
    <3> QED
      BY <1>2, <3>1 DEF IInv, Logged, CallsInOrder
  <2> QED
    BY <1>2, <2>1, <2>3 DEF IInv, Logged
<1> QED
  BY <1>5, <1>6, <1>7, <1>9, <1>10, <1>11 DEF IInv

\* The log does not change, and no session begins to apply a chunk.
LEMMA LoggedStays ==
    ASSUME Logged, UNCHANGED <<log, before>>, given_up \subseteq given_up',
           \A l \in Links : session'[l] = "apply" =>
             session[l] = "apply" /\ UNCHANGED <<job[l], done[l]>>
    PROVE  Logged'
<1>1. Total' = Total /\ AppliedInOrder'
  BY CountStays DEF Logged, AppliedInOrder, SameChunk
<1>2. CallsInOrder'
  BY DEF Logged, CallsInOrder
<1> QED
  BY <1>1, <1>2 DEF Logged

LEMMA LockKeeps ==
    ASSUME IInv, NEW t \in Threads, Lock(t)
    PROVE  IInv'
<1>1. /\ at[t] = "chunk" /\ lock = NoThread /\ lock' = t /\ at' = [at EXCEPT ![t] = "locked"]
      /\ UNCHANGED <<call, input, accepted, outcome, connection, valid, requests, replies, running, bridge, session,
                     job, done, log, before, given_up, trouble>>
  BY DEF Lock, Goto, stream, helper, history
<1>2. /\ at'[t] = "locked" /\ \A u \in Threads \ {t} : at'[u] = at[u]
      /\ \A u \in Threads : at[u] \notin {"locked", "reply"} /\ (at'[u] = "idle" <=> at[u] = "idle")
      /\ \A u \in Threads : at'[u] # "reply"
  BY <1>1, NoneAssumption DEF IInv, TypeOK, Calling
<1>3. Total' = Total /\ Out' = Out
  BY <1>1, CountStays DEF Out
<1>4. TypeOK'
  BY <1>1 DEF IInv, TypeOK
<1>5. Calling'
  BY <1>1, <1>2, NoneAssumption DEF IInv, Calling, Chunks, NoChunk
<1>6. Serving'
  BY <1>1, <1>2 DEF IInv, Serving
<1>7. \A l \in Links : Out[l] # NoChunk => \A u \in Threads : call[u] # Out[l].call
  BY <1>2 DEF IInv, Carrying
<1>8. Carrying'
  BY <1>1, <1>2, <1>3, <1>7 DEF IInv, Carrying
<1>9. Answering'
  <2>1. \A u \in Threads : at'[u] \in {"chunk", "locked"} => Total[call[u]] = accepted[call[u]]
    BY <1>1, <1>2 DEF IInv, Answering
  <2> QED
    BY <1>1, <1>2, <1>3, <2>1 DEF IInv, Answering
<1>10. Logged'
  BY <1>1, LoggedStays DEF IInv
<1> QED
  BY <1>4, <1>5, <1>6, <1>8, <1>9, <1>10 DEF IInv

LEMMA ConnectKeeps ==
    ASSUME IInv, NEW t \in Threads, Connect(t)
    PROVE  IInv'
<1>1. CASE ChunkFails(t) /\ trouble' = TRUE /\ UNCHANGED given_up
  BY <1>1, ChunkFailsKeeps DEF Connect
<1>2. CASE ~(ChunkFails(t) /\ trouble' = TRUE /\ UNCHANGED given_up)
  <2>1. PICK l \in Links :
          /\ running /\ session[l] = "none" /\ connection' = l /\ valid' = TRUE
          /\ \/ session' = [session EXCEPT ![l] = "read"] /\ UNCHANGED trouble
             \/ trouble' = TRUE /\ UNCHANGED session
          /\ UNCHANGED <<calls, lock, stream, running, bridge, job, done, log, before, given_up>>
    BY <1>2 DEF Connect
  <2>2. /\ at[t] = "locked" /\ connection = NoLink /\ ~valid
        /\ \A u \in Threads : at[u] # "reply"
    BY NobodyElse DEF Connect, IInv, Calling
  <2>3. UNCHANGED <<at, call, input, accepted, outcome, requests, replies>> /\ Total' = Total /\ Out' = Out
    BY <2>1, CountStays DEF calls, stream, Out
  <2>4. /\ session'[l] \in {"none", "read"}
        /\ \A m \in Links \ {l} : session'[m] = session[m]
        /\ \A m \in Links : (session'[m] \in {"none", "read"} <=> session[m] \in {"none", "read"})
                            /\ (session'[m] = "apply" <=> session[m] = "apply")
                            /\ (session'[m] = "bridge" <=> session[m] = "bridge")
    BY <2>1 DEF IInv, TypeOK
  <2>5. requests[l] = <<>> /\ \A m \in Links : replies[m] = <<>>
    BY <2>1, <2>2 DEF IInv, Serving
  <2>6. TypeOK'
    BY <2>1, <2>3 DEF IInv, TypeOK
  <2>7. Calling'
    BY <2>1, <2>2, <2>3, NoneAssumption DEF IInv, Calling, Chunks, NoChunk
  <2>8. Serving'
    <3>1. \A m \in Links : requests[m] # <<>> => session'[m] = "read" /\ Len(requests[m]) = 1
      BY <2>4, <2>5 DEF IInv, Serving
    <3>2. \A m \in Links : bridge' = m <=> session'[m] = "apply"
      BY <2>1, <2>4 DEF IInv, Serving
    <3>3. \A m \in Links : /\ session'[m] \in {"none", "read"} <=> job'[m] = NoChunk
                           /\ session'[m] \in {"none", "read", "bridge"} => done'[m] = 0
      BY <2>1, <2>4 DEF IInv, Serving
    <3> QED
      BY <2>1, <2>3, <2>4, <2>5, <3>1, <3>2, <3>3 DEF Serving
  <2>9. \A m \in Links : Out[m] # NoChunk => \A u \in Threads : call[u] # Out[m].call
    BY <2>2 DEF IInv, Carrying
  <2>10. Carrying'
    BY <2>1, <2>2, <2>3, <2>9 DEF IInv, Carrying
  <2>11. Answering'
    BY <2>1, <2>2, <2>3 DEF IInv, Answering
  <2>12. Logged'
    <3>1. \A m \in Links : session'[m] = "apply" => session[m] = "apply"
      BY <2>4
    <3> QED
      BY <2>1, <3>1, LoggedStays DEF IInv
  <2> QED
    BY <2>6, <2>7, <2>8, <2>10, <2>11, <2>12 DEF IInv
<1> QED
  BY <1>1, <1>2

LEMMA SendKeeps ==
    ASSUME IInv, NEW t \in Threads, Send(t)
    PROVE  IInv'
<1>1. CASE ChunkFails(t) /\ UNCHANGED <<given_up, trouble>>
  <2>1. trouble' \in BOOLEAN
    BY <1>1 DEF IInv, TypeOK
  <2> QED
    BY <1>1, <2>1, ChunkFailsKeeps DEF Send
<1>2. CASE ~(ChunkFails(t) /\ UNCHANGED <<given_up, trouble>>)
  <2> DEFINE k == connection
  <2>1. /\ at[t] = "locked" /\ k # NoLink /\ valid
        /\ \/ session[k] # "none" /\ requests' = [requests EXCEPT ![k] = Append(@, Chunk(t))]
           \/ session[k] = "none" /\ UNCHANGED requests
        /\ at' = [at EXCEPT ![t] = "reply"]
        /\ UNCHANGED <<call, input, accepted, outcome, hook, replies, helper, history>>
    BY <1>2 DEF Send, Goto, stream
  <2>2. UNCHANGED <<lock, connection, valid, running, bridge, session, job, done, log, before, given_up, trouble>>
        /\ Total' = Total
    BY <2>1, CountStays DEF hook, helper, history
  <2>3. /\ k \in Links /\ lock = t /\ \A u \in Threads : at[u] # "reply"
        /\ \A u \in Threads \ {t} : at[u] \notin {"locked", "reply"}
    BY <2>1, NobodyElse DEF IInv, TypeOK
  <2> HIDE DEF k
  <2>4. requests[k] = <<>> /\ replies[k] = <<>> /\ session[k] \in {"none", "read"} /\ done[k] = 0 /\ job[k] = NoChunk
    BY <2>3 DEF IInv, Serving, k
  <2>5. /\ call[t] \in Calls /\ Chunk(t) \in Chunks /\ Chunk(t) # NoChunk
        /\ Chunk(t).call = call[t] /\ Chunk(t).first = accepted[call[t]] + 1 /\ Chunk(t).count >= 0
    BY <2>1, ChunkTyped, BoundsAssumption DEF IInv
  <2>6. /\ \A m \in Links \ {k} : requests'[m] = requests[m] /\ Out'[m] = Out[m]
        /\ \/ session[k] = "read" /\ requests'[k] = <<Chunk(t)>> /\ Out'[k] = Chunk(t)
           \/ session[k] = "none" /\ requests'[k] = <<>> /\ Out'[k] = NoChunk
        /\ requests' \in [Links -> Seq(Chunks)]
    <3>1. requests \in [Links -> Seq(Chunks)]
      BY DEF IInv, TypeOK
    <3>2. Append(<<>>, Chunk(t)) = <<Chunk(t)>> /\ Head(<<Chunk(t)>>) = Chunk(t) /\ <<Chunk(t)>> # <<>>
          /\ <<Chunk(t)>> \in Seq(Chunks)
      BY <2>5
    <3>3. CASE session[k] = "none" /\ UNCHANGED requests
      <4>1. Out' = Out /\ Out[k] = NoChunk
        BY <2>2, <2>3, <2>4, <3>3 DEF Out
      <4> QED
        BY <2>4, <3>1, <3>3, <4>1
    <3>4. CASE session[k] # "none" /\ requests' = [requests EXCEPT ![k] = Append(@, Chunk(t))]
      <4>1. requests' = [requests EXCEPT ![k] = <<Chunk(t)>>] /\ requests'[k] = <<Chunk(t)>>
        BY <2>3, <2>4, <3>1, <3>2, <3>4
      <4>2. \A m \in Links \ {k} : requests'[m] = requests[m]
        BY <3>1, <4>1
      <4>3. Out'[k] = Chunk(t)
        BY <2>3, <3>2, <4>1 DEF Out
      <4>4. \A m \in Links \ {k} : Out'[m] = Out[m]
        BY <2>2, <4>2 DEF Out
      <4>5. requests' \in [Links -> Seq(Chunks)]
        BY <3>1, <3>2, <4>1
      <4>6. session[k] = "read"
        BY <2>4, <3>4
      <4> QED
        BY <4>1, <4>2, <4>3, <4>4, <4>5, <4>6
    <3>5. \/ session[k] = "none" /\ UNCHANGED requests
          \/ session[k] # "none" /\ requests' = [requests EXCEPT ![k] = Append(@, Chunk(t))]
      BY <2>1
    <3> QED
      BY <3>3, <3>4, <3>5
  <2>7. at'[t] = "reply" /\ \A u \in Threads \ {t} : at'[u] = at[u] /\ at'[u] \notin {"locked", "reply"}
    BY <2>1, <2>3 DEF IInv, TypeOK
  <2>8. TypeOK'
    BY <2>1, <2>2, <2>6 DEF IInv, TypeOK
  <2>9. Calling'
    BY <2>1, <2>2, <2>3, <2>7, NoneAssumption DEF IInv, Calling, Chunks, NoChunk, k
  <2>10. Serving'
    <3>1. \A m \in Links : requests'[m] # <<>> => session[m] = "read" /\ Len(requests'[m]) = 1
      <4>1. Len(<<Chunk(t)>>) = 1
        OBVIOUS
      <4> QED
        BY <2>6, <4>1 DEF IInv, Serving
    <3> QED
      BY <2>1, <2>2, <2>7, <3>1 DEF IInv, Serving
  <2>11. Chunk(t)' = Chunk(t)
    BY <2>1 DEF Chunk
  <2>12. \A m \in Links : Out[m] # NoChunk => \A u \in Threads : call[u] # Out[m].call
    BY <2>3 DEF IInv, Carrying
  <2>13. Total[call[t]] = accepted[call[t]] /\ outcome[call[t]] = "running"
    BY <2>1 DEF IInv, Calling, Answering
  <2>14. accepted[call[t]] + 0 = accepted[call[t]]
    BY <2>5, NumbersTyped DEF IInv
  <2>15. Carrying'
    <3>1. ASSUME NEW m \in Links, Out'[m] # NoChunk
          PROVE  /\ Out'[m] \in Chunks
                 /\ outcome[Out'[m].call] # "none"
                 /\ Out'[m].first = accepted[Out'[m].call] + 1
                 /\ done[m] <= Out'[m].count
                 /\ Total[Out'[m].call] = accepted[Out'[m].call] + done[m]
                 /\ replies[m] = <<>>
                 /\ \A u \in Threads : call[u] = Out'[m].call =>
                      at'[u] = "reply" /\ k = m /\ Out'[m] = Chunk(u)'
                 /\ outcome[Out'[m].call] # "running" => Out'[m].call \in given_up
                 /\ \A n \in Links : Out'[n] # NoChunk /\ Out'[n].call = Out'[m].call => n = m
      <4>1. CASE m = k
        <5>1. Out'[m] = Chunk(t) /\ Out'[m].call = call[t]
          BY <2>5, <2>6, <3>1, <4>1
        <5>2. \A u \in Threads : call[u] = call[t] => u = t
          BY <2>5, NumbersTyped DEF IInv, Calling
        <5>3. \A n \in Links : Out'[n] # NoChunk /\ Out'[n].call = call[t] => n = k
          BY <2>6, <2>12
        <5> QED
          BY <2>4, <2>5, <2>7, <2>11, <2>13, <2>14, <4>1, <5>1, <5>2, <5>3
      <4>2. CASE m # k
        <5>1. Out'[m] = Out[m] /\ Out[m] # NoChunk
          BY <2>6, <3>1, <4>2
        <5>2. \A n \in Links : Out'[n] # NoChunk /\ Out'[n].call = Out[m].call => n = m
          <6>1. Out[m].call # call[t]
            BY <2>12, <5>1
          <6> QED
            BY <2>5, <2>6, <5>1, <6>1 DEF IInv, Carrying
        <5> QED
          BY <2>12, <5>1, <5>2 DEF IInv, Carrying
      <4> QED
        BY <4>1, <4>2
    <3>2. \A u \in Threads : at'[u] = "reply" => (Out'[k] # NoChunk => Out'[k].call = call[u])
      BY <2>5, <2>6, <2>7
    <3> QED
      BY <2>1, <2>2, <3>1, <3>2 DEF Carrying, k
  <2>16. Answering'
    <3>1. Total[call[t]] >= accepted[call[t]]
      BY <2>5, <2>13, NumbersTyped DEF IInv
    <3> QED
      BY <2>1, <2>2, <2>4, <2>7, <3>1 DEF IInv, Answering, k
  <2>17. Logged'
    BY <2>2, LoggedStays DEF IInv
  <2> QED
    BY <2>8, <2>9, <2>10, <2>15, <2>16, <2>17 DEF IInv
<1> QED
  BY <1>1, <1>2

LEMMA HostCleanupKeeps ==
    ASSUME IInv, HostCleanup
    PROVE  IInv'
<1>1. /\ valid /\ valid' = FALSE /\ replies' = [replies EXCEPT ![connection] = <<>>] /\ trouble' \in BOOLEAN
      /\ UNCHANGED <<at, call, input, accepted, outcome, lock, connection, requests, running, bridge, session, job,
                     done, log, before, given_up>>
      /\ Total' = Total /\ Out' = Out
  BY CountStays DEF HostCleanup, calls, helper, Out, IInv, TypeOK
<1>2. connection \in Links /\ connection # NoLink
  BY <1>1 DEF IInv, TypeOK, Calling
<1>3. \A l \in Links : replies'[l] = <<>>
  BY <1>1, <1>2 DEF IInv, TypeOK, Serving
<1>4. TypeOK'
  <2>1. replies' \in [Links -> Seq(0..MaxEvents)]
    BY <1>1, <1>2 DEF IInv, TypeOK
  <2> QED
    BY <1>1, <2>1 DEF IInv, TypeOK
<1>5. Calling'
  BY <1>1, <1>2 DEF IInv, Calling, Chunks, NoChunk
<1>6. Serving'
  BY <1>1, <1>3 DEF IInv, Serving
<1>7. \A t \in Threads : Chunk(t)' = Chunk(t)
  BY <1>1 DEF Chunk
<1>8. Carrying'
  BY <1>1, <1>3, <1>7 DEF IInv, Carrying
<1>9. Answering'
  <2>1. \A t \in Threads : at[t] = "reply" => replies'[connection] = <<>>
    BY <1>2, <1>3
  <2> QED
    BY <1>1, <2>1 DEF IInv, Answering
<1>10. Logged'
  BY <1>1, LoggedStays DEF IInv
<1> QED
  BY <1>4, <1>5, <1>6, <1>8, <1>9, <1>10 DEF IInv

-----------------------------------------------------------------------------
(* The helper *)

(***************************************************************************)
(* A session goes on with its chunk, ends without an answer, or answers.   *)
(* Nothing is applied, and nothing changes for the other sessions.         *)
(***************************************************************************)
LEMMA SessionKeeps ==
    ASSUME IInv, NEW l \in Links,
           UNCHANGED <<calls, hook, running, log, before, given_up>>, trouble' \in BOOLEAN,
           \A m \in Links \ {l} : UNCHANGED <<requests[m], replies[m], session[m], job[m], done[m]>>,
           requests' \in [Links -> Seq(Chunks)], replies' \in [Links -> Seq(0..MaxEvents)],
           session' \in [Links -> {"none", "read", "bridge", "apply", "answer"}],
           job' \in [Links -> Chunks \cup {NoChunk}], done' \in [Links -> 0..MaxEvents],
           bridge' \in Links \cup {NoLink}, \A m \in Links : bridge' = m <=> session'[m] = "apply",
           session'[l] \in {"none", "read"} <=> job'[l] = NoChunk,
           session'[l] \in {"none", "read", "bridge"} => done'[l] = 0,
           requests'[l] # <<>> => session'[l] = "read" /\ requests'[l] = requests[l],
           requests[l] = <<>> /\ session[l] \in {"none", "read"} =>
             requests'[l] = <<>> /\ session'[l] \in {"none", "read"} /\ replies'[l] = replies[l],
           Out'[l] # NoChunk => Out'[l] = Out[l] /\ done'[l] = done[l],
           \/ replies'[l] = replies[l]
           \/ /\ Out[l] # NoChunk /\ Out'[l] = NoChunk /\ connection = l /\ valid
              /\ replies'[l] = <<done[l]>>,
           Out'[l] # NoChunk => replies'[l] = replies[l],
           session'[l] = "apply" =>
             \/ session[l] = "apply" /\ UNCHANGED <<job[l], done[l]>>
             \/ session[l] = "bridge" /\ done'[l] = 0 /\ UNCHANGED <<job[l]>>
    PROVE  IInv'
<1>1. /\ UNCHANGED <<at, call, input, accepted, outcome, lock, connection, valid, running, log, before, given_up>>
      /\ Total' = Total /\ \A t \in Threads : Chunk(t)' = Chunk(t)
  BY CountStays DEF calls, hook, Chunk
<1>2. \A m \in Links \ {l} : Out'[m] = Out[m]
  BY DEF Out
<1>3. Len(<<done[l]>>) = 1 /\ Head(<<done[l]>>) = done[l]
  OBVIOUS
<1>4. TypeOK'
  BY <1>1 DEF IInv, TypeOK
<1>5. Calling'
  BY <1>1 DEF IInv, Calling, Chunks, NoChunk
<1>6. Serving'
  <2>1. ASSUME NEW m \in Links
        PROVE  /\ session'[m] \in {"none", "read"} <=> job'[m] = NoChunk
               /\ session'[m] \in {"none", "read", "bridge"} => done'[m] = 0
               /\ requests'[m] # <<>> => session'[m] = "read" /\ Len(requests'[m]) = 1
               /\ replies'[m] # <<>> => connection = m /\ valid /\ Len(replies'[m]) = 1
               /\ (\A t \in Threads : at[t] # "reply") /\ connection = m =>
                    requests'[m] = <<>> /\ replies'[m] = <<>> /\ session'[m] \in {"none", "read"}
    <3>1. CASE m = l
      <4>1. requests'[l] # <<>> => session'[l] = "read" /\ Len(requests'[l]) = 1
        BY DEF IInv, Serving
      <4>2. replies'[l] # <<>> => connection = l /\ valid /\ Len(replies'[l]) = 1
        <5>1. CASE replies'[l] = replies[l]
          BY <5>1 DEF IInv, Serving
        <5>2. CASE connection = l /\ valid /\ replies'[l] = <<done[l]>>
          BY <1>3, <5>2
        <5> QED
          BY <5>1, <5>2
      <4>3. ASSUME \A t \in Threads : at[t] # "reply", connection = l
            PROVE  requests'[l] = <<>> /\ replies'[l] = <<>> /\ session'[l] \in {"none", "read"}
        <5>1. requests[l] = <<>> /\ replies[l] = <<>> /\ session[l] \in {"none", "read"}
          BY <4>3 DEF IInv, Serving
        <5> QED
          BY <5>1
      <4> QED
        BY <3>1, <4>1, <4>2, <4>3
    <3>2. CASE m # l
      <4>1. UNCHANGED <<requests[m], replies[m], session[m], job[m], done[m]>>
        BY <3>2
      <4> QED
        BY <4>1 DEF IInv, Serving
    <3> QED
      BY <3>1, <3>2
  <2> QED
    BY <1>1, <2>1 DEF Serving
<1>7. Carrying'
  <2>1. \A m \in Links : Out'[m] # NoChunk => Out'[m] = Out[m] /\ done'[m] = done[m] /\ replies'[m] = replies[m]
    BY <1>2
  <2>2. \A t \in Threads : at[t] = "reply" => connection \in Links
    BY DEF IInv, TypeOK, Calling
  <2>3. ASSUME NEW m \in Links, Out'[m] # NoChunk
        PROVE  /\ Out'[m] \in Chunks
               /\ outcome[Out'[m].call] # "none"
               /\ Out'[m].first = accepted[Out'[m].call] + 1
               /\ done'[m] <= Out'[m].count
               /\ Total[Out'[m].call] = accepted[Out'[m].call] + done'[m]
               /\ replies'[m] = <<>>
               /\ \A t \in Threads : call[t] = Out'[m].call =>
                    at[t] = "reply" /\ connection = m /\ Out'[m] = Chunk(t)
               /\ outcome[Out'[m].call] # "running" => Out'[m].call \in given_up
               /\ \A n \in Links : Out'[n] # NoChunk /\ Out'[n].call = Out'[m].call => n = m
    <3>1. Out'[m] = Out[m] /\ Out[m] # NoChunk /\ done'[m] = done[m] /\ replies'[m] = replies[m]
      BY <2>1, <2>3
    <3>2. \A n \in Links : Out'[n] # NoChunk => Out'[n] = Out[n]
      BY <2>1
    <3>3. /\ Out[m] \in Chunks
          /\ outcome[Out[m].call] # "none"
          /\ Out[m].first = accepted[Out[m].call] + 1
          /\ done[m] <= Out[m].count
          /\ Total[Out[m].call] = accepted[Out[m].call] + done[m]
          /\ replies[m] = <<>>
          /\ \A t \in Threads : call[t] = Out[m].call =>
               at[t] = "reply" /\ connection = m /\ Out[m] = Chunk(t)
          /\ outcome[Out[m].call] # "running" => Out[m].call \in given_up
          /\ \A n \in Links : Out[n] # NoChunk /\ Out[n].call = Out[m].call => n = m
      BY <3>1 DEF IInv, Carrying
    <3>4. \A n \in Links : Out'[n] # NoChunk /\ Out'[n].call = Out'[m].call => n = m
      BY <3>1, <3>2, <3>3
    <3> QED
      BY <3>1, <3>3, <3>4
  <2>4. \A t \in Threads : at[t] = "reply" => (Out'[connection] # NoChunk => Out'[connection].call = call[t])
    BY <2>1, <2>2 DEF IInv, Carrying
  <2> QED
    BY <1>1, <2>3, <2>4 DEF Carrying
<1>8. Answering'
  <2>1. ASSUME NEW t \in Threads, at[t] = "reply", replies'[connection] # <<>>
        PROVE  /\ Head(replies'[connection]) <= Chunk(t).count
               /\ Total[call[t]] = accepted[call[t]] + Head(replies'[connection])
    <3>1. connection \in Links
      BY <2>1 DEF IInv, TypeOK, Calling
    <3>2. CASE replies'[connection] = replies[connection]
      BY <2>1, <3>2 DEF IInv, Answering
    <3>3. CASE replies'[connection] # replies[connection]
      <4>1. connection = l /\ Out[l] # NoChunk /\ replies'[l] = <<done[l]>>
        BY <3>1, <3>3
      <4>2. Out[l].call = call[t]
        BY <2>1, <4>1 DEF IInv, Carrying
      <4>3. Out[l] = Chunk(t) /\ done[l] <= Out[l].count /\ Total[call[t]] = accepted[call[t]] + done[l]
        BY <4>1, <4>2 DEF IInv, Carrying
      <4> QED
        BY <1>3, <4>1, <4>3
    <3> QED
      BY <3>2, <3>3
  <2> QED
    BY <1>1, <2>1 DEF IInv, Answering
<1>9. Logged'
  <2>1. AppliedInOrder' /\ CallsInOrder'
    BY <1>1, CountStays DEF IInv, Logged, AppliedInOrder, CallsInOrder, SameChunk
  <2>2. \A i \in DOMAIN log : log[i].first <= log[i].event /\ log[i].event <= Total[log[i].call]
    BY DEF IInv, Logged
  <2>3. ASSUME NEW m \in Links, session'[m] = "apply"
        PROVE  /\ done'[m] <= Len(log)
               /\ \A i \in DOMAIN log :
                    i > Len(log) - done'[m] <=> log[i].call = job'[m].call /\ log[i].first = job'[m].first
    <3>1. CASE session[m] = "apply" /\ UNCHANGED <<job[m], done[m]>>
      BY <3>1 DEF IInv, Logged
    <3>2. CASE m = l /\ session[l] = "bridge" /\ done'[l] = 0 /\ UNCHANGED <<job[l]>>
      <4>1. /\ Out[l] = job[l] /\ Out[l] # NoChunk /\ done[l] = 0
        BY <3>2, OutTyped DEF IInv, Serving
      <4>2. /\ job[l].call \in Calls /\ job[l].first = accepted[job[l].call] + 1
            /\ Total[job[l].call] = accepted[job[l].call] + 0
        BY <4>1 DEF IInv, Carrying, Chunks
      <4>3. Total[job[l].call] \in Nat /\ accepted[job[l].call] \in Nat
        BY <4>2, TotalTyped, NumbersTyped DEF IInv
      <4>4. \A i \in DOMAIN log : ~(log[i].call = job[l].call /\ log[i].first = job[l].first)
        <5> SUFFICES ASSUME NEW i \in DOMAIN log, log[i].call = job[l].call, log[i].first = job[l].first
                     PROVE  FALSE
          OBVIOUS
        <5>1. log[i].first \in Nat /\ log[i].event \in Nat
          BY LogTyped DEF IInv
        <5> QED
          BY <2>2, <4>2, <4>3, <5>1
      <4>5. Len(log) \in Nat /\ \A i \in DOMAIN log : i \in 1..Len(log)
        BY NumbersTyped, LogTyped DEF IInv
      <4> QED
        BY <3>2, <4>4, <4>5
    <3> QED
      BY <2>3, <3>1, <3>2
  <2> QED
    BY <1>1, <2>1, <2>2, <2>3 DEF Logged
<1> QED
  BY <1>4, <1>5, <1>6, <1>7, <1>8, <1>9 DEF IInv

LEMMA ReadInputKeeps ==
    ASSUME IInv, NEW l \in Links, ReadInput(l)
    PROVE  IInv'
<1>1. /\ session[l] = "read" /\ requests[l] # <<>>
      /\ requests' = [requests EXCEPT ![l] = Tail(@)]
      /\ job' = [job EXCEPT ![l] = Head(requests[l])]
      /\ session' = [session EXCEPT ![l] = "bridge"]
      /\ UNCHANGED <<calls, hook, replies, running, bridge, done, log, before, given_up, trouble>>
  BY DEF ReadInput, history
<1>2. /\ Out[l] = Head(requests[l]) /\ Out[l] \in Chunks /\ Out[l] # NoChunk /\ Tail(requests[l]) = <<>>
      /\ done[l] = 0 /\ replies[l] = <<>>
  BY <1>1, OutTyped DEF IInv, Serving, Carrying
<1>3. /\ requests'[l] = <<>> /\ job'[l] = Out[l] /\ session'[l] = "bridge"
      /\ \A m \in Links \ {l} : UNCHANGED <<requests[m], session[m], job[m]>>
  BY <1>1, <1>2 DEF IInv, TypeOK
<1>4. requests' \in [Links -> Seq(Chunks)] /\ job' \in [Links -> Chunks \cup {NoChunk}]
      /\ session' \in [Links -> {"none", "read", "bridge", "apply", "answer"}]
  <2>1. requests' = [requests EXCEPT ![l] = Tail(requests[l])]
    BY <1>1
  <2>2. <<>> \in Seq(Chunks) /\ requests \in [Links -> Seq(Chunks)]
    BY DEF IInv, TypeOK
  <2>3. requests' \in [Links -> Seq(Chunks)]
    BY <1>2, <2>1, <2>2
  <2> QED
    BY <1>1, <1>2, <2>3 DEF IInv, TypeOK
<1>5. Out'[l] = Out[l]
  BY <1>3 DEF Out
<1>6. \A m \in Links : bridge' = m <=> session'[m] = "apply"
  BY <1>1, <1>3 DEF IInv, Serving
<1>7. /\ replies' \in [Links -> Seq(0..MaxEvents)] /\ done' \in [Links -> 0..MaxEvents]
      /\ bridge' \in Links \cup {NoLink} /\ trouble' \in BOOLEAN
  BY <1>1 DEF IInv, TypeOK
<1> QED
  BY <1>1, <1>2, <1>3, <1>4, <1>5, <1>6, <1>7, SessionKeeps

LEMMA EndKeeps ==
    ASSUME IInv, NEW l \in Links, session[l] \notin {"none", "apply"}, EndSession(l),
           UNCHANGED <<calls, hook, replies, running, bridge, history>>
    PROVE  IInv'
<1>1. /\ session' = [session EXCEPT ![l] = "none"]
      /\ requests' = [requests EXCEPT ![l] = <<>>]
      /\ job' = [job EXCEPT ![l] = NoChunk]
      /\ done' = [done EXCEPT ![l] = 0]
      /\ UNCHANGED <<log, before, given_up, trouble>>
  BY DEF EndSession, history
<1>2. /\ session'[l] = "none" /\ requests'[l] = <<>> /\ job'[l] = NoChunk /\ done'[l] = 0
      /\ \A m \in Links \ {l} : UNCHANGED <<requests[m], replies[m], session[m], job[m], done[m]>>
  BY <1>1 DEF IInv, TypeOK
<1>3. /\ session' \in [Links -> {"none", "read", "bridge", "apply", "answer"}]
      /\ requests' \in [Links -> Seq(Chunks)] /\ job' \in [Links -> Chunks \cup {NoChunk}]
      /\ done' \in [Links -> 0..MaxEvents] /\ replies' \in [Links -> Seq(0..MaxEvents)]
      /\ bridge' \in Links \cup {NoLink} /\ trouble' \in BOOLEAN
  <2>1. <<>> \in Seq(Chunks) /\ 0 \in 0..MaxEvents
    BY BoundsAssumption
  <2> QED
    BY <1>1, <2>1 DEF IInv, TypeOK
<1>4. Out'[l] = NoChunk
  BY <1>2 DEF Out
<1>5. \A m \in Links : bridge' = m <=> session'[m] = "apply"
  BY <1>2 DEF IInv, Serving
<1> QED
  BY <1>1, <1>2, <1>3, <1>4, <1>5, SessionKeeps

LEMMA ReadEofKeeps ==
    ASSUME IInv, NEW l \in Links, ReadEof(l)
    PROVE  IInv'
BY EndKeeps DEF ReadEof

\* The session keeps its chunk and what is done of it.
LEMMA StageKeeps ==
    ASSUME IInv, NEW l \in Links, NEW x \in {"apply", "answer"}, session[l] \in {"bridge", "apply"},
           session[l] = "apply" => x = "answer",
           session' = [session EXCEPT ![l] = x],
           bridge' \in Links \cup {NoLink}, \A m \in Links : bridge' = m <=> session'[m] = "apply",
           trouble' \in BOOLEAN,
           UNCHANGED <<calls, hook, stream, running, job, done, log, before, given_up>>
    PROVE  IInv'
<1>1. UNCHANGED <<requests, replies>> /\ Out' = Out
  BY DEF stream, Out
<1>2. /\ session'[l] = x /\ \A m \in Links \ {l} : UNCHANGED <<requests[m], replies[m], session[m], job[m], done[m]>>
      /\ session' \in [Links -> {"none", "read", "bridge", "apply", "answer"}]
  BY <1>1 DEF IInv, TypeOK
<1>3. /\ requests' \in [Links -> Seq(Chunks)] /\ job' \in [Links -> Chunks \cup {NoChunk}]
      /\ done' \in [Links -> 0..MaxEvents] /\ replies' \in [Links -> Seq(0..MaxEvents)]
  BY <1>1 DEF IInv, TypeOK
<1>4. requests[l] = <<>> /\ job[l] # NoChunk /\ (session[l] = "bridge" => done[l] = 0)
  BY DEF IInv, Serving
<1> QED
  BY <1>1, <1>2, <1>3, <1>4, SessionKeeps

LEMMA TakeBridgeKeeps ==
    ASSUME IInv, NEW l \in Links, TakeBridge(l)
    PROVE  IInv'
<1>1. /\ session[l] = "bridge" /\ bridge = NoLink
      /\ UNCHANGED <<calls, hook, stream, running, job, done, log, before, given_up>>
  BY DEF TakeBridge
<1>2. \A m \in Links : session[m] # "apply"
  BY <1>1, NoneAssumption DEF IInv, Serving
<1>3. CASE bridge' = l /\ session' = [session EXCEPT ![l] = "apply"] /\ UNCHANGED trouble
  <2>1. \A m \in Links : bridge' = m <=> session'[m] = "apply"
    BY <1>2, <1>3 DEF IInv, TypeOK
  <2>2. trouble' \in BOOLEAN
    BY <1>3 DEF IInv, TypeOK
  <2> QED
    BY <1>1, <1>3, <2>1, <2>2, StageKeeps
<1>4. CASE session' = [session EXCEPT ![l] = "answer"] /\ trouble' = TRUE /\ UNCHANGED bridge
  <2>1. \A m \in Links : bridge' = m <=> session'[m] = "apply"
    BY <1>1, <1>2, <1>4, NoneAssumption DEF IInv, TypeOK
  <2> QED
    BY <1>1, <1>4, <2>1, StageKeeps
<1> QED
  BY <1>3, <1>4 DEF TakeBridge

\* The session lets the bridge go.
LEMMA LeaveKeeps ==
    ASSUME IInv, NEW l \in Links, session[l] = "apply", session' = [session EXCEPT ![l] = "answer"],
           bridge' = NoLink, trouble' \in BOOLEAN,
           UNCHANGED <<calls, hook, stream, running, job, done, log, before, given_up>>
    PROVE  IInv'
<1>1. \A m \in Links \ {l} : session[m] # "apply"
  BY DEF IInv, Serving
<1>2. \A m \in Links : bridge' = m <=> session'[m] = "apply"
  BY <1>1, NoneAssumption DEF IInv, TypeOK
<1> QED
  BY <1>2, StageKeeps

LEMMA AppliedKeeps ==
    ASSUME IInv, NEW l \in Links, Applied(l)
    PROVE  IInv'
BY LeaveKeeps DEF Applied, history, IInv, TypeOK

LEMMA AnswerKeeps ==
    ASSUME IInv, NEW l \in Links, Answer(l)
    PROVE  IInv'
<1>1. session[l] = "answer" /\ UNCHANGED <<calls, hook, running, bridge, history>>
  BY DEF Answer
<1>2. CASE EndSession(l) /\ UNCHANGED replies
  BY <1>1, <1>2, EndKeeps
<1>3. CASE /\ replies' = [replies EXCEPT ![l] = IF Connected(l) THEN Append(@, done[l]) ELSE @]
           /\ session' = [session EXCEPT ![l] = "read"]
           /\ job' = [job EXCEPT ![l] = NoChunk]
           /\ done' = [done EXCEPT ![l] = 0]
           /\ UNCHANGED requests
  <2>1. requests[l] = <<>> /\ Out[l] # NoChunk /\ replies[l] = <<>> /\ done[l] \in 0..MaxEvents
    BY <1>1, OutTyped DEF IInv, TypeOK, Serving, Carrying
  <2>2. /\ session'[l] = "read" /\ job'[l] = NoChunk /\ done'[l] = 0
        /\ \A m \in Links \ {l} : UNCHANGED <<requests[m], replies[m], session[m], job[m], done[m]>>
        /\ replies'[l] = IF Connected(l) THEN <<done[l]>> ELSE replies[l]
    <3>1. Append(<<>>, done[l]) = <<done[l]>>
      OBVIOUS
    <3> QED
      BY <1>3, <2>1, <3>1 DEF IInv, TypeOK
  <2>3. /\ session' \in [Links -> {"none", "read", "bridge", "apply", "answer"}]
        /\ requests' \in [Links -> Seq(Chunks)] /\ job' \in [Links -> Chunks \cup {NoChunk}]
        /\ done' \in [Links -> 0..MaxEvents] /\ bridge' \in Links \cup {NoLink} /\ trouble' \in BOOLEAN
    <3>1. 0 \in 0..MaxEvents
      BY BoundsAssumption
    <3> QED
      BY <1>1, <1>3, <3>1 DEF IInv, TypeOK, history
  <2>4. replies' \in [Links -> Seq(0..MaxEvents)]
    <3>1. <<done[l]>> \in Seq(0..MaxEvents) /\ replies \in [Links -> Seq(0..MaxEvents)]
      BY <2>1 DEF IInv, TypeOK
    <3>2. replies' = [replies EXCEPT ![l] = replies'[l]]
      BY <1>3, <3>1
    <3> QED
      BY <2>2, <3>1, <3>2
  <2>5. Out'[l] = NoChunk
    BY <1>3, <2>1, <2>2 DEF Out
  <2>6. \A m \in Links : bridge' = m <=> session'[m] = "apply"
    BY <1>1, <2>2 DEF IInv, Serving
  <2>7. UNCHANGED <<log, before, given_up>>
    BY <1>1 DEF history
  <2> QED
    BY <1>1, <1>3, <2>1, <2>2, <2>3, <2>4, <2>5, <2>6, <2>7, SessionKeeps DEF Connected
<1> QED
  BY <1>2, <1>3 DEF Answer

LEMMA ApplyKeeps ==
    ASSUME IInv, NEW l \in Links, Apply(l)
    PROVE  IInv'
<1>1. /\ session[l] = "apply" /\ done[l] < job[l].count
      /\ UNCHANGED <<calls, hook, stream, running, job, before, given_up>>
  BY DEF Apply
<1>2. CASE /\ session' = [session EXCEPT ![l] = "answer"] /\ bridge' = NoLink /\ trouble' = TRUE
           /\ UNCHANGED <<log, done>>
  BY <1>1, <1>2, LeaveKeeps
<1>3. CASE /\ log' = Append(log, [call |-> job[l].call, first |-> job[l].first,
                                  event |-> job[l].first + done[l]])
           /\ done' = [done EXCEPT ![l] = @ + 1]
           /\ UNCHANGED <<bridge, session, trouble>>
  <2> DEFINE S == [call : Calls, first : Nat \ {0}, event : Nat \ {0}]
             c == job[l].call
             f == job[l].first
             n == Len(log)
             e == [call |-> c, first |-> f, event |-> f + done[l]]
  <2>1. /\ UNCHANGED <<at, call, input, accepted, outcome, lock, connection, valid, requests, replies, running,
                       bridge, session, job, before, given_up, trouble>>
        /\ Out' = Out /\ \A t \in Threads : Chunk(t)' = Chunk(t)
    BY <1>1, <1>3 DEF calls, hook, stream, Out, Chunk
  <2>2. /\ requests[l] = <<>> /\ job[l] \in Chunks /\ job[l] # NoChunk /\ Out[l] = job[l]
        /\ \A m \in Links : session[m] = "apply" => m = l
    BY <1>1, OutTyped DEF IInv, TypeOK, Serving
  <2>3. c \in Calls /\ f \in Nat \ {0} /\ job[l].count \in 1..MaxEvents /\ done[l] \in Nat /\ n \in Nat
    BY <2>2, NumbersTyped DEF IInv, Chunks
  <2>4. /\ outcome[c] # "none" /\ f = accepted[c] + 1 /\ Total[c] = accepted[c] + done[l] /\ replies[l] = <<>>
        /\ \A t \in Threads : call[t] = c => at[t] = "reply" /\ connection = l
        /\ outcome[c] # "running" => c \in given_up
        /\ \A m \in Links : Out[m] # NoChunk /\ Out[m].call = c => m = l
    BY <2>2 DEF IInv, Carrying
  <2>5. accepted[c] \in Nat /\ Total[c] \in Nat /\ Total \in [Calls -> Nat]
    BY <2>3, NumbersTyped, TotalTyped DEF IInv
  <2>6. e \in S /\ e.call = c /\ e.first = f /\ e.event = Total[c] + 1
    BY <2>3, <2>4, <2>5
  <2>7. log \in Seq(S) /\ log' = Append(log, e)
    BY <1>3 DEF IInv, TypeOK
  <2> HIDE DEF S, e, c, f, n
  <2>8. /\ log' \in Seq(S) /\ Len(log') = n + 1
        /\ log'[n + 1] = e /\ \A i \in 1..n : log'[i] = log[i]
        /\ Total' = [Total EXCEPT ![c] = @ + 1]
        /\ \A i \in 0..n : Count(i)' = Count(i)
        /\ \A i : i = n + 1 => Count(i)' = Total'
    <3>1. e.call \in Calls
      BY <2>3, <2>6
    <3>2. /\ log' \in Seq(S) /\ Len(log') = Len(log) + 1
          /\ log'[Len(log) + 1] = e /\ \A i \in 1..Len(log) : log'[i] = log[i]
          /\ Total' = [Total EXCEPT ![e.call] = @ + 1]
          /\ \A i \in 0..Len(log) : Count(i)' = Count(i)
          /\ \A i : i = Len(log) + 1 => Count(i)' = Total'
      BY <2>6, <2>7, <3>1, CountGrows
    <3>3. e.call = c /\ Len(log) = n
      BY <2>6 DEF n
    <3>4. Total' = [Total EXCEPT ![c] = @ + 1]
      BY <3>2, <3>3
    <3>5. /\ log' \in Seq(S) /\ Len(log') = n + 1
          /\ log'[n + 1] = e /\ \A i \in 1..n : log'[i] = log[i]
      BY <3>2, <3>3
    <3>6. \A i \in 0..n : Count(i)' = Count(i)
      BY <3>2, <3>3
    <3>7. \A i : i = n + 1 => Count(i)' = Total'
      BY <3>2, <3>3
    <3> QED
      BY <3>4, <3>5, <3>6, <3>7
  <2>9. Total'[c] = Total[c] + 1 /\ \A d \in Calls \ {c} : Total'[d] = Total[d]
    BY <2>3, <2>5, <2>8
  <2>10. DOMAIN log' = 1..(n + 1) /\ DOMAIN log = 1..n
    BY <2>7, <2>8, LenProperties DEF n
  <2>11. done'[l] = done[l] + 1 /\ \A m \in Links \ {l} : done'[m] = done[m]
    BY <1>3 DEF IInv, TypeOK
  <2>12. TypeOK'
    <3>1. done' \in [Links -> 0..MaxEvents]
      <4>1. done[l] + 1 \in 0..MaxEvents
        BY <1>1, <2>3, BoundsAssumption
      <4> QED
        BY <1>3, <4>1 DEF IInv, TypeOK
    <3> QED
      BY <2>1, <2>8, <3>1 DEF IInv, TypeOK, S
  <2>13. Calling'
    BY <2>1 DEF IInv, Calling, Chunks, NoChunk
  <2>14. Serving'
    BY <1>1, <2>1, <2>11 DEF IInv, Serving
  <2>15. Carrying'
    <3>1. ASSUME NEW m \in Links, Out[m] # NoChunk
          PROVE  done'[m] <= Out[m].count /\ Total'[Out[m].call] = accepted[Out[m].call] + done'[m]
      <4>1. CASE m = l
        <5>1. Out[m].call = c /\ Out[m].count = job[l].count
          BY <2>2, <4>1 DEF c
        <5> QED
          BY <1>1, <2>3, <2>4, <2>5, <2>9, <2>11, <4>1, <5>1
      <4>2. CASE m # l
        <5>1. Out[m].call \in Calls \ {c}
          BY <2>4, <3>1, <4>2 DEF IInv, Carrying, Chunks
        <5> QED
          BY <2>9, <2>11, <3>1, <4>2, <5>1 DEF IInv, Carrying
      <4> QED
        BY <4>1, <4>2
    <3>2. \A t \in Threads : at[t] = "reply" => (Out[connection] # NoChunk => Out[connection].call = call[t])
      BY DEF IInv, Carrying
    <3> QED
      BY <2>1, <3>1, <3>2 DEF IInv, Carrying
  <2>16. Answering'
    <3>1. ASSUME NEW t \in Threads
          PROVE  /\ at[t] \in {"chunk", "locked"} => Total'[call[t]] = accepted[call[t]]
                 /\ at[t] = "reply" => Total'[call[t]] >= accepted[call[t]]
                 /\ at[t] = "reply" /\ replies[connection] # <<>> =>
                      /\ Head(replies[connection]) <= Chunk(t).count
                      /\ Total'[call[t]] = accepted[call[t]] + Head(replies[connection])
      <4>1. CASE call[t] = c
        BY <2>3, <2>4, <2>5, <2>9, <4>1
      <4>2. CASE call[t] # c /\ at[t] # "idle"
        <5>1. call[t] \in Calls \ {c}
          BY <4>2, ChunkTyped DEF IInv
        <5> QED
          BY <2>9, <5>1 DEF IInv, Answering
      <4> QED
        BY <4>1, <4>2
    <3>2. ASSUME NEW d \in Calls
          PROVE  /\ outcome[d] = "none" => Total'[d] = 0 /\ accepted[d] = 0 /\ input[d] = <<>>
                 /\ outcome[d] = "wine" => accepted[d] = 0
                 /\ outcome[d] \in {"done", "wine"} =>
                      Total'[d] = accepted[d] \/ (d \in given_up /\ Total'[d] > accepted[d])
                 /\ \A b \in before[d] : outcome[b] \in {"done", "wine"}
      <4>1. CASE d = c
        <5>1. Total'[c] > accepted[c]
          BY <2>3, <2>4, <2>5, <2>9
        <5> QED
          BY <2>4, <4>1, <5>1 DEF IInv, Answering
      <4>2. CASE d # c
        BY <2>9, <4>2 DEF IInv, Answering
      <4> QED
        BY <4>1, <4>2
    <3> QED
      BY <2>1, <3>1, <3>2 DEF Answering
  <2>17. /\ done[l] <= n
         /\ \A i \in 1..n : i > n - done[l] <=> log[i].call = c /\ log[i].first = f
    BY <1>1, <2>10 DEF IInv, Logged, n, c, f
  <2>18. \A i \in 1..n : log[i].call \in Calls /\ log[i].event \in Nat
    BY <2>10, LogTyped DEF IInv
  <2>19. AppliedInOrder'
    <3>1. \A i \in 1..(n + 1) : log'[i].event = Count(i)'[log'[i].call]
      <4>1. \A i \in 1..n : log'[i].event = Count(i)'[log'[i].call]
        BY <2>3, <2>8, <2>10 DEF IInv, Logged, AppliedInOrder
      <4>2. \A i : i = n + 1 => log'[i].event = Count(i)'[log'[i].call]
        BY <2>6, <2>8, <2>9
      <4>3. \A i \in 1..(n + 1) : i \in 1..n \/ i = n + 1
        BY <2>3
      <4> QED
        BY <4>1, <4>2, <4>3
    <3>2. ASSUME NEW i \in 1..(n + 1), NEW j \in 1..(n + 1), i < j,
                 log'[i].call = log'[j].call, log'[i].first = log'[j].first, NEW k \in i..j
          PROVE  log'[k].call = log'[i].call
      <4>1. CASE j = n + 1
        <5>1. i \in 1..n /\ log[i].call = c /\ log[i].first = f
          BY <2>3, <2>6, <2>8, <3>2, <4>1
        <5>2. i > n - done[l]
          BY <2>17, <5>1
        <5>3. CASE k = n + 1
          BY <3>2, <4>1, <5>3
        <5>4. CASE k # n + 1
          <6>1. k \in 1..n /\ k > n - done[l]
            BY <2>3, <4>1, <5>1, <5>2, <5>4
          <6> QED
            BY <2>8, <2>17, <5>1, <6>1
        <5> QED
          BY <5>3, <5>4
      <4>2. CASE j # n + 1
        <5>1. i \in 1..n /\ j \in 1..n /\ k \in 1..n
          BY <2>3, <3>2, <4>2
        <5>2. log'[i] = log[i] /\ log'[j] = log[j] /\ log'[k] = log[k]
          BY <2>8, <5>1
        <5> QED
          BY <2>10, <3>2, <5>1, <5>2 DEF IInv, Logged, AppliedInOrder, SameChunk
      <4> QED
        BY <4>1, <4>2
    <3> QED
      BY <2>10, <3>1, <3>2 DEF AppliedInOrder, SameChunk
  <2>20. CallsInOrder'
    <3> SUFFICES ASSUME NEW i \in 1..(n + 1), NEW j \in 1..(n + 1), i < j,
                        log'[j].call \in before[log'[i].call]
                 PROVE  log'[j].call \in given_up
      BY <2>1, <2>10 DEF CallsInOrder
    <3>1. i \in 1..n /\ log'[i] = log[i]
      BY <2>3, <2>8
    <3>2. CASE j = n + 1
      <4>1. log'[j].call = c /\ log[i].call \in Calls
        BY <2>6, <2>8, <2>18, <3>1, <3>2
      <4>2. outcome[c] \in {"done", "wine"}
        BY <3>1, <4>1 DEF IInv, Answering
      <4> QED
        BY <2>4, <4>1, <4>2
    <3>3. CASE j # n + 1
      <4>1. j \in 1..n /\ log'[j] = log[j]
        BY <2>3, <2>8, <3>3
      <4> QED
        BY <2>10, <3>1, <4>1 DEF IInv, Logged, CallsInOrder
    <3> QED
      BY <3>2, <3>3
  <2>21. \A i \in 1..(n + 1) : log'[i].first <= log'[i].event /\ log'[i].event <= Total'[log'[i].call]
    <3>1. \A i \in 1..n : log[i].first <= log[i].event /\ log[i].event <= Total[log[i].call]
      BY <2>10 DEF IInv, Logged
    <3>2. \A d \in Calls : Total[d] <= Total'[d] /\ Total[d] \in Nat /\ Total'[d] \in Nat
      BY <2>5, <2>9
    <3>3. \A i \in 1..n : log'[i].first <= log'[i].event /\ log'[i].event <= Total'[log'[i].call]
      BY <2>8, <2>18, <3>1, <3>2
    <3>4. log'[n + 1].first <= log'[n + 1].event /\ log'[n + 1].event <= Total'[log'[n + 1].call]
      BY <2>3, <2>4, <2>5, <2>6, <2>8, <2>9
    <3> QED
      BY <2>3, <3>3, <3>4
  <2>22. ASSUME NEW m \in Links, session[m] = "apply"
         PROVE  /\ done'[m] <= n + 1
                /\ \A i \in 1..(n + 1) :
                     i > n + 1 - done'[m] <=> log'[i].call = job[m].call /\ log'[i].first = job[m].first
    <3>1. m = l /\ done'[m] = done[l] + 1 /\ job[m].call = c /\ job[m].first = f
      BY <2>2, <2>11, <2>22 DEF c, f
    <3>2. done[l] + 1 <= n + 1 /\ n + 1 - (done[l] + 1) = n - done[l] /\ n + 1 > n - done[l]
      BY <2>3, <2>17
    <3>3. \A i \in 1..n : i > n - done[l] <=> log'[i].call = c /\ log'[i].first = f
      BY <2>8, <2>17
    <3>4. log'[n + 1].call = c /\ log'[n + 1].first = f
      BY <2>6, <2>8
    <3>5. \A i \in 1..(n + 1) : i \in 1..n \/ i = n + 1
      BY <2>3
    <3> QED
      BY <3>1, <3>2, <3>3, <3>4, <3>5
  <2>23. Logged'
    <3>1. Len(log') = n + 1 /\ session' = session /\ job' = job
      BY <2>1, <2>8
    <3>2. \A i \in DOMAIN log' :
            log'[i].first <= log'[i].event /\ log'[i].event <= Total'[log'[i].call]
      BY <2>10, <2>21
    <3>3. \A m \in Links : session'[m] = "apply" =>
            /\ done'[m] <= Len(log')
            /\ \A i \in DOMAIN log' :
                 i > Len(log') - done'[m] <=> log'[i].call = job'[m].call /\ log'[i].first = job'[m].first
      <4> SUFFICES ASSUME NEW m \in Links, session'[m] = "apply"
                   PROVE  /\ done'[m] <= Len(log')
                          /\ \A i \in DOMAIN log' :
                               i > Len(log') - done'[m] <=> log'[i].call = job'[m].call /\ log'[i].first = job'[m].first
        OBVIOUS
      <4>1. session[m] = "apply" /\ job'[m] = job[m]
        BY <3>1
      <4>2. /\ done'[m] <= n + 1
            /\ \A i \in 1..(n + 1) :
                 i > n + 1 - done'[m] <=> log'[i].call = job[m].call /\ log'[i].first = job[m].first
        BY <2>22, <4>1
      <4>3. done'[m] <= Len(log')
        BY <3>1, <4>2
      <4>4. ASSUME NEW i \in DOMAIN log'
            PROVE  i > Len(log') - done'[m] <=> log'[i].call = job'[m].call /\ log'[i].first = job'[m].first
        <5>1. i \in 1..(n + 1)
          BY <2>10, <4>4
        <5>2. i > n + 1 - done'[m] <=> log'[i].call = job[m].call /\ log'[i].first = job[m].first
          BY <4>2, <5>1
        <5>3. done'[m] \in Nat /\ n \in Nat
          BY <2>2, <2>3, <2>11, <4>1
        <5>4. Len(log') - done'[m] = n + 1 - done'[m]
          BY <3>1, <5>3
        <5> QED
          BY <4>1, <5>2, <5>4
      <4> QED
        BY <4>3, <4>4
    <3> QED
      BY <2>19, <2>20, <3>2, <3>3 DEF Logged
  <2> QED
    BY <2>12, <2>13, <2>14, <2>15, <2>16, <2>23 DEF IInv
<1> QED
  BY <1>2, <1>3 DEF Apply

LEMMA HelperExitKeeps ==
    ASSUME IInv, HelperExit
    PROVE  IInv'
<1>1. /\ running' = FALSE /\ bridge' = NoLink /\ session' = [l \in Links |-> "none"]
      /\ job' = [l \in Links |-> NoChunk] /\ done' = [l \in Links |-> 0]
      /\ requests' = [l \in Links |-> <<>>] /\ trouble' = TRUE
      /\ UNCHANGED <<at, call, input, accepted, outcome, lock, connection, valid, replies, log, before, given_up>>
      /\ Total' = Total
  BY CountStays DEF HelperExit, calls, hook
<1>2. TypeOK'
  <2>1. <<>> \in Seq(Chunks) /\ 0 \in 0..MaxEvents
    BY BoundsAssumption
  <2>2. requests' \in [Links -> Seq(Chunks)] /\ done' \in [Links -> 0..MaxEvents]
    BY <1>1, <2>1
  <2> QED
    BY <1>1, <2>2 DEF IInv, TypeOK
<1>3. \A l \in Links : Out'[l] = NoChunk
  BY <1>1 DEF Out
<1>4. Calling'
  BY <1>1 DEF IInv, Calling, Chunks, NoChunk
<1>5. Serving'
  BY <1>1, NoneAssumption DEF IInv, Serving
<1>6. Carrying'
  <2>1. \A t \in Threads : at[t] = "reply" => connection \in Links
    BY DEF IInv, TypeOK, Calling
  <2> QED
    BY <1>1, <1>3, <2>1 DEF Carrying
<1>7. \A t \in Threads : Chunk(t)' = Chunk(t)
  BY <1>1 DEF Chunk
<1>8. Answering'
  BY <1>1, <1>7 DEF IInv, Answering
<1>9. Logged'
  BY <1>1, LoggedStays DEF IInv
<1> QED
  BY <1>2, <1>4, <1>5, <1>6, <1>8, <1>9 DEF IInv

LEMMA HelperStartKeeps ==
    ASSUME IInv, HelperStart
    PROVE  IInv'
<1>1. /\ running' = TRUE
      /\ UNCHANGED <<at, call, input, accepted, outcome, lock, connection, valid, requests, replies, bridge, session,
                     job, done, log, before, given_up, trouble>>
      /\ Total' = Total /\ Out' = Out /\ \A t \in Threads : Chunk(t)' = Chunk(t)
  BY CountStays DEF HelperStart, calls, hook, stream, history, Out, Chunk
<1>2. TypeOK'
  BY <1>1 DEF IInv, TypeOK
<1>3. Calling'
  BY <1>1 DEF IInv, Calling, Chunks, NoChunk
<1>4. Serving'
  BY <1>1 DEF IInv, Serving
<1>5. Carrying' /\ Answering'
  BY <1>1 DEF IInv, Carrying, Answering
<1>6. Logged'
  BY <1>1, LoggedStays DEF IInv
<1> QED
  BY <1>2, <1>3, <1>4, <1>5, <1>6 DEF IInv

LEMMA StutterKeeps ==
    ASSUME IInv, UNCHANGED vars
    PROVE  IInv'
<1>1. /\ UNCHANGED <<at, call, input, accepted, outcome, lock, connection, valid, requests, replies, running, bridge,
                     session, job, done, log, before, given_up, trouble>>
      /\ Total' = Total /\ Out' = Out /\ \A t \in Threads : Chunk(t)' = Chunk(t)
  BY CountStays DEF vars, calls, hook, stream, helper, history, Out, Chunk
<1>2. TypeOK'
  BY <1>1 DEF IInv, TypeOK
<1>3. Calling'
  BY <1>1 DEF IInv, Calling, Chunks, NoChunk
<1>4. Serving'
  BY <1>1 DEF IInv, Serving
<1>5. Carrying' /\ Answering'
  BY <1>1 DEF IInv, Carrying, Answering
<1>6. Logged'
  BY <1>1, LoggedStays DEF IInv
<1> QED
  BY <1>2, <1>3, <1>4, <1>5, <1>6 DEF IInv

-----------------------------------------------------------------------------

LEMMA InitHolds == Init => IInv
<1> SUFFICES ASSUME Init PROVE IInv
  OBVIOUS
<1>1. \A c \in Calls : Total[c] = 0
  <2> SUFFICES ASSUME NEW c \in Calls PROVE Cardinality({i \in 1..Len(log) : log[i].call = c}) = 0
    BY DEF Total, Count
  <2>1. Len(log) = 0
    BY DEF Init
  <2>2. {i \in 1..Len(log) : log[i].call = c} = {}
    BY <2>1
  <2> QED
    BY <2>2, FS_EmptySet
<1>2. TypeOK
  <2>1. <<>> \in Seq(Chunks) /\ <<>> \in Seq(0..MaxEvents) /\ 0 \in 0..MaxEvents /\ Len(<<>>) = 0
        /\ <<>> \in Seq([call : Calls, first : Nat \ {0}, event : Nat \ {0}])
    BY BoundsAssumption
  <2>2. accepted \in [Calls -> Nat] /\ \A c \in Calls : accepted[c] <= Len(input[c])
    BY <2>1 DEF Init
  <2>3. requests \in [Links -> Seq(Chunks)] /\ replies \in [Links -> Seq(0..MaxEvents)] /\ done \in [Links -> 0..MaxEvents]
    BY <2>1 DEF Init
  <2>4. log \in Seq([call : Calls, first : Nat \ {0}, event : Nat \ {0}])
    BY <2>1 DEF Init
  <2>5. trouble \in BOOLEAN /\ running \in BOOLEAN /\ valid \in BOOLEAN
    BY DEF Init
  <2> QED
    BY <2>2, <2>3, <2>4, <2>5 DEF Init, TypeOK
<1>3. Calling
  <2>1. NoChunk \notin Chunks
    BY NumbersTyped, <1>2 DEF Chunks, NoChunk
  <2> QED
    BY <2>1, NoneAssumption DEF Init, Calling
<1>4. Serving
  BY NoneAssumption DEF Init, Serving
<1>5. \A l \in Links : Out[l] = NoChunk
  BY DEF Init, Out
<1>6. Carrying
  BY <1>5 DEF Init, Carrying
<1>7. Answering
  BY <1>1 DEF Init, Answering
<1>8. Logged
  <2>1. DOMAIN log = {}
    BY DEF Init
  <2>2. \A l \in Links : session[l] # "apply"
    BY DEF Init
  <2> QED
    BY <2>1, <2>2 DEF Logged, AppliedInOrder, CallsInOrder
<1> QED
  BY <1>2, <1>3, <1>4, <1>6, <1>7, <1>8 DEF IInv

LEMMA NextKeeps == IInv /\ [Next]_vars => IInv'
<1> SUFFICES ASSUME IInv, [Next]_vars PROVE IInv'
  OBVIOUS
<1>1. ASSUME NEW t \in Threads, NEW events \in Inputs, SendInput(t, events) PROVE IInv'
  BY <1>1, SendInputKeeps
<1>2. ASSUME NEW t \in Threads, Refuse(t) \/ Lock(t) \/ InsideLock(t) PROVE IInv'
  BY <1>2, RefuseKeeps, LockKeeps, ConnectKeeps, SendKeeps, ReceiveKeeps, TimeoutKeeps DEF InsideLock
<1>3. CASE HostCleanup
  BY <1>3, HostCleanupKeeps
<1>4. ASSUME NEW l \in Links, ReadInput(l) \/ ReadEof(l) \/ TakeBridge(l) \/ Apply(l) \/ Applied(l) \/ Answer(l)
      PROVE  IInv'
  BY <1>4, ReadInputKeeps, ReadEofKeeps, TakeBridgeKeeps, ApplyKeeps, AppliedKeeps, AnswerKeeps
<1>5. CASE HelperExit \/ HelperStart
  BY <1>5, HelperExitKeeps, HelperStartKeeps
<1>6. CASE UNCHANGED vars
  BY <1>6, StutterKeeps
<1> QED
  BY <1>1, <1>2, <1>3, <1>4, <1>5, <1>6 DEF Next, Helper

-----------------------------------------------------------------------------
(* Theorems *)

(***************************************************************************)
(* Calls, connection and sessions stay in the invariant: however UU's      *)
(* threads (wayland_capture_hook.c:203-271), the helper's sessions and its *)
(* exits (wayland_capture_helper.cpp:603-617, 1297-1306) interleave.       *)
(***************************************************************************)
THEOREM Invariance == Spec => []IInv
<1>1. Init => IInv
  BY InitHolds
<1>2. IInv /\ [Next]_vars => IInv'
  BY NextKeeps
<1> QED
  BY <1>1, <1>2, PTL DEF Spec

(***************************************************************************)
(* Every variable keeps its type.  In particular a call never has more     *)
(* events accepted than it passed, so that the loop of capture_send_input  *)
(* ends and reads nothing behind the array.                                *)
(***************************************************************************)
THEOREM TypeCorrect == Spec => []TypeOK
<1>1. IInv => TypeOK
  BY DEF IInv
<1> QED
  BY <1>1, Invariance, PTL

(***************************************************************************)
(* The desktop gets each call's events in order, each once and none left   *)
(* out, and a chunk in one piece: InputBridge's mutex is held for a whole  *)
(* chunk, and a call goes on only after a full answer.                     *)
(***************************************************************************)
THEOREM OrderKept == Spec => []AppliedInOrder
<1>1. IInv => AppliedInOrder
  BY DEF IInv, Logged
<1> QED
  BY <1>1, Invariance, PTL

(***************************************************************************)
(* Only a call that was given up can reach the desktop after a later one:  *)
(* a chunk that is still on its way after its call has returned is one     *)
(* whose answer did not come in time.                                      *)
(***************************************************************************)
THEOREM CallsKeepOrder == Spec => []CallsInOrder
<1>1. IInv => CallsInOrder
  BY DEF IInv, Logged
<1> QED
  BY <1>1, Invariance, PTL

(***************************************************************************)
(* What SendInput reports is what was applied, unless the call was given   *)
(* up: then at least that much was, and only then can the desktop and Wine *)
(* both have the events.                                                   *)
(***************************************************************************)
THEOREM ReportsAreTrue == Spec => []ReportedIsApplied
<1>1. IInv => ReportedIsApplied
  BY DEF IInv, Answering, ReportedIsApplied
<1> QED
  BY <1>1, Invariance, PTL

=============================================================================

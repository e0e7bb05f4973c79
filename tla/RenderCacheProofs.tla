--------------------------- MODULE RenderCacheProofs ---------------------------
(***************************************************************************)
(* Proofs about RenderCache, for every number of calls, of any kinds, and  *)
(* every bound.                                                            *)
(*                                                                         *)
(* Two facts carry them.  An operation that runs is the first of the queue *)
(* of its state object.  And versions only grow on the way from the file   *)
(* to an answer: a fingerprint is not ahead of the file, what Word has     *)
(* open is not behind the keys there are, and a state that a call may come *)
(* to look at has no key that is older than the call.                      *)
(***************************************************************************)
EXTENDS RenderCache, SequenceTheorems, FiniteSetTheorems, TLAPS

Chained == {"queued", "dropping", "opening", "positions", "releasing"}
Running == Chained \ {"queued"}
Opening == {"dropping", "opening"}
Exporting == {"sharing", "exporting", "pruning"}

\* What is in a queue is about its state object, is there once, and waits unless it
\* is first; what runs is first.
Queues ==
    /\ \A s \in Calls : \A i \in 1..Len(states[s].queue) :
           LET c == states[s].queue[i]
           IN  call[c].of = s /\ pc[c] \in Chained /\ (i > 1 => pc[c] = "queued")
    /\ \A s \in Calls : \A i, j \in 1..Len(states[s].queue) :
           states[s].queue[i] = states[s].queue[j] => i = j
    /\ \A c \in Calls : pc[c] \in Running => AtHead(c)

\* How far calls of each kind come, and what they know by then.
ProgressOf(c) ==
    /\ pc[c] \in Opening => call[c].kind \in Opens /\ call[c].key # None
    /\ pc[c] = "positions" => call[c].kind = "outline"
    /\ pc[c] = "releasing" => call[c].kind \in {"edit", "close"}
    /\ pc[c] = "look" \/ pc[c] \in Exporting => call[c].kind = "pdf"
    /\ pc[c] \in Exporting => call[c].of # None
    /\ pc[c] = "editing" => call[c].kind = "edit" /\ call[c].of = None
    /\ pc[c] = "reading" => call[c].kind = "search"
    /\ pc[c] = "behind" => call[c].of # None /\ call[c].kind \in Opens \cup {"close"}
    /\ pc[c] = "sharing" => call[c].shared
    /\ call[c].kind \in Opens => call[c].asked # None

Progress == \A c \in Calls : ProgressOf(c)

\* Nobody knows the state object of a call that has not been queued.
Unborn ==
    \A c \in Calls :
        pc[c] \in {"idle", "behind"} =>
            /\ docs # c /\ states[c] = Fresh
            /\ \A d \in Calls : call[d].of # c

\* A document with a closer in its queue is closing.
Closing ==
    \A s \in Calls : \A i \in 1..Len(states[s].queue) :
        call[states[s].queue[i]].kind = "close" => states[s].closing

\* Nothing is ahead of the file.
Behind ==
    /\ copy = None \/ copy <= file
    /\ \A s \in Calls : states[s].key = None \/ states[s].key <= file
    /\ \A c \in Calls : /\ call[c].key = None \/ call[c].key <= file
                        /\ call[c].asked = None \/ call[c].asked <= file

\* What Word has open is not older than the keys of the states, and than the names
\* of the exports under way.
CopyIsNewer ==
    copy # None =>
        /\ \A s \in Calls : states[s].key = None \/ states[s].key <= copy
        /\ \A c \in Calls : pc[c] = "exporting" => call[c].key = None \/ call[c].key <= copy

\* The key of s, and the one it may get next, is not older than the call c.
FreshFor(s, c) ==
    /\ states[s].key = None \/ states[s].key >= call[c].asked
    /\ \A d \in Calls : pc[d] \in Opening /\ call[d].of = s => call[d].key >= call[c].asked

\* A call finds its own key fresh, and that of the state it looks at afterwards, even
\* if it is another one than it was queued on: that one was registered later.
FreshCall(c) ==
    call[c].kind \in Opens =>
        /\ pc[c] \in Opening => call[c].key >= call[c].asked
        /\ pc[c] = "look" => call[c].result # None /\ call[c].result >= call[c].asked
        /\ pc[c] \in {"queued", "look"} \cup Opening /\ docs # None =>
              FreshFor(docs, c) \/ (pc[c] # "look" /\ docs = call[c].of)
        /\ pc[c] \in Exporting => FreshFor(call[c].of, c)
        /\ pc[c] \in Exporting /\ ~call[c].shared =>
              call[c].key = None \/ call[c].key >= call[c].asked
        /\ pc[c] \notin {"done", "failed"} => call[c].shown = None

Freshness == \A c \in Calls : FreshCall(c)

AnswerOf(c) ==
    pc[c] = "done" /\ call[c].kind \in Opens /\ ~call[c].shared =>
        /\ call[c].result = None \/ call[c].result >= call[c].asked
        /\ call[c].key = None \/ call[c].shown = None \/ call[c].shown >= call[c].asked

\* Beside the state there is only a closer may be at work, until one is forsaken.
OneChain ==
    ~forsaken =>
        \A s \in Calls : s # docs /\ states[s].queue # <<>> =>
            Len(states[s].queue) = 1 /\ pc[states[s].queue[1]] = "releasing"
                /\ call[states[s].queue[1]].kind = "close"

\* An outline between its questions was answered from what Word still has open.
OutlineOf(c) ==
    call[c].kind = "outline" =>
        /\ pc[c] = "queued" => call[c].read = {}
        /\ pc[c] = "positions" => \E v \in Versions : call[c].read = {v} /\ copy \in {v, None}
        /\ pc[c] = "done" => \E v \in Versions : call[c].read = {v}

Outlines == replays = 0 /\ ~forsaken => \A c \in Calls : OutlineOf(c)

IInv == /\ TypeOK /\ Queues /\ Progress /\ Unborn
        /\ Closing /\ CloserIsLast
        /\ Behind /\ CopyIsNewer /\ NeverOlder
        /\ Freshness /\ \A c \in Calls : AnswerOf(c)
        /\ OneChain /\ Outlines
-----------------------------------------------------------------------------
(* The queues.                                                             *)

\* What a call knows has its type.
LEMMA CallTypes ==
    ASSUME TypeOK, NEW c \in Calls
    PROVE  /\ pc[c] \in Steps /\ call[c].kind \in Kinds \cup {None}
           /\ call[c].of \in Calls \cup {None} /\ call[c].key \in Names
           /\ call[c].asked \in Names /\ call[c].shown \in Names /\ call[c].result \in Names
           /\ call[c].shared \in BOOLEAN /\ call[c].read \subseteq Versions
           /\ states[c].key \in Names /\ states[c].meta \in BOOLEAN
           /\ states[c].closing \in BOOLEAN /\ states[c].queue \in Seq(Calls)
           /\ None \notin Calls /\ None \notin Versions /\ Versions \subseteq Nat
BY CacheAssumption DEF TypeOK, Names, Versions

\* The queues stay as they are: calls move on outside of them, or at their head.
LEMMA QueuesStay ==
    ASSUME TypeOK, TypeOK', Queues, Closing, CloserIsLast,
           \A s \in Calls : /\ states'[s].queue = states[s].queue
                            /\ states[s].closing => states'[s].closing,
           \A d \in Calls :
               /\ \/ pc'[d] = pc[d]
                  \/ pc[d] \notin Chained /\ pc'[d] \notin Chained
                  \/ pc[d] \in Chained /\ AtHead(d) /\ pc'[d] \in Running
               /\ pc[d] \in Chained => call'[d].of = call[d].of /\ call'[d].kind = call[d].kind
    PROVE  Queues' /\ Closing' /\ CloserIsLast'
<1>1. \A s \in Calls : /\ states[s].queue \in Seq(Calls) /\ Len(states[s].queue) \in Nat
                       /\ \A i \in 1..Len(states[s].queue) : states[s].queue[i] \in Calls
  BY CallTypes
<1>2. ASSUME NEW s \in Calls, NEW i \in 1..Len(states[s].queue)
      PROVE  LET c == states[s].queue[i]
             IN  /\ call'[c].of = s /\ pc'[c] \in Chained /\ (i > 1 => pc'[c] = "queued")
                 /\ call'[c].kind = call[c].kind
  <2> PICK c \in Calls : c = states[s].queue[i]
    BY <1>1
  <2>1. /\ call[c].of = s /\ pc[c] \in Chained /\ (i > 1 => pc[c] = "queued")
        /\ states[s].queue[1] = c => i = 1
    BY <1>1 DEF Queues
  <2>2. call'[c].of = s /\ call'[c].kind = call[c].kind
    BY <2>1
  <2>3. CASE pc'[c] = pc[c]
    BY <2>1, <2>2, <2>3
  <2>4. CASE AtHead(c) /\ pc'[c] \in Running
    BY <2>1, <2>2, <2>4 DEF AtHead, Running, Chained
  <2> QED
    BY <2>1, <2>3, <2>4
<1>3. ASSUME NEW c \in Calls, pc'[c] \in Running
      PROVE  AtHead(c)'
  <2>1. pc[c] \in Chained /\ AtHead(c)
    BY <1>3 DEF Queues, Running, Chained
  <2>2. call[c].of \in Calls
    BY <2>1, CallTypes DEF AtHead
  <2> QED
    BY <2>1, <2>2 DEF AtHead
<1>4. Queues'
  BY <1>2, <1>3 DEF Queues
<1>5. Closing' /\ CloserIsLast'
  BY <1>2 DEF Closing, CloserIsLast
<1> QED
  BY <1>4, <1>5

\* A call joins the queue of a document that is not closing.
LEMMA QueueGrows ==
    ASSUME TypeOK, TypeOK', Queues, Closing, CloserIsLast,
           NEW c \in Calls, NEW s \in Calls, pc[c] \notin Chained, ~states[s].closing,
           states'[s].queue = Append(states[s].queue, c),
           \A t \in Calls \ {s} : states'[t].queue = states[t].queue,
           \A t \in Calls : states[t].closing => states'[t].closing,
           pc'[c] = "queued", call'[c].of = s, call'[c].kind = "close" => states'[s].closing,
           \A d \in Calls \ {c} :
               pc'[d] = pc[d] /\ call'[d].of = call[d].of /\ call'[d].kind = call[d].kind
    PROVE  Queues' /\ Closing' /\ CloserIsLast'
<1> DEFINE q == states[s].queue
           n == Len(q)
<1>1. \A t \in Calls : /\ states[t].queue \in Seq(Calls) /\ Len(states[t].queue) \in Nat
                       /\ \A i \in 1..Len(states[t].queue) :
                             states[t].queue[i] \in Calls /\ states[t].queue[i] # c
  BY CallTypes DEF Queues
<1>2. /\ Len(states'[s].queue) = n + 1 /\ states'[s].queue[n + 1] = c
      /\ \A i \in 1..n : states'[s].queue[i] = q[i]
  BY <1>1
<1>3. ASSUME NEW t \in Calls, NEW i \in 1..Len(states[t].queue)
      PROVE  LET d == states[t].queue[i]
             IN  /\ call'[d].of = t /\ pc'[d] \in Chained /\ (i > 1 => pc'[d] = "queued")
                 /\ call'[d].kind = call[d].kind
  BY <1>1 DEF Queues
<1>4. ASSUME NEW t \in Calls, NEW i \in 1..Len(states'[t].queue)
      PROVE  LET d == states'[t].queue[i]
             IN  call'[d].of = t /\ pc'[d] \in Chained /\ (i > 1 => pc'[d] = "queued")
  <2>1. CASE t # s \/ i \in 1..n
    BY <1>2, <1>3, <2>1
  <2>2. CASE t = s /\ i = n + 1
    BY <1>2, <2>2 DEF Chained
  <2> QED
    BY <1>1, <1>2, <2>1, <2>2
<1>5. ASSUME NEW t \in Calls, NEW i \in 1..Len(states'[t].queue),
             NEW j \in 1..Len(states'[t].queue), states'[t].queue[i] = states'[t].queue[j]
      PROVE  i = j
  <2>1. CASE t # s
    BY <1>5, <2>1 DEF Queues
  <2>2. CASE t = s
    <3>1. i \in 1..n \/ i = n + 1
      BY <1>1, <1>2, <2>2
    <3>2. j \in 1..n \/ j = n + 1
      BY <1>1, <1>2, <2>2
    <3>3. CASE i \in 1..n /\ j \in 1..n
      <4>1. q[i] = q[j]
        BY <1>2, <1>5, <2>2, <3>3
      <4> QED
        BY <3>3, <4>1 DEF Queues
    <3>4. CASE i = n + 1 \/ j = n + 1
      <4>1. \A k \in 1..n : states'[s].queue[k] # c
        BY <1>1, <1>2
      <4>2. states'[s].queue[n + 1] = c /\ states'[s].queue[i] = states'[s].queue[j]
        BY <1>2, <1>5, <2>2
      <4>3. i = n + 1 => j \notin 1..n
        BY <4>1, <4>2
      <4>4. j = n + 1 => i \notin 1..n
        BY <4>1, <4>2
      <4> QED
        BY <3>1, <3>2, <3>4, <4>3, <4>4
    <3> QED
      BY <3>1, <3>2, <3>3, <3>4
  <2> QED
    BY <2>1, <2>2
<1>6. ASSUME NEW d \in Calls, pc'[d] \in Running
      PROVE  AtHead(d)'
  <2>1. pc[d] \in Running /\ d # c
    BY <1>6 DEF Running, Chained
  <2>2. AtHead(d) /\ call[d].of \in Calls
    BY <2>1, CallTypes DEF Queues, AtHead
  <2>3. states'[call[d].of].queue # <<>> /\ Head(states'[call[d].of].queue) = d
    <3>1. CASE call[d].of # s
      BY <2>2, <3>1 DEF AtHead
    <3>2. CASE call[d].of = s
      <4>1. q # <<>> /\ Head(q) = d /\ q \in Seq(Calls)
        BY <1>1, <2>2, <3>2 DEF AtHead
      <4>2. n >= 1 /\ q[1] = d
        BY <4>1
      <4>3. Len(states'[s].queue) # 0 /\ states'[s].queue[1] = d
        BY <1>1, <1>2, <4>2
      <4> QED
        BY <1>1, <3>2, <4>3
    <3> QED
      BY <3>1, <3>2
  <2> QED
    BY <2>1, <2>2, <2>3 DEF AtHead
<1>7. Queues'
  BY <1>4, <1>5, <1>6 DEF Queues
<1>8. ASSUME NEW t \in Calls, NEW i \in 1..Len(states'[t].queue),
             call'[states'[t].queue[i]].kind = "close"
      PROVE  states'[t].closing /\ i = Len(states'[t].queue)
  <2>1. CASE t # s
    BY <1>3, <1>8, <2>1 DEF Closing, CloserIsLast
  <2>2. CASE t = s /\ i \in 1..n
    <3>1. call[q[i]].kind = "close"
      BY <1>2, <1>3, <1>8, <2>2
    <3> QED
      BY <2>2, <3>1 DEF Closing
  <2>3. CASE t = s /\ i = n + 1
    BY <1>2, <1>8, <2>3
  <2> QED
    BY <1>1, <1>2, <2>1, <2>2, <2>3
<1>9. Closing' /\ CloserIsLast'
  BY <1>8 DEF Closing, CloserIsLast
<1> QED
  BY <1>7, <1>9

\* The first of a queue is done.
LEMMA QueueShrinks ==
    ASSUME TypeOK, TypeOK', Queues, Closing, CloserIsLast,
           NEW c \in Calls, NEW s \in Calls, s = call[c].of, AtHead(c),
           states'[s].queue = Tail(states[s].queue), pc'[c] \notin Chained,
           \A t \in Calls \ {s} : states'[t].queue = states[t].queue,
           \A t \in Calls : states[t].closing => states'[t].closing,
           \A d \in Calls \ {c} :
               pc'[d] = pc[d] /\ call'[d].of = call[d].of /\ call'[d].kind = call[d].kind
    PROVE  Queues' /\ Closing' /\ CloserIsLast'
<1> DEFINE q == states[s].queue
           n == Len(q)
<1>1. \A t \in Calls : /\ states[t].queue \in Seq(Calls) /\ Len(states[t].queue) \in Nat
                       /\ \A i \in 1..Len(states[t].queue) : states[t].queue[i] \in Calls
  BY CallTypes
<1>2. q \in Seq(Calls) /\ q # <<>> /\ Head(q) = c
  BY <1>1 DEF AtHead
<1>3. /\ n \in Nat \ {0} /\ q[1] = c /\ Len(states'[s].queue) = n - 1
      /\ \A i \in 1..(n - 1) : states'[s].queue[i] = q[i + 1] /\ q[i + 1] # c
  BY <1>2 DEF Queues
<1>4. ASSUME NEW t \in Calls, NEW i \in 1..Len(states'[t].queue)
      PROVE  LET j == IF t = s THEN i + 1 ELSE i
             IN  /\ j \in 1..Len(states[t].queue) /\ i \in Nat
                 /\ states'[t].queue[i] = states[t].queue[j] /\ states[t].queue[j] # c
                 /\ j = Len(states[t].queue) => i = Len(states'[t].queue)
  <2>1. CASE t # s
    <3>1. Len(states'[t].queue) = Len(states[t].queue) /\ i \in 1..Len(states[t].queue)
          /\ states'[t].queue[i] = states[t].queue[i]
      BY <2>1
    <3>2. states[t].queue[i] # c
      BY <2>1, <3>1 DEF Queues
    <3> QED
      BY <1>1, <2>1, <3>1, <3>2
  <2>2. CASE t = s
    <3>1. i \in 1..(n - 1)
      BY <1>3, <2>2
    <3>2. i + 1 \in 1..n /\ i \in Nat
      BY <1>3, <3>1
    <3>3. states'[s].queue[i] = q[i + 1] /\ q[i + 1] # c
      BY <1>3, <3>1
    <3>4. i + 1 = n => i = n - 1
      BY <1>3, <3>2
    <3> QED
      BY <1>3, <2>2, <3>2, <3>3, <3>4
  <2> QED
    BY <2>1, <2>2
<1>5. ASSUME NEW t \in Calls, NEW i \in 1..Len(states'[t].queue)
      PROVE  LET d == states'[t].queue[i]
             IN  /\ call'[d].of = t /\ pc'[d] \in Chained /\ (i > 1 => pc'[d] = "queued")
                 /\ call'[d].kind = "close" => states'[t].closing /\ i = Len(states'[t].queue)
  <2> PICK j : j = IF t = s THEN i + 1 ELSE i
    OBVIOUS
  <2>1. /\ j \in 1..Len(states[t].queue) /\ i \in Nat
        /\ states'[t].queue[i] = states[t].queue[j] /\ states[t].queue[j] # c
        /\ j = Len(states[t].queue) => i = Len(states'[t].queue)
    BY <1>4
  <2>2. i > 1 => j > 1
    BY <2>1
  <2> PICK d \in Calls : d = states[t].queue[j]
    BY <1>1, <2>1
  <2>3. call[d].of = t /\ pc[d] \in Chained /\ (j > 1 => pc[d] = "queued")
    BY <2>1 DEF Queues
  <2>4. call[d].kind = "close" => states[t].closing /\ j = Len(states[t].queue)
    BY <2>1 DEF Closing, CloserIsLast
  <2> QED
    BY <2>1, <2>2, <2>3, <2>4
<1>6. ASSUME NEW t \in Calls, NEW i \in 1..Len(states'[t].queue),
             NEW j \in 1..Len(states'[t].queue), states'[t].queue[i] = states'[t].queue[j]
      PROVE  i = j
  <2>1. CASE t # s
    BY <1>6, <2>1 DEF Queues
  <2>2. CASE t = s
    <3>1. i \in 1..(n - 1) /\ j \in 1..(n - 1) /\ q[i + 1] = q[j + 1]
      BY <1>3, <1>6, <2>2
    <3>2. i + 1 \in 1..n /\ j + 1 \in 1..n
      BY <1>3, <3>1
    <3> QED
      BY <3>1, <3>2 DEF Queues
  <2> QED
    BY <2>1, <2>2
<1>7. ASSUME NEW d \in Calls, pc'[d] \in Running
      PROVE  AtHead(d)'
  <2>1. d # c /\ pc[d] \in Running
    BY <1>7 DEF Running
  <2>2. AtHead(d) /\ call[d].of \in Calls
    BY <2>1, CallTypes DEF Queues, AtHead
  <2>3. call[d].of # s
    BY <1>2, <2>1, <2>2 DEF AtHead
  <2> QED
    BY <2>1, <2>2, <2>3 DEF AtHead
<1>8. Queues'
  BY <1>5, <1>6, <1>7 DEF Queues
<1>9. Closing' /\ CloserIsLast'
  BY <1>5 DEF Closing, CloserIsLast
<1> QED
  BY <1>8, <1>9

\* Beside the state there is nothing starts.
LEMMA ChainStays ==
    ASSUME TypeOK, Queues, OneChain, docs' = docs, forsaken' = forsaken,
           \A s \in Calls : states'[s].queue = states[s].queue,
           \A d \in Calls : /\ pc[d] = "releasing" => pc'[d] = "releasing"
                            /\ pc[d] \in Chained => call'[d].kind = call[d].kind
    PROVE  OneChain'
<1> SUFFICES ASSUME ~forsaken, NEW s \in Calls, s # docs, states[s].queue # <<>>
             PROVE  Len(states[s].queue) = 1 /\ pc'[states[s].queue[1]] = "releasing"
                        /\ call'[states[s].queue[1]].kind = "close"
  BY DEF OneChain
<1>1. Len(states[s].queue) = 1 /\ states[s].queue \in Seq(Calls)
  BY CallTypes DEF OneChain
<1> PICK d \in Calls : d = states[s].queue[1]
  BY <1>1
<1> QED
  BY <1>1 DEF OneChain, Queues

\* A call joins the state there is, or one that is registered for it.
LEMMA ChainGrows ==
    ASSUME TypeOK, Queues, OneChain, forsaken' = forsaken,
           NEW c \in Calls, NEW s \in Calls, pc[c] \notin Chained, docs' = s, docs \in {s, None},
           \A t \in Calls \ {s} : states'[t].queue = states[t].queue,
           \A d \in Calls \ {c} : pc'[d] = pc[d] /\ call'[d].kind = call[d].kind
    PROVE  OneChain'
<1> SUFFICES ASSUME ~forsaken, NEW t \in Calls, t # s, states[t].queue # <<>>
             PROVE  Len(states[t].queue) = 1 /\ pc'[states[t].queue[1]] = "releasing"
                        /\ call'[states[t].queue[1]].kind = "close"
  BY DEF OneChain
<1>1. t # docs /\ Len(states[t].queue) = 1 /\ states[t].queue \in Seq(Calls)
  BY CallTypes DEF OneChain
<1> PICK d \in Calls : d = states[t].queue[1]
  BY <1>1
<1> QED
  BY <1>1 DEF OneChain, Queues

\* The first of a queue is done; its state goes with it only if it was forsaken or
\* left empty.
LEMMA ChainShrinks ==
    ASSUME TypeOK, Queues, OneChain, forsaken => forsaken',
           NEW c \in Calls, NEW s \in Calls, s = call[c].of, AtHead(c),
           states'[s].queue = Tail(states[s].queue),
           docs' = docs \/ (docs' = None /\ docs = s /\ (forsaken' \/ Len(states[s].queue) = 1)),
           \A t \in Calls \ {s} : states'[t].queue = states[t].queue,
           \A d \in Calls \ {c} : pc'[d] = pc[d] /\ call'[d].kind = call[d].kind
    PROVE  OneChain'
<1> SUFFICES ASSUME ~forsaken, ~forsaken', NEW t \in Calls, t # docs', states'[t].queue # <<>>
             PROVE  Len(states'[t].queue) = 1 /\ pc'[states'[t].queue[1]] = "releasing"
                        /\ call'[states'[t].queue[1]].kind = "close"
  BY DEF OneChain
<1>1. \A r \in Calls : states[r].queue \in Seq(Calls)
  BY CallTypes
<1>2. t # s
  <2>1. Len(states[s].queue) = 1 => Tail(states[s].queue) = <<>>
    <3> PICK q \in Seq(Calls) : q = states[s].queue
      BY <1>1
    <3>1. Len(q) = 1 => Tail(q) \in Seq(Calls) /\ Len(Tail(q)) = 0
      OBVIOUS
    <3>2. Len(q) = 1 => Tail(q) = <<>>
      BY <3>1, EmptySeq
    <3> QED
      BY <3>2
  <2>2. s # docs => Len(states[s].queue) = 1
    BY DEF OneChain, AtHead
  <2> QED
    BY <2>1, <2>2
<1>3. t # docs /\ states'[t].queue = states[t].queue /\ Len(states[t].queue) = 1
  BY <1>2 DEF OneChain
<1> PICK d \in Calls : d = states[t].queue[1]
  BY <1>1, <1>3
<1>4. d # c
  BY <1>2, <1>3 DEF Queues
<1> QED
  BY <1>3, <1>4 DEF OneChain
-----------------------------------------------------------------------------
(* One call moves on.                                                      *)

\* The call c has registered a state for the document.
Registered(c) == /\ docs' = c /\ pc'[c] = "queued" /\ states'[c].key = None
                 /\ \A d \in Calls : call[d].of # c

\* The others stay fresh: no key comes that is older than they are.
LEMMA OthersFresh ==
    ASSUME TypeOK, TypeOK', Freshness, Behind, Progress, NEW c \in Calls,
           \A d \in Calls \ {c} : pc'[d] = pc[d] /\ call'[d] = call[d],
           \A s \in Calls : states'[s].key \in {states[s].key, None},
           docs' \in {docs, None} \/ Registered(c),
           pc'[c] \in Opening =>
               \/ call'[c].key = file
               \/ pc[c] \in Opening /\ call'[c].key = call[c].key /\ call'[c].of = call[c].of
    PROVE  \A d \in Calls \ {c} : FreshCall(d)' /\ (AnswerOf(d) => AnswerOf(d)')
<1> SUFFICES ASSUME NEW d \in Calls \ {c}
             PROVE  FreshCall(d)' /\ (AnswerOf(d) => AnswerOf(d)')
  OBVIOUS
<1>1. call'[d] = call[d] /\ pc'[d] = pc[d]
  OBVIOUS
<1>2. call[d].kind \in Opens => call[d].asked \in Versions /\ call[d].asked <= file
  BY CallTypes DEF Progress, ProgressOf, Behind, Names
<1>3. ASSUME NEW s \in Calls, FreshFor(s, d), call[d].kind \in Opens
      PROVE  FreshFor(s, d)'
  <2>1. file \in Versions /\ Versions \subseteq Nat
    BY CallTypes DEF TypeOK
  <2> QED
    BY <1>1, <1>2, <1>3, <2>1 DEF FreshFor
<1>4. Registered(c) => FreshFor(docs, d)'
  BY <1>1 DEF Registered, FreshFor, Opening
<1>5. FreshCall(d)'
  <2>1. docs # None => docs \in Calls
    BY DEF TypeOK
  <2>2. pc[d] \in Exporting => call[d].of \in Calls
    BY CallTypes DEF Progress, ProgressOf
  <2> QED
    BY <1>1, <1>3, <1>4, <2>1, <2>2 DEF Freshness, FreshCall
<1>6. AnswerOf(d) => AnswerOf(d)'
  BY <1>1 DEF AnswerOf
<1> QED
  BY <1>5, <1>6

\* What is to be shown of a step of one call that gives no state a new key and files
\* no PDF: the queues are right, and so is what this call knows.
LEMMA Moves ==
    ASSUME IInv, TypeOK', NEW c \in Calls,
           \A d \in Calls \ {c} : pc'[d] = pc[d] /\ call'[d] = call[d],
           \A s \in Calls : states'[s].key \in {states[s].key, None},
           docs' \in {docs, None} \/ Registered(c), pdfs' = pdfs \/ NeverOlder', file' >= file, forsaken => forsaken',
           \/ copy' \in {copy, None} /\ replays' = replays
           \/ copy' = file /\ replays' # 0,
           Queues', Closing', CloserIsLast', OneChain',
           \A s \in Calls : pc'[s] \in {"idle", "behind"} => states'[s] = states[s],
           call'[c].of \in {call[c].of, docs, docs', None},
           pc'[c] \in {"idle", "behind"} => pc[c] \in {"idle", "behind"},
           call'[c].key = None \/ call'[c].key <= file,
           call'[c].asked = None \/ call'[c].asked <= file,
           pc'[c] \in Opening =>
               \/ call'[c].key = file
               \/ pc[c] \in Opening /\ call'[c].key = call[c].key /\ call'[c].of = call[c].of,
           pc'[c] = "exporting" /\ copy' # None => call'[c].key = None \/ call'[c].key <= copy',
           ProgressOf(c)', FreshCall(c)', AnswerOf(c)',
           replays' = 0 /\ ~forsaken' => OutlineOf(c)'
    PROVE  IInv'
<1>1. /\ TypeOK /\ Queues /\ Progress /\ Unborn /\ Behind /\ CopyIsNewer /\ NeverOlder
      /\ Freshness /\ Outlines /\ \A d \in Calls : AnswerOf(d)
  BY DEF IInv
<1>2. Progress'
  BY <1>1 DEF Progress, ProgressOf
<1>3. Unborn'
  <2> SUFFICES ASSUME NEW s \in Calls, pc'[s] \in {"idle", "behind"}
               PROVE  /\ docs' # s /\ states'[s] = Fresh
                      /\ \A d \in Calls : call'[d].of # s
    BY DEF Unborn
  <2>1. pc[s] \in {"idle", "behind"} /\ s # None
    BY CallTypes, <1>1
  <2> QED
    BY <1>1, <2>1 DEF Unborn, Registered
<1>4. file \in Nat /\ file' \in Nat /\ (copy = None \/ copy \in Nat) /\ copy' \in Names
  BY <1>1 DEF TypeOK, Versions, Names
<1>5. \A d \in Calls : /\ states[d].key \in Nat \cup {None} /\ call[d].key \in Nat \cup {None}
                       /\ call[d].asked \in Nat \cup {None}
                       /\ call'[d].key \in Nat \cup {None} /\ call'[d].asked \in Nat \cup {None}
  BY <1>1 DEF TypeOK, Versions
<1>6. Behind'
  <2>1. copy' = None \/ copy' <= file'
    BY <1>1, <1>4 DEF Behind
  <2>2. \A s \in Calls : states'[s].key = None \/ states'[s].key <= file'
    BY <1>1, <1>4, <1>5 DEF Behind
  <2>3. \A d \in Calls : /\ call'[d].key = None \/ call'[d].key <= file'
                         /\ call'[d].asked = None \/ call'[d].asked <= file'
    BY <1>1, <1>4, <1>5 DEF Behind
  <2> QED
    BY <2>1, <2>2, <2>3 DEF Behind
<1>7. CopyIsNewer'
  <2>1. CASE copy' \in {copy, None}
    BY <1>1, <2>1 DEF CopyIsNewer
  <2>2. CASE copy' = file
    BY <1>1, <2>2 DEF CopyIsNewer, Behind
  <2> QED
    BY <2>1, <2>2
<1>8. NeverOlder'
  BY <1>1 DEF NeverOlder
<1>9. Freshness' /\ \A d \in Calls : AnswerOf(d)'
  BY <1>1, OthersFresh DEF Freshness
<1>10. Outlines'
  BY <1>1 DEF Outlines, OutlineOf
<1> QED
  BY <1>2, <1>3, <1>6, <1>7, <1>8, <1>9, <1>10 DEF IInv
-----------------------------------------------------------------------------
(* The types.                                                              *)

StateObjects == [key : Versions \cup {None}, meta : BOOLEAN, pending : Calls \cup {None},
                 queue : Seq(Calls), closing : BOOLEAN]

CallRecords == [kind : Kinds \cup {None}, of : Calls \cup {None}, key : Versions \cup {None},
                asked : Versions \cup {None}, read : SUBSET Versions,
                shown : Versions \cup {None}, result : Versions \cup {None}, shared : BOOLEAN]

\* The type invariant, by these sets.
Typed ==
    /\ file \in Versions /\ copy \in Names /\ replays \in 0..MaxReplays
    /\ pdfs \in [Names -> Names] /\ forsaken \in BOOLEAN
    /\ docs \in Calls \cup {None}
    /\ states \in [Calls -> StateObjects]
    /\ pc \in [Calls -> Steps]
    /\ call \in [Calls -> CallRecords]

\* It says the same of a state, and of the next one.
LEMMA TypedIsTypeOK == (TypeOK <=> Typed) /\ (TypeOK' <=> Typed')
BY DEF TypeOK, Typed, Names, StateObjects, CallRecords

\* A queue may be given to a state, which may begin to close, and a call may be
\* given what it knows.
LEMMA Updates ==
    ASSUME Typed, NEW c \in Calls, NEW s \in Calls
    PROVE  /\ \A q \in Seq(Calls) :
                /\ [states EXCEPT ![s].queue = q] \in [Calls -> StateObjects]
                /\ [states EXCEPT ![s].closing = TRUE, ![s].queue = q] \in [Calls -> StateObjects]
           /\ \A p \in Calls \cup {None} : [states EXCEPT ![s].pending = p] \in [Calls -> StateObjects]
           /\ [states EXCEPT ![s].key = None] \in [Calls -> StateObjects]
           /\ \A a \in CallRecords : [call EXCEPT ![c] = a] \in [Calls -> CallRecords]
<1>1. states \in [Calls -> StateObjects] /\ call \in [Calls -> CallRecords]
  BY DEF Typed
<1>2. ASSUME NEW q \in Seq(Calls)
      PROVE  [states EXCEPT ![s].queue = q] \in [Calls -> StateObjects]
  BY <1>1 DEF StateObjects
<1>3. ASSUME NEW q \in Seq(Calls)
      PROVE  [states EXCEPT ![s].closing = TRUE, ![s].queue = q] \in [Calls -> StateObjects]
  BY <1>1 DEF StateObjects
<1>4. ASSUME NEW a \in CallRecords
      PROVE  [call EXCEPT ![c] = a] \in [Calls -> CallRecords]
  BY <1>1
<1>5. ASSUME NEW p \in Calls \cup {None}
      PROVE  [states EXCEPT ![s].pending = p] \in [Calls -> StateObjects]
  BY <1>1 DEF StateObjects
<1>6. [states EXCEPT ![s].key = None] \in [Calls -> StateObjects]
  BY <1>1 DEF StateObjects
<1> QED
  BY <1>2, <1>3, <1>4, <1>5, <1>6

\* What is asked has its type.
LEMMA AskedTypes ==
    ASSUME Typed, NEW kind \in Kinds, NEW s \in Calls \cup {None}
    PROVE  /\ Asked(kind, s) \in CallRecords
           /\ Asked(kind, s).kind = kind /\ Asked(kind, s).of = s /\ Asked(kind, s).key = None
           /\ Asked(kind, s).asked = (IF kind \in Opens THEN file ELSE None)
           /\ Asked(kind, s).read = {} /\ Asked(kind, s).shown = None
           /\ Asked(kind, s).result = None /\ Asked(kind, s).shared = FALSE
BY DEF Asked, NewCall, Typed, CallRecords

\* An operation that runs, or whose turn has come, is about a state object, and
\* what waits behind it is a queue.
LEMMA HeadTypes ==
    ASSUME TypeOK, NEW c \in Calls, AtHead(c)
    PROVE  /\ call[c].of \in Calls /\ Head(states[call[c].of].queue) = c
           /\ Tail(states[call[c].of].queue) \in Seq(Calls)
           /\ states[call[c].of].queue # <<>>
<1>1. states[call[c].of].queue \in Seq(Calls) /\ call[c].of \in Calls
  BY CallTypes DEF AtHead
<1> QED
  BY <1>1, HeadTailProperties DEF AtHead

\* An operation that is over leaves the types as they are.
LEMMA LeaveTypes ==
    ASSUME TypeOK, Typed, NEW c \in Calls, AtHead(c), NEW how \in Steps, Leave(c, how)
    PROVE  pc' \in [Calls -> Steps] /\ states' \in [Calls -> StateObjects]
<1>1. states' = [states EXCEPT ![call[c].of].queue = Tail(states[call[c].of].queue)]
  BY DEF Leave
<1>2. call[c].of \in Calls /\ Tail(states[call[c].of].queue) \in Seq(Calls)
  BY HeadTypes
<1>3. pc' \in [Calls -> Steps]
  BY DEF Leave, Typed
<1>4. states' \in [Calls -> StateObjects]
  BY <1>1, <1>2, Updates
<1> QED
  BY <1>3, <1>4

\* Entering the queue of a document keeps the types.
LEMMA EnterTypes ==
    ASSUME TypeOK, Typed, NEW c \in Calls, NEW a \in CallRecords, Enter(c, a)
    PROVE  /\ docs' \in Calls /\ pc' \in [Calls -> Steps]
           /\ states' \in [Calls -> StateObjects] /\ call' \in [Calls -> CallRecords]
<1> PICK s \in Calls : s = (IF docs = None THEN c ELSE docs)
  BY DEF Typed
<1> PICK b : b = [a EXCEPT !.of = s]
  OBVIOUS
<1>1. b \in CallRecords
  BY DEF CallRecords
<1>2. docs' = s /\ call' = [call EXCEPT ![c] = b]
  BY DEF Enter
<1>3. states' = states \/ states' = [states EXCEPT ![s].queue = Append(states[s].queue, c)]
  BY DEF Enter
<1>4. Append(states[s].queue, c) \in Seq(Calls)
  BY CallTypes, AppendProperties
<1>5. pc' \in [Calls -> Steps]
  BY DEF Enter, Goto, Typed, Steps
<1>6. states' \in [Calls -> StateObjects]
  <2>1. [states EXCEPT ![s].queue = Append(states[s].queue, c)] \in [Calls -> StateObjects]
    BY <1>4, Updates
  <2> QED
    BY <1>3, <2>1 DEF Typed
<1>7. call' \in [Calls -> CallRecords]
  BY <1>1, <1>2, Updates
<1> QED
  BY <1>2, <1>5, <1>6, <1>7

\* Asking something keeps the types.
LEMMA AskTypes ==
    ASSUME TypeOK, NEW c \in Calls, Ask(c)
    PROVE  TypeOK'
<1> USE TypedIsTypeOK
<1>1. CASE Open(c)
  <2> PICK kind \in Kinds \cap Opens : Enter(c, Asked(kind, None))
    BY <1>1 DEF Open
  <2>1. Asked(kind, None) \in CallRecords
    BY AskedTypes
  <2>2. UNCHANGED <<file, copy, replays, pdfs, forsaken>>
    BY <1>1 DEF Open, hostVars
  <2>3. /\ docs' \in Calls /\ pc' \in [Calls -> Steps]
        /\ states' \in [Calls -> StateObjects] /\ call' \in [Calls -> CallRecords]
    BY <2>1, EnterTypes
  <2> QED
    BY <2>2, <2>3 DEF Typed
<1>2. CASE Edit(c) \/ Outline(c) \/ Search(c) \/ Close(c)
  <2>1. PICK kind \in Kinds : call' = [call EXCEPT ![c] = Asked(kind, docs)]
    BY <1>2 DEF Edit, Outline, Search, Close
  <2>2. docs \in Calls \cup {None}
    BY DEF Typed
  <2>3. call' \in [Calls -> CallRecords]
    BY <2>1, <2>2, AskedTypes, Updates
  <2>4. pc' \in [Calls -> Steps]
    BY <1>2 DEF Edit, Outline, Search, Close, Enqueue, Goto, Typed, Steps
  <2>5. \/ states' = states
        \/ docs # None /\ states' = [states EXCEPT ![docs].queue = Append(@, c)]
        \/ docs # None /\ states' = [states EXCEPT ![docs].closing = TRUE,
                                                  ![docs].queue = Append(@, c)]
    BY <1>2 DEF Edit, Outline, Search, Close, Enqueue, Goto, IsOpen
  <2>6. docs # None => Append(states[docs].queue, c) \in Seq(Calls)
    BY <2>2, CallTypes, AppendProperties
  <2>7. states' \in [Calls -> StateObjects]
    <3>1. CASE states' = states
      BY <3>1 DEF Typed
    <3>2. CASE docs # None /\ states' = [states EXCEPT ![docs].queue = Append(@, c)]
      BY <2>2, <2>6, <3>2, Updates
    <3>3. CASE docs # None /\ states' = [states EXCEPT ![docs].closing = TRUE,
                                                      ![docs].queue = Append(@, c)]
      <4> PICK s \in Calls : s = docs
        BY <2>2, <3>3
      <4> PICK q \in Seq(Calls) : q = Append(states[s].queue, c)
        BY <2>6, <3>3
      <4>1. states' = [states EXCEPT ![s].closing = TRUE, ![s].queue = q]
        BY <3>3 DEF Typed, StateObjects
      <4>2. [states EXCEPT ![s].closing = TRUE, ![s].queue = q] \in [Calls -> StateObjects]
        BY Updates
      <4> QED
        BY <4>1, <4>2
    <3> QED
      BY <2>5, <3>1, <3>2, <3>3
  <2>8. UNCHANGED <<file, copy, replays, pdfs, docs, forsaken>>
    BY <1>2 DEF Edit, Outline, Search, Close, hostVars
  <2> QED
    BY <2>3, <2>4, <2>7, <2>8 DEF Typed
<1> QED
  BY <1>1, <1>2 DEF Ask

\* A continuation keeps the types.
LEMMA ContinueTypes ==
    ASSUME TypeOK, NEW c \in Calls, Continue(c)
    PROVE  TypeOK'
<1> USE TypedIsTypeOK
<1>1. CASE OpenAgain(c)
  <2>1. call[c] \in CallRecords /\ Enter(c, call[c])
    BY <1>1 DEF Typed, OpenAgain
  <2>2. /\ docs' \in Calls /\ pc' \in [Calls -> Steps]
        /\ states' \in [Calls -> StateObjects] /\ call' \in [Calls -> CallRecords]
    BY <2>1, EnterTypes
  <2>3. UNCHANGED <<file, copy, replays, pdfs, forsaken>>
    BY <1>1 DEF OpenAgain, hostVars
  <2> QED
    BY <2>2, <2>3 DEF Typed
<1>2. CASE CloseAgain(c)
  BY <1>2 DEF CloseAgain, Goto, Typed, hostVars, Steps
<1>3. CASE Forget(c)
  BY <1>3 DEF Forget, Goto, Typed, hostVars, Steps
<1>4. CASE Look(c)
  <2>1. UNCHANGED <<file, copy, replays, pdfs, docs, forsaken>>
    BY <1>4 DEF Look, hostVars
  <2>2. pc' \in [Calls -> Steps]
    BY <1>4 DEF Look, Goto, Typed, Steps
  <2>3. docs = None \/ (docs \in Calls /\ states[docs].key \in Names /\ pdfs[states[docs].key] \in Names)
    BY DEF Typed, StateObjects, Names
  <2>4. states' \in [Calls -> StateObjects]
    <3>1. states' = states \/ (docs # None /\ states' = [states EXCEPT ![docs].pending = c])
      BY <1>4 DEF Look, IsOpen
    <3>2. docs # None => [states EXCEPT ![docs].pending = c] \in [Calls -> StateObjects]
      BY <2>3, Updates
    <3> QED
      BY <3>1, <3>2 DEF Typed
  <2>5. call' \in [Calls -> CallRecords]
    <3> SUFFICES ASSUME call' # call
                 PROVE  call' \in [Calls -> CallRecords]
      BY DEF Typed
    <3>1. docs # None
      BY <1>4 DEF Look, IsOpen
    <3> PICK k \in Names : k = states[docs].key
      BY <2>3, <3>1
    <3> PICK v \in Names : v = pdfs[k]
      BY <2>3, <3>1
    <3> DEFINE found == [call[c] EXCEPT !.result = k, !.key = k, !.shown = v]
               shares == [call[c] EXCEPT !.of = docs, !.shared = TRUE]
               exports == [call[c] EXCEPT !.of = docs, !.key = k]
    <3>2. PICK a \in {found, shares, exports} : call' = [call EXCEPT ![c] = a]
      <4>1. \/ call' = [call EXCEPT ![c] = found]
            \/ call' = [call EXCEPT ![c] = shares]
            \/ call' = [call EXCEPT ![c] = exports]
        BY <1>4 DEF Look
      <4> QED
        BY <4>1
    <3>3. call[c] \in CallRecords /\ docs \in Calls
      BY <2>3, <3>1 DEF Typed
    <3>4. a \in CallRecords
      BY <3>3 DEF CallRecords, Names
    <3> QED
      BY <3>2, <3>4, Updates
  <2> QED
    BY <2>1, <2>2, <2>4, <2>5 DEF Typed
<1> QED
  BY <1>1, <1>2, <1>3, <1>4 DEF Continue

\* An event keeps the types.
LEMMA EventTypes ==
    ASSUME TypeOK, Queues, Progress, NEW c \in Calls, Event(c)
    PROVE  TypeOK'
<1> USE TypedIsTypeOK
<1>1. pc[c] \in Running => AtHead(c)
  BY DEF Queues
<1>2. \A d \in Calls : pc[d] \in Exporting => call[d].of \in Calls
  BY CallTypes DEF Progress, ProgressOf
<1>3. AtHead(c) => call[c].of \in Calls
  BY HeadTypes
<1>4. HostReads => /\ copy \in Versions /\ copy' \in Versions /\ replays' \in 0..MaxReplays
  BY CacheAssumption DEF HostReads, Typed, Names
<1>5. HostCloses => copy' \in Names /\ replays' = replays
  BY DEF HostCloses, Typed, Names
<1>6. CASE Fingerprint(c)
  <2>1. AtHead(c) /\ UNCHANGED <<file, copy, replays, pdfs, docs, forsaken>>
    BY <1>6 DEF Fingerprint, hostVars
  <2>2. pc' \in [Calls -> Steps] /\ states' \in [Calls -> StateObjects]
    <3>1. CASE Leave(c, "failed") \/ Leave(c, Answered(c))
      BY <2>1, <3>1, LeaveTypes DEF Steps, Answered
    <3>2. CASE ~(Leave(c, "failed") \/ Leave(c, Answered(c)))
      BY <1>6, <3>2 DEF Fingerprint, Goto, Typed, Steps
    <3> QED
      BY <3>1, <3>2
  <2>3. call' \in [Calls -> CallRecords]
    BY <1>6 DEF Fingerprint, Typed, CallRecords
  <2> QED
    BY <2>1, <2>2, <2>3 DEF Typed
<1>7. CASE Drop(c)
  BY <1>5, <1>7 DEF Drop, Goto, Typed, Steps
<1>8. CASE HostOpens(c)
  <2>1. /\ AtHead(c) /\ file \in Versions /\ docs' \in Calls \cup {None} /\ forsaken' \in BOOLEAN
        /\ copy' \in Names /\ UNCHANGED <<file, replays, pdfs>>
    BY <1>1, <1>8 DEF HostOpens, Typed, Names, Running, Chained
  <2>2. call' \in [Calls -> CallRecords]
    BY <1>8 DEF HostOpens, Typed, CallRecords
  <2>3. CASE Leave(c, "failed")
    <3>1. pc' \in [Calls -> Steps] /\ states' \in [Calls -> StateObjects]
      BY <2>1, <2>3, LeaveTypes DEF Steps
    <3> QED
      BY <2>1, <2>2, <3>1 DEF Typed
  <2>4. CASE ~Leave(c, "failed")
    <3>1. Tail(states[call[c].of].queue) \in Seq(Calls) /\ call[c].key \in Names
      BY <2>1, HeadTypes, CallTypes
    <3>2. states' = [states EXCEPT ![call[c].of].key = call[c].key, ![call[c].of].meta = TRUE,
                                   ![call[c].of].queue = Tail(@)]
      BY <1>8, <2>4 DEF HostOpens
    <3>3. states' \in [Calls -> StateObjects]
      BY <3>1, <3>2 DEF Typed, StateObjects, Names
    <3>4. pc' \in [Calls -> Steps]
      BY <1>8, <2>4 DEF HostOpens, Answered, Typed, Steps
    <3> QED
      BY <2>1, <2>2, <3>3, <3>4 DEF Typed
  <2> QED
    BY <2>3, <2>4
<1>9. CASE Export(c)
  <2>1. UNCHANGED <<file, docs, call, forsaken>>
    BY <1>9 DEF Export
  <2>2. pc' \in [Calls -> Steps] /\ states' \in [Calls -> StateObjects]
    <3>1. [states EXCEPT ![call[c].of].pending = None] \in [Calls -> StateObjects]
      BY <1>2, <1>9, Updates DEF Export, Exporting
    <3> QED
      BY <1>9, <3>1 DEF Export, Goto, Typed, Steps
  <2>3. copy' \in Names /\ replays' \in 0..MaxReplays /\ pdfs' \in [Names -> Names]
    BY <1>4, <1>9 DEF Export, Typed, hostVars, Names
  <2> QED
    BY <2>1, <2>2, <2>3 DEF Typed
<1>10. CASE Prune(c)
  <2>1. UNCHANGED <<file, copy, replays, docs, forsaken>>
    BY <1>10 DEF Prune
  <2>2. pc' \in [Calls -> Steps] /\ states' \in [Calls -> StateObjects]
    BY <1>10 DEF Prune, Typed, Steps, StateObjects
  <2> DEFINE k == states[call[c].of].key
  <2>k. k \in Names
    BY <1>2, <1>10, CallTypes DEF Prune, Exporting
  <2>3. PICK left : /\ left \in {[n \in Names |-> IF n = k THEN pdfs[n] ELSE None], pdfs}
                    /\ pdfs' = left
                    /\ call' = [d \in Calls |->
                                   IF d \in Sharing(c)
                                   THEN [call[d] EXCEPT !.result = k, !.shown = left[call[c].key]]
                                   ELSE call[d]]
    BY <1>10 DEF Prune
  <2>4. left \in [Names -> Names]
    <3>1. None \in Names /\ pdfs \in [Names -> Names]
      BY DEF Typed, Names
    <3>2. [n \in Names |-> IF n = k THEN pdfs[n] ELSE None] \in [Names -> Names]
      BY <3>1
    <3> QED
      BY <2>3, <3>1, <3>2
  <2> PICK v \in Names : v = left[call[c].key]
    BY <2>4, CallTypes
  <2>5. ASSUME NEW d \in Calls
        PROVE  [call[d] EXCEPT !.result = k, !.shown = v] \in CallRecords
    <3>1. call[d] \in CallRecords
      BY DEF Typed
    <3> HIDE DEF k
    <3> QED
      BY <2>k, <3>1 DEF CallRecords, Names
  <2>6. call' \in [Calls -> CallRecords]
    <3>1. call' = [d \in Calls |-> IF d \in Sharing(c)
                                  THEN [call[d] EXCEPT !.result = k, !.shown = v] ELSE call[d]]
      BY <2>3
    <3> QED
      BY <2>5, <3>1 DEF Typed
  <2> QED
    BY <2>1, <2>2, <2>3, <2>4, <2>6 DEF Typed
<1>11. CASE EditorRuns(c)
  <2>1. UNCHANGED <<copy, replays, pdfs, docs, call, forsaken>>
    BY <1>11 DEF EditorRuns, hostVars
  <2>2. file' \in Versions
    BY <1>11, CacheAssumption DEF EditorRuns, Typed, Versions
  <2>3. pc' \in [Calls -> Steps] /\ states' \in [Calls -> StateObjects]
    <3>1. CASE call[c].of # None /\ Leave(c, "failed")
      <4>1. AtHead(c)
        BY <1>11, <3>1 DEF EditorRuns, Progress, ProgressOf
      <4> QED
        BY <3>1, <4>1, LeaveTypes DEF Steps
    <3>2. CASE ~(call[c].of # None /\ Leave(c, "failed"))
      <4>1. states' = states
            \/ (call[c].of \in Calls /\ states' = [states EXCEPT ![call[c].of].key = None])
        BY <1>11, <3>2, CallTypes DEF EditorRuns
      <4>2. call[c].of \in Calls =>
                [states EXCEPT ![call[c].of].key = None] \in [Calls -> StateObjects]
        BY Updates
      <4>3. states' \in [Calls -> StateObjects]
        BY <4>1, <4>2 DEF Typed
      <4> QED
        BY <1>11, <3>2, <4>3 DEF EditorRuns, Goto, Typed, Steps
    <3> QED
      BY <3>1, <3>2
  <2> QED
    BY <2>1, <2>2, <2>3 DEF Typed
<1>12. CASE Release(c)
  <2>1. pc' \in [Calls -> Steps] /\ states' \in [Calls -> StateObjects]
    BY <1>1, <1>12, LeaveTypes DEF Release, Running, Chained, Steps
  <2> QED
    BY <1>5, <1>12, <2>1 DEF Release, Typed
<1>13. CASE Read(c)
  <2>1. UNCHANGED <<file, pdfs, docs, forsaken>>
    BY <1>13 DEF Read
  <2>2. copy' \in Names /\ replays' \in 0..MaxReplays
    BY <1>4, <1>13 DEF Read, Typed, Names
  <2>3. call' \in [Calls -> CallRecords]
    <3>1. ASSUME call' # call
          PROVE  copy' \in Versions /\ call' = [call EXCEPT ![c].read = @ \cup {copy'}]
      BY <1>4, <1>13, <3>1 DEF Read
    <3> QED
      BY <3>1 DEF Typed, CallRecords
  <2>4. pc' \in [Calls -> Steps] /\ states' \in [Calls -> StateObjects]
    <3>1. CASE call[c].kind = "outline" /\ (Leave(c, "done") \/ Leave(c, "failed"))
      <4>1. AtHead(c)
        BY <1>1, <1>13, <3>1 DEF Read, Running, Chained, Progress, ProgressOf
      <4> QED
        BY <3>1, <4>1, LeaveTypes DEF Steps
    <3>2. CASE ~(call[c].kind = "outline" /\ (Leave(c, "done") \/ Leave(c, "failed")))
      BY <1>13, <3>2 DEF Read, Goto, Typed, Steps
    <3> QED
      BY <3>1, <3>2
  <2> QED
    BY <2>1, <2>2, <2>3, <2>4 DEF Typed
<1> QED
  BY <1>6, <1>7, <1>8, <1>9, <1>10, <1>11, <1>12, <1>13 DEF Event
-----------------------------------------------------------------------------
(* The ways a call moves on.                                               *)

\* An operation is over, and the next of its document may run.
LEMMA Leaves ==
    ASSUME IInv, TypeOK', NEW c \in Calls, AtHead(c),
           NEW how \in {"done", "failed", "look"}, Leave(c, how),
           docs' = docs, pdfs' = pdfs, file' = file, forsaken' = forsaken,
           \/ copy' \in {copy, None} /\ replays' = replays
           \/ copy' = file /\ replays' # 0,
           \A d \in Calls \ {c} : call'[d] = call[d],
           call'[c].kind = call[c].kind, call'[c].of = call[c].of,
           call'[c].key = call[c].key, call'[c].asked = call[c].asked,
           ProgressOf(c)', FreshCall(c)', AnswerOf(c)',
           replays' = 0 /\ ~forsaken' => OutlineOf(c)'
    PROVE  IInv'
<1>1. TypeOK /\ Queues /\ Closing /\ CloserIsLast /\ OneChain /\ Unborn /\ Behind
  BY DEF IInv
<1>2. call[c].of \in Calls
  BY <1>1, HeadTypes
<1>3. /\ pc'[c] = how /\ \A d \in Calls \ {c} : pc'[d] = pc[d]
      /\ states'[call[c].of].queue = Tail(states[call[c].of].queue)
      /\ \A s \in Calls \ {call[c].of} : states'[s] = states[s]
      /\ \A s \in Calls : states'[s].key = states[s].key /\ states'[s].closing = states[s].closing
  BY <1>1, <1>2 DEF Leave, TypeOK
<1>4. pc'[c] \notin Chained
  BY <1>3 DEF Chained
<1>5. Queues' /\ Closing' /\ CloserIsLast'
  BY <1>1, <1>2, <1>3, <1>4, QueueShrinks
<1>6. OneChain'
  BY <1>1, <1>2, <1>3, ChainShrinks
<1>7. \A s \in Calls : pc[s] \in {"idle", "behind"} => states'[s] = states[s]
  BY <1>1, <1>3 DEF Unborn
<1>8. /\ call[c].key = None \/ call[c].key <= file
      /\ call[c].asked = None \/ call[c].asked <= file
  BY <1>1 DEF Behind
<1>9. pc'[c] \notin {"idle", "behind", "exporting"} \cup Opening /\ file' >= file
  BY <1>1, <1>3 DEF Opening, TypeOK, Versions
<1> QED
  BY <1>3, <1>5, <1>6, <1>7, <1>8, <1>9, Moves

\* A call moves on, and no queue changes.
LEMMA Stays ==
    ASSUME IInv, TypeOK', NEW c \in Calls,
           \A d \in Calls \ {c} : pc'[d] = pc[d] /\ call'[d] = call[d],
           \A s \in Calls : /\ states'[s].key \in {states[s].key, None}
                            /\ states'[s].queue = states[s].queue
                            /\ states'[s].closing = states[s].closing
                            /\ pc[s] \in {"idle", "behind"} => states'[s] = states[s],
           \/ pc[c] \notin Chained /\ pc'[c] \notin Chained
           \/ AtHead(c) /\ pc[c] \in Chained /\ pc'[c] \in Running,
           pc[c] # "releasing",
           pc'[c] \in {"idle", "behind"} => pc[c] \in {"idle", "behind"},
           pc[c] \in Chained => call'[c].kind = call[c].kind /\ call'[c].of = call[c].of,
           docs' = docs, pdfs' = pdfs \/ NeverOlder', file' >= file, forsaken' = forsaken,
           \/ copy' \in {copy, None} /\ replays' = replays
           \/ copy' = file /\ replays' # 0,
           call'[c].of \in {call[c].of, docs, None},
           call'[c].key = None \/ call'[c].key <= file,
           call'[c].asked = None \/ call'[c].asked <= file,
           pc'[c] \in Opening =>
               \/ call'[c].key = file
               \/ pc[c] \in Opening /\ call'[c].key = call[c].key /\ call'[c].of = call[c].of,
           pc'[c] = "exporting" /\ copy' # None => call'[c].key = None \/ call'[c].key <= copy',
           ProgressOf(c)', FreshCall(c)', AnswerOf(c)',
           replays' = 0 /\ ~forsaken' => OutlineOf(c)'
    PROVE  IInv'
<1>1. TypeOK /\ Queues /\ Closing /\ CloserIsLast /\ OneChain
  BY DEF IInv
<1>2. \A d \in Calls :
          /\ \/ pc'[d] = pc[d]
             \/ pc[d] \notin Chained /\ pc'[d] \notin Chained
             \/ pc[d] \in Chained /\ AtHead(d) /\ pc'[d] \in Running
          /\ pc[d] \in Chained => call'[d].of = call[d].of /\ call'[d].kind = call[d].kind
          /\ pc[d] = "releasing" => pc'[d] = "releasing"
  OBVIOUS
<1>3. Queues' /\ Closing' /\ CloserIsLast'
  BY <1>1, <1>2, QueuesStay
<1>4. OneChain'
  BY <1>1, <1>2, ChainStays
<1> QED
  BY <1>3, <1>4, Moves

\* A call joins the queue of the document, which is not closing, perhaps to close it.
LEMMA Joins ==
    ASSUME IInv, TypeOK', NEW c \in Calls, docs \in Calls, ~states[docs].closing,
           pc[c] \in {"idle", "behind"}, pc'[c] = "queued",
           \A d \in Calls \ {c} : pc'[d] = pc[d] /\ call'[d] = call[d],
           states'[docs].queue = Append(states[docs].queue, c),
           states'[docs].key = states[docs].key,
           \A s \in Calls \ {docs} : states'[s] = states[s],
           docs' = docs, pdfs' = pdfs, file' = file, forsaken' = forsaken,
           copy' = copy, replays' = replays,
           call'[c].of = docs, call'[c].kind = "close" => states'[docs].closing,
           call'[c].key = None \/ call'[c].key <= file,
           call'[c].asked = None \/ call'[c].asked <= file,
           call'[c].kind \in Opens => call'[c].asked # None /\ call'[c].shown = None,
           call'[c].kind = "outline" => call'[c].read = {}
    PROVE  IInv'
<1>1. /\ TypeOK /\ Queues /\ Closing /\ CloserIsLast /\ OneChain /\ Unborn
      /\ Progress /\ Freshness
  BY DEF IInv
<1>2. pc[c] \notin Chained /\ c # docs
  BY <1>1 DEF Chained, Unborn
<1>3. Queues' /\ Closing' /\ CloserIsLast'
  BY <1>1, <1>2, QueueGrows
<1>4. OneChain'
  BY <1>1, <1>2, ChainGrows
<1>5. \A s \in Calls : pc[s] \in {"idle", "behind"} => states'[s] = states[s]
  BY <1>1 DEF Unborn
<1>6. ProgressOf(c)'
  BY DEF ProgressOf, Opening, Exporting
<1>7. FreshCall(c)' /\ AnswerOf(c)' /\ OutlineOf(c)'
  BY DEF FreshCall, AnswerOf, OutlineOf, Opening, Exporting
<1>8. file' >= file /\ pc'[c] \notin {"idle", "behind", "exporting"} \cup Opening
  BY <1>1 DEF Opening, TypeOK, Versions
<1> QED
  BY <1>2, <1>3, <1>4, <1>5, <1>6, <1>7, <1>8, Moves
-----------------------------------------------------------------------------
(* Every step keeps the invariant.                                         *)

\* While the first of a queue waits for its turn, nobody opens its document.
LEMMA HeadIsAlone ==
    ASSUME IInv, NEW c \in Calls, AtHead(c), NEW d \in Calls, d # c, call[d].of = call[c].of
    PROVE  pc[d] \notin Running
BY DEF IInv, Queues, AtHead

\* A fingerprint is that of the file as it is, so not older than the call.
LEMMA FingerprintStep ==
    ASSUME IInv, TypeOK', NEW c \in Calls, Fingerprint(c)
    PROVE  IInv'
<1>1. TypeOK /\ Progress /\ Freshness /\ Behind
  BY DEF IInv
<1>2. /\ pc[c] = "queued" /\ AtHead(c) /\ call[c].kind \in Opens
      /\ UNCHANGED <<file, copy, replays, pdfs, docs, forsaken>>
  BY DEF Fingerprint, hostVars
<1>3. /\ call[c].of \in Calls /\ call[c].asked \in Nat /\ call[c].asked <= file
      /\ file \in Nat /\ file # None
  BY <1>1, <1>2, HeadTypes, CallTypes DEF Progress, ProgressOf, Behind, Names, TypeOK
<1>4. /\ call[c].shown = None
      /\ docs # None => FreshFor(docs, c) \/ docs = call[c].of
  BY <1>1, <1>2 DEF Freshness, FreshCall
<1>5. call[c].key = None \/ call[c].key <= file
  BY <1>1 DEF Behind
<1>6. \A d \in Calls : call[d].of = call[c].of => pc[d] \notin Opening
  BY <1>2, HeadIsAlone DEF Opening, Running, Chained
<1>7. CASE Leave(c, "failed") /\ UNCHANGED call
  <2>1. pc'[c] = "failed"
    BY <1>1, <1>7 DEF Leave, TypeOK
  <2>2. ProgressOf(c)'
    BY <1>1, <1>7, <2>1 DEF Progress, ProgressOf, Opening, Exporting
  <2>3. FreshCall(c)' /\ AnswerOf(c)' /\ OutlineOf(c)'
    BY <1>2, <1>7, <2>1 DEF FreshCall, AnswerOf, OutlineOf, Opening, Exporting, Opens
  <2> QED
    BY <1>2, <1>7, <2>2, <2>3, Leaves
<1>8. CASE /\ states[call[c].of].key = file
           /\ Leave(c, Answered(c))
           /\ call' = [call EXCEPT ![c].result = file]
  <2>1. /\ call'[c].kind = call[c].kind /\ call'[c].of = call[c].of
        /\ call'[c].key = call[c].key /\ call'[c].asked = call[c].asked
        /\ call'[c].shown = call[c].shown /\ call'[c].result = file
        /\ \A d \in Calls \ {c} : call'[d] = call[d]
    BY <1>1, <1>8 DEF TypeOK
  <2>2. /\ pc'[c] = Answered(c) /\ \A d \in Calls \ {c} : pc'[d] = pc[d]
        /\ \A s \in Calls : states'[s].key = states[s].key
    BY <1>1, <1>3, <1>8 DEF Leave, TypeOK
  <2>3. pc'[c] \in {"look", "done"} /\ (pc'[c] = "look" => call[c].kind = "pdf")
    BY <2>2 DEF Answered
  <2>4. ProgressOf(c)'
    BY <1>1, <1>2, <2>1, <2>3 DEF Progress, ProgressOf, Opening, Exporting, Opens
  <2>5. docs # None => FreshFor(docs, c)'
    <3>1. CASE docs # None /\ FreshFor(docs, c)
      <4>1. docs \in Calls
        BY <1>1, <3>1 DEF TypeOK
      <4> QED
        BY <1>2, <2>1, <2>2, <2>3, <3>1, <4>1 DEF FreshFor, Opening
    <3>2. CASE docs = call[c].of
      BY <1>2, <1>3, <1>6, <1>8, <2>1, <2>2, <2>3, <3>2 DEF FreshFor, Opening
    <3> QED
      BY <1>4, <3>1, <3>2
  <2>6. FreshCall(c)'
    BY <1>2, <1>3, <1>4, <2>1, <2>3, <2>5 DEF FreshCall, Opening, Exporting
  <2>7. AnswerOf(c)' /\ OutlineOf(c)'
    BY <1>2, <1>3, <1>4, <2>1, <2>3 DEF AnswerOf, OutlineOf, Opens
  <2> QED
    BY <1>2, <1>8, <2>1, <2>3, <2>4, <2>6, <2>7, Leaves DEF Answered
<1>9. CASE /\ pc' = [pc EXCEPT ![c] = IF states[call[c].of].key \in {None, file}
                                    THEN "opening" ELSE "dropping"]
           /\ call' = [call EXCEPT ![c].key = file]
           /\ UNCHANGED states
  <2>1. /\ call'[c].kind = call[c].kind /\ call'[c].of = call[c].of
        /\ call'[c].key = file /\ call'[c].asked = call[c].asked
        /\ call'[c].shown = call[c].shown
        /\ \A d \in Calls \ {c} : call'[d] = call[d]
    BY <1>1, <1>9 DEF TypeOK
  <2>2. pc'[c] \in Opening /\ \A d \in Calls \ {c} : pc'[d] = pc[d]
    BY <1>1, <1>9 DEF TypeOK, Opening
  <2>3. ProgressOf(c)'
    BY <1>1, <1>2, <1>3, <2>1, <2>2 DEF Progress, ProgressOf, Opening, Exporting
  <2>4. docs # None => FreshFor(docs, c)' \/ docs = call[c].of
    <3> SUFFICES ASSUME docs # None, FreshFor(docs, c)
                 PROVE  FreshFor(docs, c)'
      BY <1>2, <1>4
    <3>1. docs \in Calls
      BY <1>1 DEF TypeOK
    <3> QED
      BY <1>2, <1>3, <1>9, <2>1, <2>2, <3>1 DEF FreshFor
  <2>5. FreshCall(c)'
    BY <1>2, <1>3, <1>4, <2>1, <2>2, <2>4 DEF FreshCall, Opening, Exporting
  <2>6. AnswerOf(c)' /\ OutlineOf(c)'
    BY <1>2, <2>1, <2>2 DEF AnswerOf, OutlineOf, Opens, Opening
  <2>7. /\ pc[c] \in Chained /\ pc'[c] \in Running /\ pc[c] # "releasing"
        /\ pc'[c] \notin {"idle", "behind", "exporting"}
    BY <1>2, <2>2 DEF Running, Chained, Opening
  <2> QED
    BY <1>2, <1>3, <1>9, <2>1, <2>2, <2>3, <2>5, <2>6, <2>7, Stays
<1> QED
  BY <1>7, <1>8, <1>9 DEF Fingerprint, Goto

\* The old working copy may only be closed.
LEMMA DropStep ==
    ASSUME IInv, TypeOK', NEW c \in Calls, Drop(c)
    PROVE  IInv'
<1>1. TypeOK /\ Queues /\ Progress /\ Freshness /\ Behind
  BY DEF IInv
<1>2. /\ pc[c] = "dropping" /\ pc'[c] = "opening" /\ \A d \in Calls \ {c} : pc'[d] = pc[d]
      /\ UNCHANGED <<file, pdfs, docs, states, call, forsaken>>
      /\ copy' \in {copy, None} /\ replays' = replays
  BY <1>1 DEF Drop, HostCloses, Goto, TypeOK
<1>3. /\ AtHead(c) /\ pc[c] \in Chained /\ pc'[c] \in Running
      /\ pc[c] \in Opening /\ pc'[c] \in Opening
  BY <1>1, <1>2 DEF Queues, Running, Chained, Opening
<1>4. call[c].kind \in Opens /\ call[c].key # None
  BY <1>1, <1>3 DEF Progress, ProgressOf
<1>5. ProgressOf(c)'
  BY <1>1, <1>2, <1>4 DEF Progress, ProgressOf, Exporting
<1>6. \A s \in Calls : FreshFor(s, c) => FreshFor(s, c)'
  BY <1>2, <1>3 DEF FreshFor
<1>7. docs # None => docs \in Calls
  BY <1>1 DEF TypeOK
<1>8. FreshCall(c)'
  BY <1>1, <1>2, <1>3, <1>6, <1>7 DEF Freshness, FreshCall, Exporting
<1>9. AnswerOf(c)' /\ OutlineOf(c)'
  BY <1>2, <1>4 DEF AnswerOf, OutlineOf, Opens
<1>10. /\ call[c].key = None \/ call[c].key <= file
       /\ call[c].asked = None \/ call[c].asked <= file
       /\ file' >= file
  BY <1>1, <1>2 DEF Behind, TypeOK, Versions
<1> QED
  BY <1>2, <1>3, <1>5, <1>8, <1>9, <1>10, Stays

\* A released working copy is of no call that has its answer yet.
LEMMA ReleaseStep ==
    ASSUME IInv, TypeOK', NEW c \in Calls, Release(c)
    PROVE  IInv'
<1>1. TypeOK /\ Queues /\ Progress
  BY DEF IInv
<1>2. /\ pc[c] = "releasing" /\ Leave(c, "done") /\ pc'[c] = "done"
      /\ UNCHANGED <<file, pdfs, docs, call, forsaken>>
      /\ copy' \in {copy, None} /\ replays' = replays
  BY <1>1 DEF Release, HostCloses, Leave, TypeOK
<1>3. AtHead(c) /\ call[c].kind \in {"edit", "close"}
  BY <1>1, <1>2 DEF Queues, Progress, ProgressOf, Running, Chained
<1>4. ProgressOf(c)'
  BY <1>1, <1>2 DEF Progress, ProgressOf, Opening, Exporting
<1>5. FreshCall(c)' /\ AnswerOf(c)' /\ OutlineOf(c)'
  BY <1>2, <1>3 DEF FreshCall, AnswerOf, OutlineOf, Opens
<1> QED
  BY <1>2, <1>3, <1>4, <1>5, Leaves

\* An edit makes the file newer and takes the key from the state, or does nothing.
LEMMA EditorRunsStep ==
    ASSUME IInv, TypeOK', NEW c \in Calls, EditorRuns(c)
    PROVE  IInv'
<1>1. TypeOK /\ Queues /\ Progress /\ Behind /\ Unborn
  BY DEF IInv
<1>2. call[c].kind = "edit" /\ UNCHANGED <<copy, replays, pdfs, docs, call, forsaken>>
  BY DEF EditorRuns, hostVars
<1>3. FreshCall(c)' /\ AnswerOf(c)' /\ OutlineOf(c)'
  BY <1>2 DEF FreshCall, AnswerOf, OutlineOf, Opens
<1>4. /\ file \in Nat /\ file' \in Nat /\ file' >= file
      /\ call[c].key = None \/ call[c].key <= file
      /\ call[c].asked = None \/ call[c].asked <= file
  BY <1>1 DEF EditorRuns, Behind, TypeOK, Versions
<1>5. CASE call[c].of = None
  <2>1. /\ pc[c] = "editing" /\ states' = states /\ pc'[c] \in {"done", "failed"}
        /\ \A d \in Calls \ {c} : pc'[d] = pc[d]
    BY <1>1, <1>5 DEF EditorRuns, AtHead, Goto, TypeOK
  <2>2. ProgressOf(c)'
    BY <1>2, <2>1 DEF ProgressOf, Opening, Exporting, Opens
  <2>3. pc[c] \notin Chained /\ pc'[c] \notin Chained \cup Opening \cup {"idle", "behind", "exporting"}
    BY <2>1 DEF Chained, Opening
  <2> QED
    BY <1>2, <1>3, <1>4, <2>1, <2>2, <2>3, Stays
<1>6. CASE call[c].of # None
  <2>1. pc[c] = "queued" /\ AtHead(c) /\ call[c].of \in Calls
    BY <1>1, <1>6, CallTypes DEF EditorRuns, Progress, ProgressOf
  <2>2. CASE states' = [states EXCEPT ![call[c].of].key = None] /\ Goto(c, "releasing")
    <3>1. pc'[c] = "releasing" /\ \A d \in Calls \ {c} : pc'[d] = pc[d]
      BY <1>1, <2>2 DEF Goto, TypeOK
    <3>2. \A s \in Calls : /\ states'[s].key \in {states[s].key, None}
                           /\ states'[s].queue = states[s].queue
                           /\ states'[s].closing = states[s].closing
                           /\ pc[s] \in {"idle", "behind"} => states'[s] = states[s]
      BY <1>1, <2>1, <2>2 DEF TypeOK, Unborn
    <3>3. ProgressOf(c)'
      BY <1>2, <3>1 DEF ProgressOf, Opening, Exporting, Opens
    <3>4. /\ pc[c] \in Chained /\ pc'[c] \in Running
          /\ pc'[c] \notin Opening \cup {"idle", "behind", "exporting"}
      BY <2>1, <3>1 DEF Chained, Running, Opening
    <3> QED
      BY <1>2, <1>3, <1>4, <2>1, <3>1, <3>2, <3>3, <3>4, Stays
  <2>3. CASE Leave(c, "failed") /\ UNCHANGED file
    <3>1. pc'[c] = "failed"
      BY <1>1, <2>3 DEF Leave, TypeOK
    <3>2. ProgressOf(c)'
      BY <1>2, <3>1 DEF ProgressOf, Opening, Exporting, Opens
    <3> QED
      BY <1>2, <1>3, <2>1, <2>3, <3>2, Leaves
  <2> QED
    BY <1>6, <2>2, <2>3 DEF EditorRuns
<1> QED
  BY <1>5, <1>6

\* Both questions of an outline are answered from one working copy, unless Word ends.
LEMMA ReadStep ==
    ASSUME IInv, TypeOK', NEW c \in Calls, Read(c)
    PROVE  IInv'
<1>1. TypeOK /\ Queues /\ Progress /\ Behind /\ Outlines
  BY DEF IInv
<1>2. UNCHANGED <<file, pdfs, docs, forsaken>>
  BY DEF Read
<1>3. /\ file \in Nat /\ file' >= file /\ replays \in Nat
      /\ call[c].key = None \/ call[c].key <= file
      /\ call[c].asked = None \/ call[c].asked <= file
  BY <1>1, <1>2 DEF Behind, TypeOK, Versions
<1>4. /\ \A d \in Calls \ {c} : call'[d] = call[d]
      /\ call'[c].kind = call[c].kind /\ call'[c].of = call[c].of
      /\ call'[c].key = call[c].key /\ call'[c].asked = call[c].asked
      /\ call'[c].shared = call[c].shared
  BY <1>1 DEF Read, TypeOK
<1>5. \/ copy' \in {copy, None} /\ replays' = replays
      \/ copy' = file /\ replays' # 0
  <2>1. HostReads \/ UNCHANGED <<copy, replays>>
    BY DEF Read
  <2> QED
    BY <1>3, <2>1 DEF HostReads
<1>6. /\ \/ call[c].kind = "outline" /\ pc[c] = "queued" /\ AtHead(c)
         \/ call[c].kind = "outline" /\ pc[c] = "positions" /\ AtHead(c)
         \/ call[c].kind = "search" /\ pc[c] = "reading"
  BY <1>1 DEF Read, Queues, Progress, ProgressOf, Running, Chained
<1>7. call[c].kind \notin Opens /\ FreshCall(c)' /\ AnswerOf(c)'
  BY <1>4, <1>6 DEF FreshCall, AnswerOf, Opens
<1>8. CASE call[c].kind = "search"
  <2>1. /\ pc[c] = "reading" /\ states' = states /\ pc'[c] \in {"done", "failed"}
        /\ \A d \in Calls \ {c} : pc'[d] = pc[d]
    BY <1>1, <1>6, <1>8 DEF Read, Goto, TypeOK
  <2>2. ProgressOf(c)' /\ OutlineOf(c)'
    BY <1>4, <1>7, <1>8, <2>1 DEF ProgressOf, OutlineOf, Opening, Exporting
  <2>3. pc[c] \notin Chained /\ pc'[c] \notin Chained \cup Opening \cup {"idle", "behind", "exporting"}
    BY <2>1 DEF Chained, Opening
  <2> QED
    BY <1>2, <1>3, <1>4, <1>5, <1>7, <2>1, <2>2, <2>3, Stays
<1>9. CASE call[c].kind = "outline" /\ Leave(c, "failed")
  <2>1. pc'[c] = "failed"
    BY <1>1, <1>9 DEF Leave, TypeOK
  <2>2. ProgressOf(c)' /\ OutlineOf(c)'
    BY <1>4, <1>7, <2>1 DEF ProgressOf, OutlineOf, Opening, Exporting
  <2>3. AtHead(c)
    BY <1>6, <1>9
  <2> QED
    BY <1>2, <1>4, <1>5, <1>7, <1>9, <2>2, <2>3, Leaves
<1>10. CASE call[c].kind = "outline" /\ ~Leave(c, "failed")
  <2>1. HostReads /\ copy' \in Versions /\ call'[c].read = call[c].read \cup {copy'}
    BY <1>1, <1>10 DEF Read, HostReads, TypeOK
  <2>2. replays' = 0 => replays = 0 /\ copy' = copy
    BY <1>3, <2>1 DEF HostReads
  <2>3. CASE pc[c] = "queued"
    <3>1. /\ pc'[c] = "positions" /\ states' = states
          /\ \A d \in Calls \ {c} : pc'[d] = pc[d]
      BY <1>1, <1>10, <2>3 DEF Read, Goto, TypeOK
    <3>2. ProgressOf(c)'
      BY <1>4, <1>7, <1>10, <3>1 DEF ProgressOf, Opening, Exporting
    <3>3. replays' = 0 /\ ~forsaken' => OutlineOf(c)'
      <4> SUFFICES ASSUME replays' = 0, ~forsaken'
                   PROVE  OutlineOf(c)'
        OBVIOUS
      <4>1. call[c].read = {}
        BY <1>1, <1>2, <1>10, <2>2, <2>3 DEF Outlines, OutlineOf
      <4> QED
        BY <2>1, <3>1, <4>1 DEF OutlineOf
    <3>4. /\ pc[c] \in Chained /\ pc'[c] \in Running /\ AtHead(c)
          /\ pc'[c] \notin Opening \cup {"idle", "behind", "exporting"}
      BY <1>6, <1>10, <2>3, <3>1 DEF Chained, Running, Opening
    <3> QED
      BY <1>2, <1>3, <1>4, <1>5, <1>7, <2>3, <3>1, <3>2, <3>3, <3>4, Stays
  <2>4. CASE pc[c] = "positions"
    <3>1. Leave(c, "done") /\ pc'[c] = "done" /\ AtHead(c)
      BY <1>1, <1>6, <1>10, <2>4 DEF Read, Leave, TypeOK
    <3>2. ProgressOf(c)'
      BY <1>4, <1>7, <3>1 DEF ProgressOf, Opening, Exporting
    <3>3. replays' = 0 /\ ~forsaken' => OutlineOf(c)'
      <4> SUFFICES ASSUME replays' = 0, ~forsaken'
                   PROVE  OutlineOf(c)'
        OBVIOUS
      <4>1. PICK v \in Versions : call[c].read = {v} /\ copy \in {v, None}
        BY <1>1, <1>2, <1>10, <2>2, <2>4 DEF Outlines, OutlineOf
      <4>2. copy' = v
        BY <2>1, <2>2, <4>1 DEF HostReads
      <4> QED
        BY <2>1, <3>1, <4>1, <4>2 DEF OutlineOf
    <3> QED
      BY <1>2, <1>4, <1>5, <1>7, <3>1, <3>2, <3>3, Leaves
  <2> QED
    BY <1>6, <1>10, <2>3, <2>4
<1> QED
  BY <1>6, <1>8, <1>9, <1>10

\* A repeated close changes nothing.
LEMMA CloseAgainStep ==
    ASSUME IInv, TypeOK', NEW c \in Calls, CloseAgain(c)
    PROVE  IInv'
<1>1. TypeOK /\ Behind /\ Progress
  BY DEF IInv
<1>2. /\ pc[c] = "behind" /\ pc'[c] = "done" /\ call[c].kind = "close"
      /\ \A d \in Calls \ {c} : pc'[d] = pc[d]
      /\ UNCHANGED <<file, copy, replays, pdfs, docs, states, call, forsaken>>
  BY <1>1 DEF CloseAgain, Goto, hostVars, TypeOK
<1>3. FreshCall(c)' /\ AnswerOf(c)' /\ OutlineOf(c)' /\ ProgressOf(c)'
  BY <1>2 DEF FreshCall, AnswerOf, OutlineOf, ProgressOf, Opens, Opening, Exporting
<1>4. /\ file' >= file
      /\ call[c].key = None \/ call[c].key <= file
      /\ call[c].asked = None \/ call[c].asked <= file
  BY <1>1, <1>2 DEF Behind, TypeOK, Versions
<1>5. pc[c] \notin Chained /\ pc'[c] \notin Chained \cup Opening \cup {"idle", "behind", "exporting"}
  BY <1>2 DEF Chained, Opening
<1> QED
  BY <1>2, <1>3, <1>4, <1>5, Stays

\* A closer forgets its document with nothing in the queue but itself.
LEMMA ForgetStep ==
    ASSUME IInv, TypeOK', NEW c \in Calls, Forget(c)
    PROVE  IInv'
<1>1. TypeOK /\ Queues /\ Closing /\ CloserIsLast /\ OneChain /\ Behind
  BY DEF IInv
<1>2. /\ pc[c] = "queued" /\ pc'[c] = "releasing" /\ call[c].kind = "close" /\ AtHead(c)
      /\ \A d \in Calls \ {c} : pc'[d] = pc[d]
      /\ docs' = None /\ UNCHANGED <<file, copy, replays, pdfs, states, call, forsaken>>
  BY <1>1 DEF Forget, Goto, hostVars, TypeOK
<1>3. FreshCall(c)' /\ AnswerOf(c)' /\ OutlineOf(c)' /\ ProgressOf(c)'
  BY <1>2 DEF FreshCall, AnswerOf, OutlineOf, ProgressOf, Opens, Opening, Exporting
<1>4. /\ file' >= file
      /\ call[c].key = None \/ call[c].key <= file
      /\ call[c].asked = None \/ call[c].asked <= file
  BY <1>1, <1>2 DEF Behind, TypeOK, Versions
<1>5. Queues' /\ Closing' /\ CloserIsLast'
  <2>1. pc[c] \in Chained /\ pc'[c] \in Running
    BY <1>2 DEF Chained, Running
  <2> QED
    BY <1>1, <1>2, <2>1, QueuesStay
<1> DEFINE s == call[c].of
<1>6. s \in Calls /\ states[s].queue \in Seq(Calls) /\ states[s].queue # <<>>
  BY <1>1, <1>2, HeadTypes, CallTypes
<1>7. states[s].queue[1] = c /\ Len(states[s].queue) = 1
  <2>1. states[s].queue[1] = c /\ 1 \in 1..Len(states[s].queue)
    BY <1>2, <1>6 DEF AtHead
  <2> QED
    BY <1>1, <1>2, <1>6, <2>1 DEF CloserIsLast
<1>8. OneChain'
  <2> SUFFICES ASSUME ~forsaken, NEW t \in Calls, states[t].queue # <<>>
               PROVE  Len(states[t].queue) = 1 /\ pc'[states[t].queue[1]] = "releasing"
                          /\ call[states[t].queue[1]].kind = "close"
    BY <1>2 DEF OneChain
  <2>1. CASE t = s
    BY <1>2, <1>7, <2>1
  <2>2. CASE t # s
    <3>1. docs = s
      BY <1>1, <1>2, <1>6, <1>7 DEF OneChain
    <3>2. /\ Len(states[t].queue) = 1 /\ pc[states[t].queue[1]] = "releasing"
          /\ call[states[t].queue[1]].kind = "close" /\ states[t].queue[1] \in Calls
      BY <1>1, <2>2, <3>1, CallTypes DEF OneChain
    <3> QED
      BY <1>2, <3>2
  <2> QED
    BY <2>1, <2>2
<1>9. pc'[c] \notin {"idle", "behind", "exporting"} \cup Opening
  BY <1>2 DEF Opening
<1> QED
  BY <1>2, <1>3, <1>4, <1>5, <1>8, <1>9, Moves

\* A pdf() finds a file of a key that is fresh, waits for an export, or begins one.
LEMMA LookStep ==
    ASSUME IInv, TypeOK', NEW c \in Calls, Look(c)
    PROVE  IInv'
<1>1. TypeOK /\ Progress /\ Freshness /\ Behind /\ CopyIsNewer /\ NeverOlder /\ Unborn
  BY DEF IInv
<1>2. /\ pc[c] = "look" /\ UNCHANGED <<file, copy, replays, pdfs, docs, forsaken>>
      /\ call[c].kind = "pdf"
  BY <1>1 DEF Look, hostVars, Progress, ProgressOf
<1>3. /\ call[c].asked \in Nat /\ call[c].asked <= file /\ file \in Nat /\ file' >= file
      /\ call[c].key = None \/ call[c].key <= file
      /\ call[c].asked # None
  BY <1>1, <1>2, CallTypes DEF Progress, ProgressOf, Behind, Names, TypeOK, Opens, Versions
<1>4. /\ call[c].shown = None
      /\ docs # None => FreshFor(docs, c)
  BY <1>1, <1>2 DEF Freshness, FreshCall, Opens
<1>5. pc[c] \notin Chained /\ pc[c] # "releasing" /\ pc[c] \notin Opening
  BY <1>2 DEF Chained, Opening
<1>6. CASE ~IsOpen(docs)
  <2>1. /\ pc'[c] = "failed" /\ states' = states /\ call' = call
        /\ \A d \in Calls \ {c} : pc'[d] = pc[d]
    BY <1>1, <1>6 DEF Look, Goto, TypeOK
  <2>2. FreshCall(c)' /\ AnswerOf(c)' /\ OutlineOf(c)' /\ ProgressOf(c)'
    BY <1>1, <1>2, <2>1
       DEF FreshCall, AnswerOf, OutlineOf, Progress, ProgressOf, Opens, Opening, Exporting
  <2>3. pc'[c] \notin Chained \cup Opening \cup {"idle", "behind", "exporting"}
    BY <2>1 DEF Chained, Opening
  <2> QED
    BY <1>2, <1>3, <1>5, <2>1, <2>2, <2>3, Stays
<1>7. CASE IsOpen(docs)
  <2>1. docs \in Calls /\ docs # None
    BY <1>1, <1>7 DEF IsOpen, TypeOK
  <2> PICK k \in Names : k = states[docs].key
    BY <1>1, <2>1, CallTypes
  <2>2. /\ k = None \/ (k \in Nat /\ k >= call[c].asked /\ k <= file)
        /\ copy # None => k = None \/ k <= copy
    BY <1>1, <1>4, <2>1, CallTypes DEF FreshFor, Behind, CopyIsNewer, Names
  <2>3. FreshFor(docs, c)
    BY <1>4, <2>1
  <2>4. CASE /\ call' = [call EXCEPT ![c].result = k, ![c].key = k, ![c].shown = pdfs[k]]
             /\ Goto(c, "done") /\ UNCHANGED states
    <3>1. /\ pc'[c] = "done" /\ states' = states
          /\ call'[c].kind = call[c].kind /\ call'[c].of = call[c].of
          /\ call'[c].key = k /\ call'[c].asked = call[c].asked /\ call'[c].result = k
          /\ call'[c].shown = pdfs[k]
          /\ \A d \in Calls \ {c} : pc'[d] = pc[d] /\ call'[d] = call[d]
      BY <1>1, <2>4 DEF Goto, TypeOK
    <3>2. k # None => pdfs[k] = None \/ (pdfs[k] \in Nat /\ pdfs[k] >= k)
      BY <1>1 DEF NeverOlder, Names, TypeOK, Versions
    <3>3. AnswerOf(c)'
      BY <1>3, <2>2, <3>1, <3>2 DEF AnswerOf
    <3>4. FreshCall(c)' /\ OutlineOf(c)' /\ ProgressOf(c)'
      BY <1>1, <1>2, <3>1
         DEF FreshCall, OutlineOf, Progress, ProgressOf, Opens, Opening, Exporting
    <3>5. pc'[c] \notin Chained \cup Opening \cup {"idle", "behind", "exporting"}
      BY <3>1 DEF Chained, Opening
    <3> QED
      BY <1>2, <1>3, <1>5, <2>2, <3>1, <3>3, <3>4, <3>5, Stays
  <2>5. CASE /\ call' = [call EXCEPT ![c].of = docs, ![c].shared = TRUE]
             /\ Goto(c, "sharing") /\ UNCHANGED states
    <3>1. /\ pc'[c] = "sharing" /\ states' = states
          /\ call'[c].kind = call[c].kind /\ call'[c].of = docs
          /\ call'[c].key = call[c].key /\ call'[c].asked = call[c].asked
          /\ call'[c].shown = call[c].shown /\ call'[c].shared
          /\ \A d \in Calls \ {c} : pc'[d] = pc[d] /\ call'[d] = call[d]
      BY <1>1, <2>5 DEF Goto, TypeOK
    <3>2. FreshFor(docs, c)'
      BY <1>2, <1>5, <2>1, <2>3, <3>1 DEF FreshFor, Opening
    <3>3. FreshCall(c)' /\ AnswerOf(c)' /\ OutlineOf(c)' /\ ProgressOf(c)'
      BY <1>2, <1>3, <1>4, <2>1, <3>1, <3>2
         DEF FreshCall, AnswerOf, OutlineOf, ProgressOf, Opens, Opening, Exporting
    <3>4. pc'[c] \notin Chained \cup Opening \cup {"idle", "behind", "exporting"}
      BY <3>1 DEF Chained, Opening
    <3> QED
      BY <1>2, <1>3, <1>5, <3>1, <3>3, <3>4, Stays
  <2>6. CASE /\ call' = [call EXCEPT ![c].of = docs, ![c].key = k]
             /\ Goto(c, "exporting") /\ states' = [states EXCEPT ![docs].pending = c]
    <3>1. /\ pc'[c] = "exporting"
          /\ call'[c].kind = call[c].kind /\ call'[c].of = docs
          /\ call'[c].key = k /\ call'[c].asked = call[c].asked
          /\ call'[c].shown = call[c].shown
          /\ \A d \in Calls \ {c} : pc'[d] = pc[d] /\ call'[d] = call[d]
      BY <1>1, <2>6 DEF Goto, TypeOK
    <3>2. \A s \in Calls : /\ states'[s].key = states[s].key
                           /\ states'[s].queue = states[s].queue
                           /\ states'[s].closing = states[s].closing
                           /\ pc[s] \in {"idle", "behind"} => states'[s] = states[s]
      BY <1>1, <2>1, <2>6 DEF TypeOK, Unborn
    <3>3. FreshFor(docs, c)'
      BY <1>2, <1>5, <2>1, <2>3, <3>1, <3>2 DEF FreshFor, Opening
    <3>4. FreshCall(c)' /\ AnswerOf(c)' /\ OutlineOf(c)' /\ ProgressOf(c)'
      BY <1>2, <1>3, <1>4, <2>1, <2>2, <3>1, <3>3
         DEF FreshCall, AnswerOf, OutlineOf, ProgressOf, Opens, Opening, Exporting
    <3>5. pc'[c] \notin Chained \cup Opening \cup {"idle", "behind"}
      BY <3>1 DEF Chained, Opening
    <3> QED
      BY <1>2, <1>3, <1>5, <2>2, <3>1, <3>2, <3>4, <3>5, Stays
  <2> QED
    BY <1>7, <2>4, <2>5, <2>6 DEF Look
<1> QED
  BY <1>6, <1>7

\* What is not asked of a queue: refused, answered at once, or under way beside it.
LEMMA AsksAside ==
    ASSUME IInv, TypeOK', NEW c \in Calls, pc[c] = "idle", NEW kind \in Kinds \ Opens,
           call' = [call EXCEPT ![c] = Asked(kind, docs)],
           UNCHANGED <<file, copy, replays, pdfs, docs, states, forsaken>>,
           NEW step \in {"editing", "reading", "behind", "done", "failed"}, Goto(c, step),
           step = "editing" => kind = "edit" /\ docs = None,
           step = "reading" => kind = "search",
           step = "behind" => kind = "close" /\ docs # None,
           kind = "outline" => step = "failed"
    PROVE  IInv'
<1>1. TypeOK /\ Typed
  BY TypedIsTypeOK DEF IInv
<1>2. /\ pc'[c] = step
      /\ \A d \in Calls \ {c} : pc'[d] = pc[d] /\ call'[d] = call[d]
  BY <1>1 DEF Goto, TypeOK
<1>3. /\ call'[c].kind = kind /\ call'[c].of = docs /\ call'[c].key = None
      /\ call'[c].asked = None
  <2>1. docs \in Calls \cup {None} /\ call'[c] = Asked(kind, docs)
    BY <1>1 DEF Typed
  <2>2. /\ Asked(kind, docs).kind = kind /\ Asked(kind, docs).of = docs
        /\ Asked(kind, docs).key = None /\ Asked(kind, docs).read = {}
        /\ Asked(kind, docs).asked = None
    <3>1. kind \in Kinds /\ kind \notin Opens
      OBVIOUS
    <3> PICK s \in Calls \cup {None} : s = docs
      BY <2>1
    <3> QED
      BY <3>1 DEF Asked, NewCall
  <2> QED
    BY <2>1, <2>2
<1>4. FreshCall(c)' /\ AnswerOf(c)' /\ OutlineOf(c)'
  BY <1>2, <1>3 DEF FreshCall, AnswerOf, OutlineOf
<1>5. ProgressOf(c)'
  BY <1>2, <1>3 DEF ProgressOf, Opens, Opening, Exporting
<1>6. /\ file' >= file /\ pc[c] \notin Chained
      /\ pc'[c] \notin Chained \cup Opening \cup {"exporting"}
  BY <1>1, <1>2 DEF Chained, Opening, TypeOK, Versions
<1> QED
  BY <1>2, <1>3, <1>4, <1>5, <1>6, Stays

\* What joins the queue of the document: an edit, an outline, or the closer, after
\* which nothing does.
LEMMA AsksQueue ==
    ASSUME IInv, TypeOK', NEW c \in Calls, pc[c] = "idle", NEW kind \in Kinds \ Opens,
           docs # None, ~states[docs].closing,
           call' = [call EXCEPT ![c] = Asked(kind, docs)],
           UNCHANGED <<file, copy, replays, pdfs, docs, forsaken>>, Goto(c, "queued"),
           \/ kind # "close" /\ states' = [states EXCEPT ![docs].queue = Append(@, c)]
           \/ states' = [states EXCEPT ![docs].closing = TRUE, ![docs].queue = Append(@, c)]
    PROVE  IInv'
<1>1. TypeOK /\ Typed
  BY TypedIsTypeOK DEF IInv
<1>2. docs \in Calls
  BY <1>1 DEF TypeOK
<1>3. /\ pc'[c] = "queued"
      /\ \A d \in Calls \ {c} : pc'[d] = pc[d] /\ call'[d] = call[d]
  BY <1>1 DEF Goto, TypeOK
<1>4. /\ call'[c].kind = kind /\ call'[c].of = docs /\ call'[c].key = None
      /\ call'[c].asked = None /\ call'[c].read = {}
  <2>1. docs \in Calls \cup {None} /\ call'[c] = Asked(kind, docs)
    BY <1>1 DEF Typed
  <2>2. /\ Asked(kind, docs).kind = kind /\ Asked(kind, docs).of = docs
        /\ Asked(kind, docs).key = None /\ Asked(kind, docs).read = {}
        /\ Asked(kind, docs).asked = None
    <3>1. kind \in Kinds /\ kind \notin Opens
      OBVIOUS
    <3> PICK s \in Calls \cup {None} : s = docs
      BY <2>1
    <3> QED
      BY <3>1 DEF Asked, NewCall
  <2> QED
    BY <2>1, <2>2
<1>5. /\ states'[docs].queue = Append(states[docs].queue, c)
      /\ states'[docs].key = states[docs].key
      /\ kind = "close" => states'[docs].closing
      /\ \A s \in Calls \ {docs} : states'[s] = states[s]
  BY <1>1, <1>2 DEF TypeOK
<1> QED
  BY <1>2, <1>3, <1>4, <1>5, Joins

\* Asking for anything but a document.
LEMMA AskStep ==
    ASSUME IInv, TypeOK', NEW c \in Calls, Edit(c) \/ Outline(c) \/ Search(c) \/ Close(c)
    PROVE  IInv'
<1>1. pc[c] = "idle" /\ UNCHANGED <<file, copy, replays, pdfs, docs, forsaken>>
  BY DEF Edit, Outline, Search, Close, hostVars
<1>2. CASE Edit(c)
  <2>1. "edit" \in Kinds \ Opens /\ call' = [call EXCEPT ![c] = Asked("edit", docs)]
    BY <1>2 DEF Edit, Opens
  <2>2. CASE docs # None /\ ~states[docs].closing
    <3>1. Goto(c, "queued") /\ states' = [states EXCEPT ![docs].queue = Append(@, c)]
      BY <1>2, <2>2 DEF Edit, Enqueue, Goto
    <3> QED
      BY <1>1, <2>1, <2>2, <3>1, AsksQueue
  <2>3. CASE ~(docs # None /\ ~states[docs].closing)
    <3>1. PICK step \in {"editing", "failed"} :
              /\ Goto(c, step) /\ (step = "editing" => docs = None) /\ states' = states
      BY <1>2, <2>3 DEF Edit, Enqueue, Goto
    <3> QED
      BY <1>1, <2>1, <3>1, AsksAside
  <2> QED
    BY <2>2, <2>3
<1>3. CASE Outline(c)
  <2>1. "outline" \in Kinds \ Opens /\ call' = [call EXCEPT ![c] = Asked("outline", docs)]
    BY <1>3 DEF Outline, Opens
  <2>2. CASE IsOpen(docs)
    <3>1. /\ docs # None /\ ~states[docs].closing
          /\ Goto(c, "queued") /\ states' = [states EXCEPT ![docs].queue = Append(@, c)]
      BY <1>3, <2>2 DEF Outline, Enqueue, Goto, IsOpen
    <3> QED
      BY <1>1, <2>1, <3>1, AsksQueue
  <2>3. CASE ~IsOpen(docs)
    <3>1. Goto(c, "failed") /\ states' = states
      BY <1>3, <2>3 DEF Outline
    <3> QED
      BY <1>1, <2>1, <3>1, AsksAside
  <2> QED
    BY <2>2, <2>3
<1>4. CASE Search(c)
  <2>1. "search" \in Kinds \ Opens /\ call' = [call EXCEPT ![c] = Asked("search", docs)]
    BY <1>4 DEF Search, Opens
  <2>2. PICK step \in {"reading", "failed"} : Goto(c, step) /\ states' = states
    BY <1>4 DEF Search
  <2> QED
    BY <1>1, <2>1, <2>2, AsksAside
<1>5. CASE Close(c)
  <2>1. "close" \in Kinds \ Opens /\ call' = [call EXCEPT ![c] = Asked("close", docs)]
    BY <1>5 DEF Close, Opens
  <2>2. CASE docs # None /\ ~states[docs].closing
    <3>1. /\ Goto(c, "queued")
          /\ states' = [states EXCEPT ![docs].closing = TRUE, ![docs].queue = Append(@, c)]
      BY <1>5, <2>2 DEF Close
    <3> QED
      BY <1>1, <2>1, <2>2, <3>1, AsksQueue
  <2>3. CASE ~(docs # None /\ ~states[docs].closing)
    <3>1. PICK step \in {"behind", "done"} :
              /\ Goto(c, step) /\ (step = "behind" => docs # None) /\ states' = states
      BY <1>5, <2>3 DEF Close
    <3> QED
      BY <1>1, <2>1, <3>1, AsksAside
  <2> QED
    BY <2>2, <2>3
<1> QED
  BY <1>2, <1>3, <1>4, <1>5

\* An open registers the document, joins its queue, or waits for the closer.
LEMMA EnterStep ==
    ASSUME IInv, TypeOK', NEW c \in Calls, NEW a \in CallRecords, Enter(c, a),
           pc[c] \in {"idle", "behind"},
           a.kind \in Opens, a.shown = None, a.asked # None, a.asked <= file,
           a.key = None \/ a.key <= file,
           UNCHANGED <<file, copy, replays, pdfs, forsaken>>
    PROVE  IInv'
<1>1. /\ TypeOK /\ Typed /\ Queues /\ Closing /\ CloserIsLast /\ OneChain /\ Unborn
  BY TypedIsTypeOK DEF IInv
<1> PICK s \in Calls : s = (IF docs = None THEN c ELSE docs)
  BY <1>1 DEF TypeOK
<1>2. /\ docs' = s /\ call' = [call EXCEPT ![c] = [a EXCEPT !.of = s]]
      /\ docs = None => s = c
      /\ docs # None => s = docs
  BY DEF Enter
<1>3. /\ call'[c].kind = a.kind /\ call'[c].of = s /\ call'[c].key = a.key
      /\ call'[c].asked = a.asked /\ call'[c].shown = None
      /\ \A d \in Calls \ {c} : call'[d] = call[d]
  BY <1>1, <1>2 DEF CallRecords, TypeOK
<1>4. /\ states[c] = Fresh /\ docs # c /\ \A d \in Calls : call[d].of # c
      /\ pc[c] \notin Chained /\ s # None
  BY <1>1, <1>2, CallTypes DEF Unborn, Chained
<1>5. file' >= file
  BY <1>1 DEF TypeOK, Versions
<1>6. CASE docs # None /\ states[docs].closing
  <2>1. /\ pc'[c] = "behind" /\ states' = states
        /\ \A d \in Calls \ {c} : pc'[d] = pc[d]
    BY <1>1, <1>6 DEF Enter, Goto, TypeOK
  <2>2. FreshCall(c)' /\ AnswerOf(c)' /\ OutlineOf(c)' /\ ProgressOf(c)'
    BY <1>3, <1>4, <2>1
       DEF FreshCall, AnswerOf, OutlineOf, ProgressOf, Opens, Opening, Exporting
  <2>3. pc'[c] \notin Chained \cup Opening \cup {"exporting"}
    BY <2>1 DEF Chained, Opening
  <2>4. docs' = docs /\ call'[c].of \in {call[c].of, docs, None} /\ pc[c] # "releasing"
    BY <1>2, <1>3, <1>6
  <2> QED
    BY <1>3, <1>4, <1>5, <2>1, <2>2, <2>3, <2>4, Stays
<1>7. CASE ~(docs # None /\ states[docs].closing)
  <2>1. /\ pc'[c] = "queued" /\ states' = [states EXCEPT ![s].queue = Append(states[s].queue, c)]
        /\ \A d \in Calls \ {c} : pc'[d] = pc[d]
    BY <1>1, <1>2, <1>7 DEF Enter, Goto, TypeOK
  <2>2. /\ states'[s].queue = Append(states[s].queue, c) /\ states'[s].key = states[s].key
        /\ states'[s].closing = states[s].closing
        /\ \A t \in Calls \ {s} : states'[t] = states[t]
    BY <1>1, <2>1 DEF TypeOK
  <2>3. CASE docs # None
    BY <1>2, <1>3, <1>7, <2>1, <2>2, <2>3, Joins DEF Opens
  <2>4. CASE docs = None
    <3>1. s = c /\ states[c].key = None /\ ~states[c].closing
      BY <1>2, <1>4, <2>4 DEF Fresh
    <3>2. Registered(c)
      BY <1>2, <1>4, <2>1, <2>2, <3>1 DEF Registered
    <3>3. Queues' /\ Closing' /\ CloserIsLast'
      BY <1>1, <1>3, <1>4, <2>1, <2>2, <3>1, QueueGrows DEF Opens
    <3>4. OneChain'
      BY <1>1, <1>2, <1>3, <1>4, <2>1, <2>2, <2>4, ChainGrows
    <3>5. AnswerOf(c)' /\ OutlineOf(c)' /\ ProgressOf(c)' /\ FreshCall(c)'
      BY <1>2, <1>3, <2>1
         DEF FreshCall, AnswerOf, OutlineOf, ProgressOf, Opens, Opening, Exporting
    <3>6. pc'[c] \notin {"idle", "behind", "exporting"} \cup Opening
      BY <2>1 DEF Opening
    <3>7. \A t \in Calls : pc'[t] \in {"idle", "behind"} => states'[t] = states[t]
      BY <2>1, <2>2, <3>1
    <3>8. /\ \A t \in Calls : states'[t].key \in {states[t].key, None}
          /\ call'[c].of \in {call[c].of, docs, docs', None}
      BY <1>2, <1>3, <2>2
    <3> QED
      BY <1>3, <1>5, <2>1, <3>2, <3>3, <3>4, <3>5, <3>6, <3>7, <3>8, Moves
  <2> QED
    BY <2>3, <2>4
<1> QED
  BY <1>6, <1>7

\* A new open is as fresh as the file.
LEMMA OpenStep ==
    ASSUME IInv, TypeOK', NEW c \in Calls, Open(c)
    PROVE  IInv'
<1>1. Typed /\ file \in Nat /\ file # None
  BY CacheAssumption, TypedIsTypeOK DEF IInv, TypeOK, Versions
<1> PICK kind \in Kinds \cap Opens : Enter(c, Asked(kind, None))
  BY DEF Open
<1>2. Asked(kind, None) \in CallRecords
  BY <1>1, AskedTypes
<1>3. /\ Asked(kind, None).kind = kind /\ Asked(kind, None).shown = None
      /\ Asked(kind, None).key = None /\ Asked(kind, None).asked = file
  BY DEF Asked, NewCall
<1>4. pc[c] = "idle" /\ UNCHANGED <<file, copy, replays, pdfs, forsaken>>
  BY DEF Open, hostVars
<1> QED
  BY <1>1, <1>2, <1>3, <1>4, EnterStep

\* An open that has waited for the closer knows no more than when it was asked.
LEMMA OpenAgainStep ==
    ASSUME IInv, TypeOK', NEW c \in Calls, OpenAgain(c)
    PROVE  IInv'
<1>1. Typed /\ Progress /\ Freshness /\ Behind
  BY TypedIsTypeOK DEF IInv
<1>2. /\ pc[c] = "behind" /\ call[c].kind # "close" /\ Enter(c, call[c])
      /\ UNCHANGED <<file, copy, replays, pdfs, forsaken>>
  BY DEF OpenAgain, hostVars
<1>3. call[c] \in CallRecords /\ call[c].kind \in Opens /\ call[c].asked # None
  BY <1>1, <1>2 DEF Typed, Progress, ProgressOf
<1>4. call[c].shown = None
  BY <1>1, <1>2, <1>3 DEF Freshness, FreshCall
<1> QED
  BY <1>1, <1>2, <1>3, <1>4, EnterStep DEF Behind

\* Only the operation of the state there is runs, or a closer releases what it forgot.
LEMMA RunnersAreOnDocs ==
    ASSUME IInv, ~forsaken, NEW c \in Calls, pc[c] \in Running, pc[c] # "releasing"
    PROVE  AtHead(c) /\ call[c].of = docs
<1>1. TypeOK /\ AtHead(c) /\ OneChain
  BY DEF IInv, Queues
<1> PICK s \in Calls : s = call[c].of
  BY <1>1, HeadTypes
<1> PICK q \in Seq(Calls) : q = states[s].queue
  BY <1>1, CallTypes
<1>2. q # <<>> /\ q[1] = c
  BY <1>1 DEF AtHead
<1> QED
  BY <1>1, <1>2 DEF OneChain

\* An open that fails lets go of its document, or of what is queued for it as well.
LEMMA OpenFailsStep ==
    ASSUME IInv, TypeOK', NEW c \in Calls, pc[c] = "opening", Leave(c, "failed"),
           docs' = IF states[call[c].of].meta THEN docs ELSE None,
           forsaken' = (forsaken \/ (~states[call[c].of].meta
                                     /\ Len(states[call[c].of].queue) > 1)),
           UNCHANGED <<file, copy, replays, pdfs, call>>
    PROVE  IInv'
<1>1. TypeOK /\ Queues /\ Closing /\ CloserIsLast /\ OneChain /\ Unborn /\ Behind /\ Progress
  BY DEF IInv
<1>2. AtHead(c) /\ pc[c] \in Running /\ call[c].kind \in Opens
  BY <1>1 DEF Queues, Running, Chained, Progress, ProgressOf, Opening
<1> PICK s \in Calls : s = call[c].of
  BY <1>1, <1>2, HeadTypes
<1>3. states[s].queue \in Seq(Calls) /\ Len(states[s].queue) \in Nat /\ states[s].queue # <<>>
  BY <1>1, <1>2, CallTypes, HeadTypes
<1>4. /\ pc'[c] = "failed" /\ \A d \in Calls \ {c} : pc'[d] = pc[d]
      /\ states'[s].queue = Tail(states[s].queue)
      /\ \A t \in Calls \ {s} : states'[t] = states[t]
      /\ \A t \in Calls : states'[t].key = states[t].key /\ states'[t].closing = states[t].closing
  BY <1>1 DEF Leave, TypeOK
<1>5. Queues' /\ Closing' /\ CloserIsLast'
  <2>1. pc'[c] \notin Chained
    BY <1>4 DEF Chained
  <2> QED
    BY <1>1, <1>2, <1>4, <2>1, QueueShrinks
<1>6. OneChain'
  <2>1. CASE forsaken'
    BY <2>1 DEF OneChain
  <2>2. CASE ~forsaken'
    <3>1. ~forsaken /\ docs = s
      BY <1>2, <2>2, RunnersAreOnDocs
    <3>2. docs' = docs \/ (docs' = None /\ Len(states[s].queue) = 1)
      <4>1. CASE states[s].meta
        BY <4>1
      <4>2. CASE ~states[s].meta
        <5>1. ~(Len(states[s].queue) > 1) /\ docs' = None
          BY <2>2, <4>2
        <5> PICK q \in Seq(Calls) : q = states[s].queue
          BY <1>3
        <5>2. Len(q) \in Nat /\ Len(q) # 0
          BY <1>3
        <5>3. Len(q) = 1
          <6>1. ~(Len(q) > 1)
            BY <5>1
          <6>2. \A n \in Nat : ~(n > 1) /\ n # 0 => n = 1
            OBVIOUS
          <6> QED
            BY <5>2, <6>1, <6>2, Zenon
        <5>4. Len(states[s].queue) = 1
          BY <5>3
        <5> QED
          BY <5>1, <5>4, Zenon
      <4> QED
        BY <4>1, <4>2
    <3> QED
      BY <1>1, <1>2, <1>4, <3>1, <3>2, ChainShrinks
  <2> QED
    BY <2>1, <2>2
<1>7. \A t \in Calls : pc[t] \in {"idle", "behind"} => states'[t] = states[t]
  BY <1>1, <1>4 DEF Unborn
<1>8. FreshCall(c)' /\ AnswerOf(c)' /\ OutlineOf(c)' /\ ProgressOf(c)'
  BY <1>1, <1>2, <1>4
     DEF FreshCall, AnswerOf, OutlineOf, Progress, ProgressOf, Opens, Opening, Exporting
<1>9. /\ call[c].key = None \/ call[c].key <= file
      /\ call[c].asked = None \/ call[c].asked <= file
      /\ file' >= file /\ (forsaken => forsaken')
  BY <1>1 DEF Behind, TypeOK, Versions
<1>10. pc'[c] \notin {"idle", "behind", "exporting"} \cup Opening
  BY <1>4 DEF Opening
<1> QED
  BY <1>4, <1>5, <1>6, <1>7, <1>8, <1>9, <1>10, Moves

\* What an open has copied is not older than the key it gives to the state, which is
\* not older than any call that comes to look at it.
LEMMA OpensStep ==
    ASSUME IInv, TypeOK', NEW c \in Calls, pc[c] = "opening", copy' = file,
           pc' = [pc EXCEPT ![c] = Answered(c)],
           states' = [states EXCEPT ![call[c].of].key = call[c].key,
                                    ![call[c].of].meta = TRUE,
                                    ![call[c].of].queue = Tail(@)],
           call' = [call EXCEPT ![c].result = call[c].key, ![c].key = None],
           UNCHANGED <<file, replays, pdfs, docs, forsaken>>
    PROVE  IInv'
<1>1. /\ TypeOK /\ Queues /\ Closing /\ CloserIsLast /\ OneChain /\ Unborn /\ Behind
      /\ Progress /\ Freshness /\ NeverOlder /\ Outlines /\ \A d \in Calls : AnswerOf(d)
  BY DEF IInv
<1>2. /\ AtHead(c) /\ pc[c] \in Running /\ pc[c] \in Opening /\ call[c].kind \in Opens
      /\ call[c].key # None /\ call[c].asked # None
  BY <1>1 DEF Queues, Running, Chained, Progress, ProgressOf, Opening
<1> PICK s \in Calls : s = call[c].of
  BY <1>1, <1>2, HeadTypes
<1> PICK k \in Versions : k = call[c].key
  BY <1>1, <1>2, CallTypes DEF Names
<1>3. k \in Nat /\ k <= file /\ k # None /\ file \in Nat
  BY <1>1, <1>2 DEF Behind, TypeOK, Versions
<1>4. /\ pc'[c] = Answered(c) /\ pc'[c] \in {"look", "done"}
      /\ pc'[c] = "look" => call[c].kind = "pdf"
      /\ \A d \in Calls \ {c} : pc'[d] = pc[d]
  BY <1>1 DEF TypeOK, Answered
<1>5. /\ states'[s].queue = Tail(states[s].queue) /\ states'[s].key = k
      /\ \A t \in Calls \ {s} : states'[t] = states[t]
      /\ \A t \in Calls : states'[t].closing = states[t].closing
  BY <1>1 DEF TypeOK
<1>6. /\ call'[c].kind = call[c].kind /\ call'[c].of = s /\ call'[c].key = None
      /\ call'[c].asked = call[c].asked /\ call'[c].result = k
      /\ call'[c].shown = call[c].shown
      /\ \A d \in Calls \ {c} : call'[d] = call[d]
  BY <1>1 DEF TypeOK
<1>7. Queues' /\ Closing' /\ CloserIsLast'
  <2>1. pc'[c] \notin Chained
    BY <1>4 DEF Chained
  <2> QED
    BY <1>1, <1>2, <1>4, <1>5, <1>6, <2>1, QueueShrinks
<1>8. OneChain'
  BY <1>1, <1>2, <1>4, <1>5, <1>6, ChainShrinks
<1>9. Progress'
  <2>1. ProgressOf(c)'
    BY <1>2, <1>4, <1>6 DEF ProgressOf, Opening, Exporting, Opens
  <2>2. ASSUME NEW d \in Calls \ {c}
        PROVE  ProgressOf(d)'
    <3>1. ProgressOf(d) /\ pc'[d] = pc[d] /\ call'[d] = call[d]
      BY <1>1, <1>4, <1>6 DEF Progress
    <3> QED
      BY <3>1 DEF ProgressOf
  <2> QED
    BY <2>1, <2>2 DEF Progress
<1>10. Unborn'
  <2> SUFFICES ASSUME NEW t \in Calls, pc'[t] \in {"idle", "behind"}
               PROVE  docs # t /\ states'[t] = Fresh /\ \A d \in Calls : call'[d].of # t
    BY DEF Unborn
  <2>1. pc[t] \in {"idle", "behind"} /\ t # c
    BY <1>4
  <2>2. docs # t /\ states[t] = Fresh /\ \A d \in Calls : call[d].of # t
    BY <1>1, <2>1 DEF Unborn
  <2>3. states'[t] = states[t]
    BY <1>5, <2>2
  <2>4. \A d \in Calls : call'[d].of # t
    BY <1>6, <2>2
  <2> QED
    BY <2>2, <2>3, <2>4
<1>11. \A d \in Calls : states[d].key \in Nat \cup {None} /\ call[d].key \in Nat \cup {None}
  BY <1>1 DEF TypeOK, Versions
<1>12. Behind'
  <2>1. copy' = None \/ copy' <= file
    BY <1>3
  <2>2. \A t \in Calls : states'[t].key = None \/ states'[t].key <= file
    BY <1>1, <1>3, <1>5 DEF Behind
  <2>3. \A d \in Calls : /\ call'[d].key = None \/ call'[d].key <= file
                         /\ call'[d].asked = None \/ call'[d].asked <= file
    BY <1>1, <1>6 DEF Behind
  <2> QED
    BY <2>1, <2>2, <2>3 DEF Behind
<1>13. CopyIsNewer' /\ NeverOlder'
  BY <1>1, <1>12 DEF Behind, CopyIsNewer, NeverOlder
<1>14. ASSUME NEW d \in Calls, NEW t \in Calls, FreshFor(t, d)
       PROVE  FreshFor(t, d)'
  <2>1. call'[d].asked = call[d].asked
    BY <1>6
  <2>2. states'[t].key = None \/ states'[t].key >= call[d].asked
    <3>1. CASE t = s
      BY <1>2, <1>5, <1>14, <3>1 DEF FreshFor
    <3>2. CASE t # s
      BY <1>5, <1>14, <3>2 DEF FreshFor
    <3> QED
      BY <3>1, <3>2
  <2>3. \A e \in Calls : pc'[e] \in Opening /\ call'[e].of = t => call'[e].key >= call[d].asked
    BY <1>4, <1>6, <1>14 DEF FreshFor, Opening
  <2> QED
    BY <2>1, <2>2, <2>3 DEF FreshFor
<1>15. k >= call[c].asked /\ call[c].shown = None
       /\ (docs # None => FreshFor(docs, c) \/ docs = s)
  BY <1>1, <1>2, <1>4 DEF Freshness, FreshCall, Opening
<1>16. docs # None => FreshFor(docs, c)'
  <2>1. CASE docs # None /\ FreshFor(docs, c)
    <3>1. docs \in Calls
      BY <1>1, <2>1 DEF TypeOK
    <3> QED
      BY <1>14, <2>1, <3>1
  <2>2. CASE docs = s
    <3>1. \A e \in Calls : pc'[e] \in Opening /\ call'[e].of = s => FALSE
      BY <1>2, <1>4, <1>6, HeadIsAlone DEF Opening, Running, Chained
    <3> QED
      BY <1>5, <1>6, <1>15, <2>2, <3>1 DEF FreshFor
  <2> QED
    BY <1>15, <2>1, <2>2
<1>17. Freshness'
  <2>1. FreshCall(c)'
    BY <1>2, <1>3, <1>4, <1>6, <1>15, <1>16 DEF FreshCall, Opening, Exporting
  <2>2. ASSUME NEW d \in Calls \ {c}
        PROVE  FreshCall(d)'
    <3>1. /\ docs # None => docs \in Calls
          /\ pc[d] \in Exporting => call[d].of \in Calls
      BY <1>1, CallTypes DEF TypeOK, Progress, ProgressOf
    <3> QED
      BY <1>1, <1>4, <1>6, <1>14, <3>1 DEF Freshness, FreshCall
  <2> QED
    BY <2>1, <2>2 DEF Freshness
<1>18. \A d \in Calls : AnswerOf(d)'
  BY <1>1, <1>3, <1>4, <1>6, <1>15 DEF AnswerOf
<1>19. Outlines'
  <2> SUFFICES ASSUME replays = 0, ~forsaken, NEW d \in Calls
               PROVE  OutlineOf(d)'
    BY DEF Outlines
  <2>1. CASE d = c
    BY <1>2, <1>6, <2>1 DEF OutlineOf, Opens
  <2>2. CASE d # c
    <3>1. pc[d] # "positions"
      <4> SUFFICES ASSUME pc[d] = "positions"
                   PROVE  FALSE
        OBVIOUS
      <4>1. AtHead(d) /\ call[d].of = docs
        BY RunnersAreOnDocs DEF Running, Chained
      <4>2. AtHead(c) /\ call[c].of = docs
        BY <1>2, RunnersAreOnDocs
      <4> QED
        BY <2>2, <4>1, <4>2 DEF AtHead
    <3> QED
      BY <1>1, <1>4, <1>6, <2>2, <3>1 DEF Outlines, OutlineOf
  <2> QED
    BY <2>1, <2>2
<1> QED
  BY <1>7, <1>8, <1>9, <1>10, <1>12, <1>13, <1>17, <1>18, <1>19 DEF IInv

\* How an open ends at the host.
LEMMA HostOpensStep ==
    ASSUME IInv, TypeOK', NEW c \in Calls, HostOpens(c)
    PROVE  IInv'
BY OpensStep, OpenFailsStep DEF HostOpens

\* The end of an export is the end of every call that shares it.
LEMMA SharersEnd ==
    ASSUME IInv, TypeOK', NEW c \in Calls, pc[c] \in {"exporting", "pruning"},
           NEW how \in {"done", "failed"},
           pc' = [d \in Calls |-> IF d \in Sharing(c) THEN how ELSE pc[d]],
           states' = [states EXCEPT ![call[c].of].pending = None],
           UNCHANGED <<file, copy, replays, docs, forsaken>>, NeverOlder',
           \A d \in Calls : /\ call'[d].kind = call[d].kind /\ call'[d].of = call[d].of
                            /\ call'[d].key = call[d].key /\ call'[d].asked = call[d].asked
                            /\ call'[d].shared = call[d].shared,
           \A d \in Calls \ Sharing(c) : call'[d] = call[d],
           AnswerOf(c)'
    PROVE  IInv'
<1>1. /\ TypeOK /\ Queues /\ Closing /\ CloserIsLast /\ OneChain /\ Unborn /\ Behind
      /\ CopyIsNewer /\ Progress /\ Freshness /\ Outlines /\ \A d \in Calls : AnswerOf(d)
  BY DEF IInv
<1>2. \A d \in Sharing(c) : /\ d \in Calls /\ pc[d] \in Exporting /\ pc[d] \notin Chained
                            /\ pc'[d] = how /\ call[d].kind = "pdf"
  BY <1>1 DEF Sharing, Exporting, Chained, Progress, ProgressOf
<1>3. \A d \in Calls \ Sharing(c) : pc'[d] = pc[d]
  OBVIOUS
<1>4. call[c].of \in Calls /\ call[c].of # None
  BY <1>1, CallTypes DEF Progress, ProgressOf, Exporting
<1>5. \A s \in Calls : /\ states'[s].key = states[s].key /\ states'[s].queue = states[s].queue
                       /\ states'[s].closing = states[s].closing
                       /\ s # call[c].of => states'[s] = states[s]
  BY <1>1, <1>4 DEF TypeOK
<1>6. \A d \in Calls : /\ \/ pc'[d] = pc[d]
                          \/ pc[d] \notin Chained /\ pc'[d] \notin Chained
                       /\ pc[d] = "releasing" => pc'[d] = "releasing"
  BY <1>2, <1>3 DEF Chained
<1>7. Queues' /\ Closing' /\ CloserIsLast'
  BY <1>1, <1>5, <1>6, QueuesStay
<1>8. OneChain'
  BY <1>1, <1>5, <1>6, ChainStays
<1>9. Progress'
  <2>1. ASSUME NEW d \in Sharing(c)
        PROVE  ProgressOf(d)'
    <3>1. d \in Calls /\ ProgressOf(d)
      BY <1>1, <1>2 DEF Progress
    <3> QED
      BY <1>2, <3>1 DEF ProgressOf, Opening, Exporting
  <2>2. ASSUME NEW d \in Calls \ Sharing(c)
        PROVE  ProgressOf(d)'
    <3>1. ProgressOf(d) /\ pc'[d] = pc[d] /\ call'[d] = call[d]
      BY <1>1 DEF Progress
    <3> QED
      BY <3>1 DEF ProgressOf
  <2> QED
    BY <2>1, <2>2 DEF Progress
<1>10. Unborn'
  <2> SUFFICES ASSUME NEW t \in Calls, pc'[t] \in {"idle", "behind"}
               PROVE  docs # t /\ states'[t] = Fresh /\ \A d \in Calls : call'[d].of # t
    BY DEF Unborn
  <2>1. pc[t] \in {"idle", "behind"}
    BY <1>2, <1>3
  <2>2. docs # t /\ states[t] = Fresh /\ \A d \in Calls : call[d].of # t
    BY <1>1, <2>1 DEF Unborn
  <2> QED
    BY <1>5, <2>2
<1>11. Behind'
  BY <1>1, <1>5 DEF Behind
<1>12. CopyIsNewer'
  <2>1. \A d \in Calls : pc'[d] = "exporting" => pc[d] = "exporting"
    BY <1>2, <1>3
  <2> QED
    BY <1>1, <1>5, <2>1 DEF CopyIsNewer
<1>13. \A s, d \in Calls : FreshFor(s, d) => FreshFor(s, d)'
  <2>1. \A d \in Calls : pc'[d] \in Opening => pc[d] \in Opening
    BY <1>2, <1>3 DEF Opening
  <2> QED
    BY <1>5, <2>1 DEF FreshFor
<1>14. Freshness'
  <2>1. ASSUME NEW d \in Sharing(c)
        PROVE  FreshCall(d)'
    BY <1>2 DEF FreshCall, Opening, Exporting
  <2>2. ASSUME NEW d \in Calls \ Sharing(c)
        PROVE  FreshCall(d)'
    <3>1. /\ docs # None => docs \in Calls
          /\ pc[d] \in Exporting => call[d].of \in Calls
          /\ FreshCall(d) /\ pc'[d] = pc[d] /\ call'[d] = call[d]
      BY <1>1, CallTypes DEF TypeOK, Progress, ProgressOf, Freshness
    <3> QED
      BY <1>13, <3>1 DEF FreshCall
  <2> QED
    BY <2>1, <2>2 DEF Freshness
<1>15. ASSUME NEW d \in Calls
       PROVE  AnswerOf(d)'
  <2>1. CASE d \notin Sharing(c)
    <3>1. AnswerOf(d) /\ pc'[d] = pc[d] /\ call'[d] = call[d]
      BY <1>1, <2>1
    <3> QED
      BY <3>1 DEF AnswerOf
  <2>2. CASE d \in Sharing(c) /\ d # c
    <3>1. call'[d].shared
      BY <1>1, <2>2 DEF Sharing, Progress, ProgressOf
    <3> QED
      BY <3>1 DEF AnswerOf
  <2> QED
    BY <2>1, <2>2
<1>16. Outlines'
  <2> SUFFICES ASSUME replays = 0, ~forsaken, NEW d \in Calls
               PROVE  OutlineOf(d)'
    BY DEF Outlines
  <2>1. CASE d \in Sharing(c)
    BY <1>2, <2>1 DEF OutlineOf
  <2>2. CASE d \notin Sharing(c)
    <3>1. OutlineOf(d) /\ pc'[d] = pc[d] /\ call'[d] = call[d]
      BY <1>1, <2>2 DEF Outlines
    <3> QED
      BY <3>1 DEF OutlineOf
  <2> QED
    BY <2>1, <2>2
<1> QED
  BY <1>7, <1>8, <1>9, <1>10, <1>11, <1>12, <1>14, <1>15, <1>16 DEF IInv

\* What is written under a key is what Word has open, which is not older.
LEMMA ExportStep ==
    ASSUME IInv, TypeOK', NEW c \in Calls, Export(c)
    PROVE  IInv'
<1>1. /\ TypeOK /\ Behind /\ CopyIsNewer /\ NeverOlder /\ Progress /\ Freshness /\ Unborn
  BY DEF IInv
<1>2. pc[c] = "exporting" /\ call[c].kind = "pdf" /\ UNCHANGED <<file, docs, call, forsaken>>
  BY <1>1 DEF Export, Progress, ProgressOf, Exporting
<1>3. CASE HostReads /\ pdfs' = [pdfs EXCEPT ![call[c].key] = copy'] /\ Goto(c, "pruning")
           /\ UNCHANGED states
  <2>1. /\ pc'[c] = "pruning" /\ \A d \in Calls \ {c} : pc'[d] = pc[d]
        /\ states' = states
    BY <1>1, <1>3 DEF Goto, TypeOK
  <2>2. /\ file \in Nat /\ replays \in Nat /\ file' >= file
        /\ call[c].key \in Nat \cup {None} /\ copy \in Nat \cup {None}
        /\ call[c].key = None \/ call[c].key <= file
        /\ call[c].asked = None \/ call[c].asked <= file
    BY <1>1, <1>2 DEF TypeOK, Versions, Behind
  <2>3. \/ copy' \in {copy, None} /\ replays' = replays
        \/ copy' = file /\ replays' # 0
    BY <1>3, <2>2 DEF HostReads
  <2>4. copy # None /\ copy' \in {copy, file}
    BY <1>3 DEF HostReads
  <2>5. call[c].key = None \/ copy' >= call[c].key
    BY <1>1, <1>2, <2>2, <2>4 DEF CopyIsNewer
  <2>6. NeverOlder'
    <3> SUFFICES ASSUME NEW k \in Versions
                 PROVE  pdfs'[k] = None \/ pdfs'[k] >= k
      BY DEF NeverOlder
    <3>1. k # None /\ k \in Names
      BY CacheAssumption DEF Names
    <3>2. CASE k = call[c].key
      <4>1. pdfs'[k] = copy'
        BY <1>1, <1>3, <3>1, <3>2 DEF TypeOK
      <4> QED
        BY <2>5, <3>1, <3>2, <4>1
    <3>3. CASE k # call[c].key
      <4>1. pdfs'[k] = pdfs[k]
        BY <1>1, <1>3, <3>1, <3>3 DEF TypeOK
      <4> QED
        BY <1>1, <4>1 DEF NeverOlder
    <3> QED
      BY <3>2, <3>3
  <2>7. FreshCall(c)'
    <3>1. call[c].of \in Calls /\ FreshCall(c) /\ pc[c] \in Exporting /\ pc'[c] \in Exporting
      BY <1>1, <1>2, <2>1, CallTypes DEF Progress, ProgressOf, Freshness, Exporting
    <3>2. FreshFor(call[c].of, c) => FreshFor(call[c].of, c)'
      BY <1>2, <2>1, <3>1 DEF FreshFor, Opening
    <3> QED
      BY <1>2, <2>1, <3>1, <3>2 DEF FreshCall, Opening
  <2>8. ProgressOf(c)'
    BY <1>1, <1>2, <2>1 DEF Progress, ProgressOf, Opening, Exporting
  <2>9. AnswerOf(c)' /\ OutlineOf(c)'
    BY <1>2, <2>1 DEF AnswerOf, OutlineOf
  <2>10. pc[c] \notin Chained /\ pc'[c] \notin Chained \cup Opening \cup {"idle", "behind", "exporting"}
    BY <1>2, <2>1 DEF Chained, Opening
  <2> QED
    BY <1>2, <2>1, <2>2, <2>3, <2>6, <2>7, <2>8, <2>9, <2>10, Stays
<1>4. CASE /\ states' = [states EXCEPT ![call[c].of].pending = None]
           /\ pc' = [d \in Calls |-> IF d \in Sharing(c) THEN "failed" ELSE pc[d]]
           /\ UNCHANGED hostVars
  <2>1. UNCHANGED <<copy, replays, pdfs>> /\ pc'[c] = "failed"
    BY <1>4 DEF hostVars, Sharing
  <2>2. NeverOlder' /\ AnswerOf(c)'
    BY <1>1, <2>1 DEF NeverOlder, AnswerOf
  <2> QED
    BY <1>2, <1>4, <2>1, <2>2, SharersEnd
<1> QED
  BY <1>2, <1>3, <1>4 DEF Export

\* Pruning takes files away; what is left under the key it was exported with is the
\* answer.
LEMMA PruneStep ==
    ASSUME IInv, TypeOK', NEW c \in Calls, Prune(c)
    PROVE  IInv'
<1>1. /\ TypeOK /\ NeverOlder /\ Progress /\ Freshness /\ Behind
  BY DEF IInv
<1>2. /\ pc[c] = "pruning" /\ UNCHANGED <<file, copy, replays, docs, forsaken>>
      /\ states' = [states EXCEPT ![call[c].of].pending = None]
      /\ pc' = [d \in Calls |-> IF d \in Sharing(c) THEN "done" ELSE pc[d]]
  BY DEF Prune
<1>3. call[c].of \in Calls /\ call[c].kind = "pdf" /\ FreshCall(c) /\ pc[c] \in Exporting
  BY <1>1, <1>2, CallTypes DEF Progress, ProgressOf, Freshness, Exporting
<1> DEFINE k == states[call[c].of].key
<1>4. k \in Names /\ None \notin Versions /\ call[c].key \in Names /\ call[c].asked \in Versions
  BY <1>1, <1>3, CallTypes DEF Progress, ProgressOf, Opens, Names
<1>5. PICK left : /\ left \in {[n \in Names |-> IF n = k THEN pdfs[n] ELSE None], pdfs}
                  /\ pdfs' = left
                  /\ call' = [d \in Calls |->
                                 IF d \in Sharing(c)
                                 THEN [call[d] EXCEPT !.result = k, !.shown = left[call[c].key]]
                                 ELSE call[d]]
  BY DEF Prune
<1>6. \A n \in Names : left[n] \in {pdfs[n], None}
  BY <1>5
<1> HIDE DEF k
<1>7. NeverOlder'
  BY <1>1, <1>5, <1>6 DEF NeverOlder, Names
<1>8. \A d \in Calls : /\ call'[d].kind = call[d].kind /\ call'[d].of = call[d].of
                       /\ call'[d].key = call[d].key /\ call'[d].asked = call[d].asked
                       /\ call'[d].shared = call[d].shared
                       /\ d \notin Sharing(c) => call'[d] = call[d]
  BY <1>1, <1>5 DEF TypeOK
<1>9. c \in Sharing(c) /\ call'[c].result = k /\ call'[c].shown = left[call[c].key]
  <2>1. c \in Sharing(c)
    BY DEF Sharing
  <2>2. call'[c] = [call[c] EXCEPT !.result = k, !.shown = left[call[c].key]]
    BY <1>5, <2>1
  <2> QED
    BY <1>1, <2>1, <2>2 DEF TypeOK
<1>10. AnswerOf(c)'
  <2> SUFFICES ASSUME ~call[c].shared
               PROVE  /\ k = None \/ k >= call[c].asked
                      /\ \/ call[c].key = None \/ left[call[c].key] = None
                         \/ left[call[c].key] >= call[c].asked
    BY <1>8, <1>9 DEF AnswerOf
  <2>1. k = None \/ k >= call[c].asked
    BY <1>3 DEF FreshCall, FreshFor, Opens, k
  <2>2. call[c].key = None \/ call[c].key >= call[c].asked
    BY <1>3 DEF FreshCall, Opens
  <2>3. call[c].key # None => /\ call[c].key \in Versions
                              /\ left[call[c].key] \in {pdfs[call[c].key], None}
                              /\ pdfs[call[c].key] = None
                                 \/ (pdfs[call[c].key] \in Versions /\ pdfs[call[c].key] >= call[c].key)
    BY <1>1, <1>4, <1>6 DEF NeverOlder, Names, TypeOK
  <2> QED
    BY <1>4, <2>1, <2>2, <2>3 DEF Versions
<1> QED
  BY <1>2, <1>7, <1>8, <1>10, SharersEnd

\* Another program saves the document: everything else is as old as it was.
LEMMA SaveStep ==
    ASSUME IInv, TypeOK', Save
    PROVE  IInv'
<1>1. /\ file' = file + 1 /\ file \in Nat
      /\ UNCHANGED <<copy, replays, pdfs, docs, states, pc, call, forsaken>>
  BY DEF Save, hostVars, IInv, TypeOK, Versions
<1>2. TypeOK /\ Behind
  BY DEF IInv
<1>3. Behind'
  <2>1. \A n \in Nat : n <= file => n <= file'
    BY <1>1
  <2> QED
    BY <1>1, <1>2, <2>1 DEF Behind, TypeOK, Versions
<1>4. Queues' /\ Progress' /\ Unborn' /\ Closing' /\ CloserIsLast'
  BY <1>1 DEF IInv, Queues, AtHead, Progress, ProgressOf, Unborn, Closing, CloserIsLast
<1>5. CopyIsNewer' /\ NeverOlder' /\ OneChain' /\ Outlines' /\ \A c \in Calls : AnswerOf(c)'
  BY <1>1 DEF IInv, CopyIsNewer, NeverOlder, OneChain, Outlines, OutlineOf, AnswerOf
<1>6. Freshness'
  BY <1>1 DEF IInv, Freshness, FreshCall, FreshFor
<1> QED
  BY <1>3, <1>4, <1>5, <1>6 DEF IInv
-----------------------------------------------------------------------------
(* The theorems.                                                           *)

\* Nothing is open, asked, or filed.
LEMMA InitHolds == Init => IInv
<1> SUFFICES ASSUME Init
             PROVE  IInv
  OBVIOUS
<1>1. /\ file = 0 /\ copy = None /\ replays = 0 /\ forsaken = FALSE /\ docs = None
      /\ 0 \in Versions /\ None \notin Calls
      /\ \A k \in Names : pdfs[k] = None
      /\ \A c \in Calls : /\ pc[c] = "idle" /\ call[c] = NewCall /\ states[c] = Fresh
                          /\ states[c].key = None /\ states[c].queue = <<>>
                          /\ call[c].kind = None /\ call[c].of = None /\ call[c].key = None
                          /\ call[c].asked = None
  BY CacheAssumption DEF Init, Fresh, NewCall, Versions
<1>2. TypeOK
  <2>1. Typed
    <3>1. <<>> \in Seq(Calls)
      OBVIOUS
    <3>2. Fresh \in StateObjects
      BY <3>1 DEF Fresh, StateObjects
    <3>3. NewCall \in CallRecords
      BY DEF NewCall, CallRecords
    <3>4. states \in [Calls -> StateObjects] /\ call \in [Calls -> CallRecords]
      BY <3>2, <3>3 DEF Init
    <3>5. pc \in [Calls -> Steps] /\ pdfs \in [Names -> Names]
      BY DEF Init, Steps, Names
    <3>6. replays \in 0..MaxReplays
      BY <1>1, CacheAssumption
    <3>7. forsaken \in BOOLEAN /\ docs \in Calls \cup {None} /\ file \in Versions /\ copy \in Names
      BY <1>1 DEF Names
    <3> QED
      BY <3>4, <3>5, <3>6, <3>7 DEF Typed
  <2> QED
    BY <2>1, TypedIsTypeOK
<1>3. Queues /\ Closing /\ CloserIsLast /\ OneChain
  <2>1. \A s \in Calls : 1..Len(states[s].queue) = {}
    BY <1>1
  <2>2. \A c \in Calls : pc[c] \notin Running
    BY <1>1 DEF Running, Chained
  <2> QED
    BY <1>1, <2>1, <2>2 DEF Queues, Closing, CloserIsLast, OneChain
<1>4. None \notin Opens /\ None # "outline"
  BY CacheAssumption DEF AllKinds
<1>5. Progress /\ Unborn
  BY <1>1, <1>4 DEF Progress, ProgressOf, Unborn, Opening, Exporting
<1>6. Behind /\ CopyIsNewer
  BY <1>1 DEF Behind, CopyIsNewer
<1>7. NeverOlder
  BY <1>1 DEF NeverOlder, Names
<1>8. Freshness /\ (\A c \in Calls : AnswerOf(c)) /\ Outlines
  BY <1>1, <1>4 DEF Freshness, FreshCall, AnswerOf, Outlines, OutlineOf
<1> QED
  BY <1>2, <1>3, <1>5, <1>6, <1>7, <1>8 DEF IInv

\* Every step, of a call or of another program, keeps the invariant.
LEMMA NextHolds == IInv /\ [Next]_vars => IInv'
<1> SUFFICES ASSUME IInv, [Next]_vars
             PROVE  IInv'
  OBVIOUS
<1>1. TypeOK /\ Queues /\ Progress
  BY DEF IInv
<1>2. ASSUME NEW c \in Calls, Continue(c)
      PROVE  IInv'
  <2>1. TypeOK'
    BY <1>1, <1>2, ContinueTypes
  <2> QED
    BY <1>2, <2>1, OpenAgainStep, CloseAgainStep, LookStep, ForgetStep DEF Continue
<1>3. ASSUME NEW c \in Calls, Ask(c)
      PROVE  IInv'
  <2>1. TypeOK'
    BY <1>1, <1>3, AskTypes
  <2> QED
    BY <1>3, <2>1, OpenStep, AskStep DEF Ask
<1>4. ASSUME NEW c \in Calls, Event(c)
      PROVE  IInv'
  <2>1. TypeOK'
    BY <1>1, <1>4, EventTypes
  <2> QED
    BY <1>4, <2>1, FingerprintStep, DropStep, HostOpensStep, ExportStep, PruneStep,
       EditorRunsStep, ReleaseStep, ReadStep DEF Event
<1>5. CASE Save
  <2>1. TypeOK'
    BY <1>1, <1>5, CacheAssumption, TypedIsTypeOK DEF Save, Typed, Versions, hostVars
  <2> QED
    BY <1>5, <2>1, SaveStep
<1>6. CASE UNCHANGED vars
  <2>1. UNCHANGED <<file, copy, replays, pdfs, docs, states, pc, call, forsaken>>
    BY <1>6 DEF vars, hostVars
  <2>2. TypeOK' /\ Queues' /\ Progress' /\ Unborn' /\ Closing' /\ CloserIsLast'
    BY <2>1
       DEF IInv, TypeOK, Queues, AtHead, Progress, ProgressOf, Unborn, Closing, CloserIsLast
  <2>3. /\ CopyIsNewer' /\ NeverOlder' /\ OneChain' /\ Outlines' /\ Behind'
        /\ \A c \in Calls : AnswerOf(c)'
    BY <2>1 DEF IInv, CopyIsNewer, NeverOlder, OneChain, Outlines, OutlineOf, AnswerOf, Behind
  <2>4. Freshness'
    BY <2>1 DEF IInv, Freshness, FreshCall, FreshFor
  <2> QED
    BY <2>2, <2>3, <2>4 DEF IInv
<1> QED
  BY <1>2, <1>3, <1>4, <1>5, <1>6 DEF Next

\* The invariant holds of every state the cache can be in.
LEMMA Invariant == Spec => []IInv
BY InitHolds, NextHolds, PTL DEF Spec

\* Every variable has its type.
THEOREM TypeCorrect == Spec => []TypeOK
<1>1. IInv => TypeOK
  BY DEF IInv
<1> QED
  BY <1>1, Invariant, PTL

\* A PDF never shows a version that is older than the key it is filed under, whatever
\* is saved or replayed while it is opened and exported (pdf(), #pruneOldPdfs).
THEOREM PdfsAreNotOlder == Spec => []NeverOlder
<1>1. IInv => NeverOlder
  BY DEF IInv
<1> QED
  BY <1>1, Invariant, PTL

\* What answers open(), refresh() and pdf() is not older than the call, unless it is the
\* export of another call.
THEOREM AnswersAreFresh == Spec => []AnswerIsFresh
<1>1. IInv => AnswerIsFresh
  BY DEF IInv, AnswerOf, AnswerIsFresh
<1> QED
  BY <1>1, Invariant, PTL

\* No operation ever joins a queue behind the closer (#enqueueDocumentOperation).
THEOREM ClosersAreLast == Spec => []CloserIsLast
<1>1. IInv => CloserIsLast
  BY DEF IInv
<1> QED
  BY <1>1, Invariant, PTL

\* outline() reads its markup and its positions from one working copy, unless Word ends
\* or a failed open has forsaken a state object.
THEOREM OutlinesAreOfOneDocument == Spec => []OutlineIsOneDocument
<1>1. IInv => OutlineIsOneDocument
  <2> SUFFICES ASSUME IInv, replays = 0, ~forsaken,
                      NEW c \in Calls, call[c].kind = "outline", pc[c] = "done"
               PROVE  Cardinality(call[c].read) = 1
    BY DEF OutlineIsOneDocument
  <2>1. PICK v \in Versions : call[c].read = {v}
    BY DEF IInv, Outlines, OutlineOf
  <2> QED
    BY <2>1, FS_Singleton
<1> QED
  BY <1>1, Invariant, PTL

\* One operation on a document at a time: until a failed open has forsaken a state
\* object, an open and the questions of an outline never run beside another
\* (#enqueueDocumentOperation).
THEOREM OneOperationUntilForsaken == Spec => [](~forsaken => OneOperationAtATime)
<1>1. IInv => (~forsaken => OneOperationAtATime)
  <2> SUFFICES ASSUME IInv, ~forsaken, NEW c \in Calls, NEW d \in Calls,
                      {pc[c], pc[d]} \subseteq {"dropping", "opening", "positions"}
               PROVE  c = d
    BY DEF OneOperationAtATime
  <2>1. \A e \in {c, d} : AtHead(e) /\ call[e].of = docs
    BY DEF IInv, TypeOK, Queues, AtHead, Progress, ProgressOf, OneChain, Chained, Running, Opening
  <2> QED
    BY <2>1 DEF AtHead
<1> QED
  BY <1>1, Invariant, PTL
=============================================================================

--------------------------- MODULE PanelServerProofs ---------------------------
(***************************************************************************)
(* Proofs about PanelServer, for every number of requests, versions, parts *)
(* and renders, files of every size, and every bound.                      *)
(*                                                                         *)
(* A worker is whole because what the load ends with is what the manifest  *)
(* records; a failure is not remembered because only a worker is kept, and *)
(* because a load that began in a whole directory reads one version only.  *)
(***************************************************************************)
EXTENDS PanelServer, TLAPS

Wholes == {Whole(v) : v \in Versions}
Contents == Versions \cup {Torn, None}
Bodies == Wholes \cup Contents \cup Renders \cup {"png"}

RequestSet ==
    [kind : {None, "worker", "file", "icon", "pdf"},
     step : {"idle", "loading", "extracting", "rendering", "stat", "reading",
             "answered", "unheard"},
     sound : BOOLEAN, sent : Bodies, url : Renders \cup {None}, range : Headers,
     found : Renders \cup {None}, size : Nat, status : Nat, body : Bodies,
     bytes : SUBSET Int]

LoadSet ==
    [step : {"none", "manifest", "parts", "ended"}, manifest : Versions \cup {None},
     joined : Seq(Files \X Contents), outcome : Wholes \cup {None}]

TypeOK ==
    /\ dir \in [Files -> Contents]
    /\ script \in Seq(Files \cup {"clear"})
    /\ script # <<>> => version \in Versions
    /\ load \in LoadSet
    /\ icon \in {"none", "running", "png", "absent"}
    /\ doc \in Renders \cup {None} /\ pdfs \subseteq Renders
    /\ stored \in [worker : Wholes \cup {None}, icon : {"png", None},
                   pdf : [Renders -> Renders \cup {None}]]
    /\ request \in [Requests -> RequestSet]

\* While the parts are read some are left; only a load that ended has an outcome.
Loading ==
    /\ load.step = "parts" => load.manifest \in Versions /\ Len(load.joined) < Len(Parts)
    /\ load.step = "manifest" => load.joined = <<>>
    /\ load.outcome # None <=> load.step = "ended"
    /\ load.step = "none" <=> load = NoLoad

\* A worker that was asked for in a whole directory is read in it: the script does
\* nothing, and all that was read is of the version there is.
SoundReads ==
    \A r \in Requests :
        request[r].kind = "worker" /\ request[r].step = "loading" /\ request[r].sound =>
            /\ script = <<>>
            /\ \E v \in Versions :
                  /\ dir = [f \in Files |-> v]
                  /\ load.step = "parts" => load.manifest = v
                  /\ \A i \in 1..Len(load.joined) : load.joined[i] = <<Parts[i], v>>

\* What is right about a request by itself: a worker that was sent is whole, and one
\* that was asked for in a whole directory was sent.
RightWorker(q) ==
    q.kind = "worker" /\ q.step = "answered" =>
        /\ q.status # 500 => q.body \in Wholes
        /\ q.sound => q.status # 500

\* A PDF on its way has a document, and a range that can be served once it is known;
\* what was sent is what was asked for.
RightPdf(q) ==
    LET empty == q.range # None /\ Wanted(q.range, q.size) = {}
        endless == q.range # None /\ q.range.first = None /\ q.range.last = Infinity
    IN  /\ q.step \in {"rendering", "stat", "reading"} =>
              q.kind = "pdf" /\ q.found \in Renders /\ q.url \in Renders
        /\ q.step = "reading" =>
              IF q.range = None THEN q.status = 200
              ELSE q.status = 206 /\ ParseByteRange(q.range, q.size) # Unsatisfiable
        /\ q.kind = "pdf" /\ q.step = "answered" =>
              /\ q.status = 206 => q.bytes = Wanted(q.range, q.size) /\ q.bytes # {}
              /\ q.status = 416 => empty \/ endless

Right(q) == RightWorker(q) /\ RightPdf(q)

IInv == /\ TypeOK /\ Loading /\ SoundReads
        /\ \A r \in Requests : Right(request[r])
-----------------------------------------------------------------------------
(* The operators.                                                          *)

\* What the vendored files are called.
LEMMA FileNames ==
    /\ {"main", "manifest"} \subseteq Files /\ Parts \in Seq(Files)
    /\ Len(Parts) \in Nat \ {0} /\ DOMAIN Parts = 1..Len(Parts)
    /\ \A i \in 1..Len(Parts) : Parts[i] \in Files
BY ServerAssumption DEF Files, ToSet

\* A read finds a version, a torn file or nothing.
LEMMA FoundContents ==
    ASSUME TypeOK, NEW f \in Files, NEW v \in Found(f)
    PROVE  v \in Contents
BY DEF TypeOK, Found, Contents

\* A file that nobody writes is read as it is.
LEMMA FoundAsIs ==
    ASSUME script = <<>>, NEW f, NEW v \in Found(f)
    PROVE  v = dir[f]
BY DEF Found

\* A refusal has its status and changes nothing else of the request.
LEMMA Refuses ==
    ASSUME NEW q \in RequestSet, NEW status \in Nat
    PROVE  LET a == Refused(q, status)
           IN  /\ a \in RequestSet /\ a.step = "answered" /\ a.status = status
               /\ a.kind = q.kind /\ a.sound = q.sound
               /\ a.range = q.range /\ a.size = q.size
BY DEF Refused, RequestSet

\* A body is sent with 200, or confirmed with 304.
LEMMA Validates ==
    ASSUME NEW q \in RequestSet, NEW body \in Bodies
    PROVE  LET a == Validated(q, body)
           IN  /\ a \in RequestSet /\ a.step = "answered" /\ a.status \in {200, 304}
               /\ a.body = body /\ a.kind = q.kind /\ a.sound = q.sound
<1> PICK status \in Nat : status = IF q.sent = body THEN 304 ELSE 200
  OBVIOUS
<1>1. Validated(q, body) = [q EXCEPT !.step = "answered", !.body = body, !.status = status]
  BY DEF Validated
<1>2. Validated(q, body) \in RequestSet
  BY <1>1 DEF RequestSet
<1>3. /\ Validated(q, body).step = "answered" /\ Validated(q, body).status = status
      /\ Validated(q, body).body = body /\ Validated(q, body).kind = q.kind
      /\ Validated(q, body).sound = q.sound
  BY <1>1 DEF RequestSet
<1> QED
  BY <1>2, <1>3

\* The answer to a request for the worker is a refusal or a worker.
LEMMA WorkerAnswers ==
    ASSUME NEW q \in RequestSet, NEW outcome \in Wholes \cup {Failed}
    PROVE  LET a == WorkerAnswer(q, outcome)
           IN  /\ a \in RequestSet /\ a.kind = q.kind /\ a.sound = q.sound
               /\ a.step = "answered"
               /\ a.status = 500 <=> outcome = Failed
               /\ a.status # 500 => a.body = outcome
<1>1. CASE outcome = Failed
  BY <1>1, Refuses DEF WorkerAnswer
<1>2. CASE outcome # Failed
  BY <1>2, Validates DEF WorkerAnswer, Bodies
<1> QED
  BY <1>1, <1>2

\* So is the one to a request for the icon, which is refused when there is none.
LEMMA IconAnswers ==
    ASSUME NEW q \in RequestSet
    PROVE  LET a == IconAnswer(q, "png")
               b == IconAnswer(q, "absent")
           IN  /\ a \in RequestSet /\ a.kind = q.kind /\ a.step = "answered" /\ a.body = "png"
               /\ b \in RequestSet /\ b.kind = q.kind /\ b.step = "answered"
<1>1. "png" \in Bodies
  BY DEF Bodies
<1> QED
  BY <1>1, Refuses, Validates DEF IconAnswer

\* No worker is taken for a failure, or for nothing.
LEMMA WholeIsNoFailure == Failed \notin Wholes /\ None \notin Wholes
BY ServerAssumption DEF Wholes, Whole

\* A header, once it is not None, asks for a range, a suffix with its length.
LEMMA HeaderParts ==
    ASSUME NEW range \in Headers, range # None
    PROVE  /\ range \in Ranges
           /\ range.first = None => range.last \in Numbers \cup {Infinity}
BY DEF Headers, Ranges

\* The bytes of a range that can be served are those the header asks for, and there
\* are some; a range that cannot be served asks for none, or for an endless suffix
\* (parseByteRange, suffixRange, boundedRange).
LEMMA RangeBytes ==
    ASSUME NEW range \in Headers, range # None, NEW size \in Nat
    PROVE  LET part == ParseByteRange(range, size)
           IN  IF part = Unsatisfiable
               THEN \/ Wanted(range, size) = {}
                    \/ range.first = None /\ range.last = Infinity
               ELSE /\ part.start..part.end = Wanted(range, size)
                    /\ part.start..part.end # {}
<1> DEFINE part == ParseByteRange(range, size)
<1>1. /\ range.first \in Numbers \cup {None, Infinity}
      /\ range.last \in Numbers \cup {None, Infinity}
      /\ range.first = None => range.last \in Numbers \cup {Infinity}
  BY HeaderParts DEF Ranges
<1>2. Numbers \subseteq Nat /\ None \notin Numbers /\ Infinity \notin Numbers /\ None # Infinity
  BY ServerAssumption
<1>3. CASE range.first = None
  <2>1. part = SuffixRange(range.last, size)
    BY <1>3 DEF ParseByteRange
  <2>2. CASE range.last = Infinity
    BY <1>3, <2>1, <2>2 DEF SuffixRange
  <2>3. CASE range.last \in Numbers
    <3> PICK n \in Nat : n = range.last
      BY <1>2, <2>3
    <3>1. n # Infinity /\ Wanted(range, size) = {p \in 0..(size - 1) : p >= size - n}
      BY <1>2, <1>3, <2>3 DEF Wanted
    <3>2. CASE n = 0 \/ size = 0
      BY <2>1, <3>1, <3>2 DEF SuffixRange
    <3>3. CASE n # 0 /\ size # 0
      <4>1. part = [start |-> IF n < size THEN size - n ELSE 0, end |-> size - 1]
        BY <2>1, <3>1, <3>3 DEF SuffixRange
      <4>2. part.end # -1 /\ part # Unsatisfiable
        BY <3>3, <4>1 DEF Unsatisfiable
      <4>3. part.start..part.end = Wanted(range, size) /\ part.start \in Wanted(range, size)
        BY <3>1, <3>3, <4>1
      <4> QED
        BY <4>2, <4>3
    <3> QED
      BY <3>2, <3>3
  <2> QED
    BY <1>1, <1>3, <2>2, <2>3
<1>4. CASE range.first # None
  <2> DEFINE end == IF range.last \in {None, Infinity} THEN size - 1
                    ELSE Smaller(range.last, size - 1)
  <2>1. part = IF range.first = Infinity \/ range.first >= size \/ end < range.first
               THEN Unsatisfiable ELSE [start |-> range.first, end |-> end]
    BY <1>4 DEF ParseByteRange, BoundedRange
  <2>2. CASE range.first = Infinity
    BY <1>4, <2>1, <2>2 DEF Wanted
  <2>3. CASE range.first \in Numbers
    <3> PICK n \in Nat : n = range.first
      BY <1>2, <2>3
    <3> DEFINE Bounded == /\ end \in Int /\ end <= size - 1
                          /\ Wanted(range, size) = {p \in 0..(size - 1) : p >= n /\ p <= end}
    <3>a. ASSUME range.last \in {None, Infinity} PROVE Bounded
      <4>1. end = size - 1
        BY <3>a
      <4>2. Wanted(range, size) = {p \in 0..(size - 1) : p >= n}
        BY <1>2, <1>4, <2>3, <3>a DEF Wanted
      <4> QED
        BY <4>1, <4>2
    <3>b. ASSUME range.last \in Numbers PROVE Bounded
      <4> PICK m \in Nat : m = range.last
        BY <1>2, <3>b
      <4>1. m \notin {None, Infinity} /\ n # Infinity
        BY <1>2, <2>3, <3>b
      <4>2. end = IF m < size - 1 THEN m ELSE size - 1
        BY <4>1 DEF Smaller
      <4>3. Wanted(range, size) = {p \in 0..(size - 1) : p >= n /\ p <= m}
        BY <1>4, <4>1 DEF Wanted
      <4> QED
        BY <4>2, <4>3
    <3>1. end \in Int /\ end <= size - 1
      BY <1>1, <3>a, <3>b
    <3>2. Wanted(range, size) = {p \in 0..(size - 1) : p >= n /\ p <= end}
      BY <1>1, <3>a, <3>b
    <3>3. CASE n >= size \/ end < n
      BY <1>2, <2>1, <2>3, <3>1, <3>2, <3>3
    <3>4. CASE n < size /\ n <= end
      <4>1. part = [start |-> n, end |-> end]
        BY <1>2, <2>1, <2>3, <3>1, <3>4
      <4>2. part # Unsatisfiable
        BY <3>1, <3>4, <4>1 DEF Unsatisfiable
      <4>3. part.start..part.end = Wanted(range, size) /\ n \in Wanted(range, size)
        BY <3>1, <3>2, <3>4, <4>1
      <4> QED
        BY <4>2, <4>3
    <3> QED
      BY <3>1, <3>3, <3>4
  <2> QED
    BY <1>1, <1>4, <2>2, <2>3
<1> QED
  BY <1>3, <1>4
-----------------------------------------------------------------------------
(* Steps of the requests.                                                  *)

\* One request changes, and what it changes to is right.
LEMMA RequestChanges ==
    ASSUME IInv, NEW r \in Requests, NEW q \in RequestSet, Right(q),
           request' = [request EXCEPT ![r] = q]
    PROVE  request' \in [Requests -> RequestSet] /\ \A x \in Requests : Right(request'[x])
BY DEF IInv, TypeOK

\* It does not wait for a worker that must come, and no file is written or read.
LEMMA SoundUndisturbed ==
    ASSUME IInv, NEW r \in Requests, NEW q,
           request' = [request EXCEPT ![r] = q], UNCHANGED <<script, dir, load>>,
           q.kind = "worker" /\ q.step = "loading" => ~q.sound
    PROVE  SoundReads'
BY DEF IInv, TypeOK, SoundReads

\* An answer with a worker, or with a failure nobody must be spared, is right.
LEMMA RightAnswer ==
    ASSUME NEW q \in RequestSet, NEW outcome \in Wholes \cup {Failed},
           q.kind = "worker", q.sound => outcome # Failed
    PROVE  Right(WorkerAnswer(q, outcome))
BY WorkerAnswers DEF Right, RightWorker, RightPdf

\* Everyone who waits for the worker is answered, and rightly.
LEMMA Settles ==
    ASSUME IInv, NEW outcome \in Wholes \cup {Failed}, Settle(outcome),
           \A r \in Requests :
               request[r].kind = "worker" /\ request[r].step = "loading" /\ request[r].sound
                   => outcome # Failed
    PROVE  /\ request' \in [Requests -> RequestSet]
           /\ \A r \in Requests :
                 Right(request'[r]) /\ ~(request'[r].kind = "worker" /\ request'[r].step = "loading")
           /\ stored' \in [worker : Wholes \cup {None}, icon : {"png", None},
                            pdf : [Renders -> Renders \cup {None}]]
<1>1. \A r \in Requests :
          /\ request'[r] \in RequestSet /\ Right(request'[r])
          /\ ~(request'[r].kind = "worker" /\ request'[r].step = "loading")
  <2> SUFFICES ASSUME NEW r \in Requests
               PROVE  /\ request'[r] \in RequestSet /\ Right(request'[r])
                      /\ ~(request'[r].kind = "worker" /\ request'[r].step = "loading")
    OBVIOUS
  <2>1. request[r] \in RequestSet /\ Right(request[r])
    BY DEF IInv, TypeOK
  <2>2. request'[r] = IF request[r].kind = "worker" /\ request[r].step = "loading"
                      THEN WorkerAnswer(request[r], outcome) ELSE request[r]
    BY DEF Settle
  <2> QED
    BY <2>1, <2>2, RightAnswer, WorkerAnswers
<1>2. request' = [r \in Requests |-> request'[r]]
  BY DEF Settle
<1>3. stored' \in [worker : Wholes \cup {None}, icon : {"png", None},
                   pdf : [Renders -> Renders \cup {None}]]
  BY DEF Settle, IInv, TypeOK
<1> QED
  BY <1>1, <1>2, <1>3

\* A body that is kept is one the browser may keep.
LEMMA StoredKept ==
    ASSUME TypeOK, NEW a,
           \/ Keeps("worker", a) /\ (a.status = 200 => a.body \in Wholes)
           \/ Keeps("icon", a) /\ (a.status = 200 => a.body = "png")
    PROVE  stored' \in [worker : Wholes \cup {None}, icon : {"png", None},
                        pdf : [Renders -> Renders \cup {None}]]
BY DEF Keeps, TypeOK

\* A request that begins is one of its kind.
LEMMA Asks ==
    ASSUME TypeOK, NEW r \in Requests,
           NEW kind \in {"worker", "file", "icon", "pdf"},
           NEW step \in {"loading", "extracting", "rendering", "answered"}
    PROVE  /\ Asked(r, kind, step) \in RequestSet
           /\ Asked(r, kind, step).kind = kind /\ Asked(r, kind, step).step = step
<1>1. /\ kind \in {None, "worker", "file", "icon", "pdf"}
      /\ step \in {"idle", "loading", "extracting", "rendering", "stat", "reading",
                   "answered", "unheard"}
  OBVIOUS
<1>2. request[r] \in RequestSet
  BY DEF TypeOK
<1>3. PICK a : a = [request[r] EXCEPT !.kind = kind]
  OBVIOUS
<1>4. a \in RequestSet /\ a.kind = kind
  BY <1>1, <1>2, <1>3 DEF RequestSet
<1>5. Asked(r, kind, step) = [a EXCEPT !.step = step]
  BY <1>2, <1>3 DEF Asked, RequestSet
<1> QED
  BY <1>1, <1>4, <1>5 DEF RequestSet
-----------------------------------------------------------------------------
\* A worker is loaded by the request that finds none remembered and none under way,
\* and the others wait for that load.
LEMMA AskWorkerStep ==
    ASSUME IInv, NEW r \in Requests, AskWorker(r)
    PROVE  IInv'
<1> PICK sent \in {None, stored.worker} :
        LET whole == script = <<>> /\ \E v \in Versions : dir = [f \in Files |-> v]
            joins == load # NoLoad /\ load.outcome = None
            q == [Asked(r, "worker", "loading") EXCEPT !.sent = sent, !.sound = whole /\ ~joins]
        IN  \/ /\ load = NoLoad
               /\ load' = [NoLoad EXCEPT !.step = "manifest"]
               /\ request' = [request EXCEPT ![r] = q]
               /\ UNCHANGED stored
            \/ /\ joins
               /\ request' = [request EXCEPT ![r] = q]
               /\ UNCHANGED <<load, stored>>
            \/ /\ load # NoLoad /\ load.outcome # None
               /\ LET a == WorkerAnswer(q, load.outcome)
                  IN  request' = [request EXCEPT ![r] = a] /\ Keeps("worker", a)
               /\ UNCHANGED load
  BY DEF AskWorker
<1> DEFINE whole == script = <<>> /\ \E v \in Versions : dir = [f \in Files |-> v]
           joins == load # NoLoad /\ load.outcome = None
           q == [Asked(r, "worker", "loading") EXCEPT !.sent = sent, !.sound = whole /\ ~joins]
<1>1. UNCHANGED <<dir, script, version, icon, doc, pdfs>>
  BY DEF AskWorker, vendorVars, panelVars
<1>2. TypeOK
  BY DEF IInv
<1>3. q \in RequestSet /\ q.kind = "worker" /\ q.step = "loading" /\ q.sound = (whole /\ ~joins)
  <2>1. sent \in Bodies
    BY <1>2 DEF TypeOK, Bodies, Contents
  <2>2. PICK a \in RequestSet : a = Asked(r, "worker", "loading") /\ a.kind = "worker"
                               /\ a.step = "loading"
    BY <1>2, Asks
  <2>3. PICK sound \in BOOLEAN : sound = (whole /\ ~joins)
    OBVIOUS
  <2>4. q = [a EXCEPT !.sent = sent, !.sound = sound]
    BY <2>2, <2>3
  <2> HIDE DEF q
  <2> QED
    BY <2>1, <2>2, <2>3, <2>4 DEF RequestSet
<1>4. Right(q)
  BY <1>3 DEF Right, RightWorker, RightPdf
<1> HIDE DEF q
<1>5. CASE load = NoLoad /\ load' = [NoLoad EXCEPT !.step = "manifest"]
           /\ request' = [request EXCEPT ![r] = q] /\ UNCHANGED stored
  <2>1. request' \in [Requests -> RequestSet] /\ \A x \in Requests : Right(request'[x])
    BY <1>3, <1>4, <1>5, RequestChanges
  <2>2. /\ load' \in LoadSet /\ load'.step = "manifest" /\ load'.joined = <<>>
        /\ load'.outcome = None /\ load' # NoLoad
    <3>1. load' = [step |-> "manifest", manifest |-> None, joined |-> <<>>, outcome |-> None]
      BY <1>5 DEF NoLoad
    <3>2. load'.step # NoLoad.step
      BY <3>1 DEF NoLoad
    <3> QED
      BY <3>1, <3>2 DEF LoadSet
  <2>3. TypeOK' /\ Loading'
    BY <1>1, <1>2, <1>5, <2>1, <2>2 DEF TypeOK, Loading
  <2>4. SoundReads'
    <3>1. \A x \in Requests :
             request[x].kind = "worker" /\ request[x].step = "loading" /\ request[x].sound
                 => script = <<>> /\ \E v \in Versions : dir = [f \in Files |-> v]
      BY DEF IInv, SoundReads
    <3>2. request' = [request EXCEPT ![r] = q] /\ request \in [Requests -> RequestSet]
      BY <1>2, <1>5 DEF TypeOK
    <3>3. \A i \in 1..Len(load'.joined) : FALSE
      BY <2>2
    <3>4. \A x \in Requests :
             request'[x].kind = "worker" /\ request'[x].step = "loading" /\ request'[x].sound
                 => script = <<>> /\ \E v \in Versions : dir = [f \in Files |-> v]
      BY <1>3, <3>1, <3>2
    <3> QED
      BY <1>1, <2>2, <3>3, <3>4 DEF SoundReads
  <2> QED
    BY <2>1, <2>3, <2>4 DEF IInv
<1>6. CASE joins /\ request' = [request EXCEPT ![r] = q] /\ UNCHANGED <<load, stored>>
  <2>1. request' \in [Requests -> RequestSet] /\ \A x \in Requests : Right(request'[x])
    BY <1>3, <1>4, <1>6, RequestChanges
  <2>2. SoundReads'
    BY <1>1, <1>3, <1>6, SoundUndisturbed
  <2> QED
    BY <1>1, <1>6, <2>1, <2>2 DEF IInv, TypeOK, Loading
<1>7. CASE load # NoLoad /\ load.outcome # None
           /\ request' = [request EXCEPT ![r] = WorkerAnswer(q, load.outcome)]
           /\ Keeps("worker", WorkerAnswer(q, load.outcome)) /\ UNCHANGED load
  <2> DEFINE a == WorkerAnswer(q, load.outcome)
  <2>1. load.outcome \in Wholes
    BY <1>7 DEF IInv, TypeOK, LoadSet
  <2>2. a \in RequestSet /\ a.step = "answered" /\ a.body \in Wholes /\ Right(a)
    BY <1>3, <2>1, WorkerAnswers, RightAnswer, WholeIsNoFailure
  <2>3. request' \in [Requests -> RequestSet] /\ \A x \in Requests : Right(request'[x])
    BY <1>7, <2>2, RequestChanges
  <2>4. SoundReads'
    BY <1>1, <1>7, <2>2, SoundUndisturbed
  <2>5. stored' \in [worker : Wholes \cup {None}, icon : {"png", None},
                     pdf : [Renders -> Renders \cup {None}]]
    BY <1>2, <1>7, <2>2, StoredKept
  <2> QED
    BY <1>1, <1>7, <2>3, <2>4, <2>5 DEF IInv, TypeOK, Loading
<1> QED
  BY <1>5, <1>6, <1>7 DEF q

\* A load that fails is forgotten: the next one begins as the first did.
LEMMA LoadForgotten ==
    ASSUME IInv, LoadFails, UNCHANGED <<dir, script, version, icon, doc, pdfs>>,
           \A r \in Requests :
               ~(request[r].kind = "worker" /\ request[r].step = "loading" /\ request[r].sound)
    PROVE  IInv'
<1>1. Settle(Failed) /\ load' = NoLoad
  BY DEF LoadFails
<1>2. /\ request' \in [Requests -> RequestSet]
      /\ \A r \in Requests :
            Right(request'[r]) /\ ~(request'[r].kind = "worker" /\ request'[r].step = "loading")
      /\ stored' \in [worker : Wholes \cup {None}, icon : {"png", None},
                       pdf : [Renders -> Renders \cup {None}]]
  BY <1>1, Settles
<1>3. /\ load' \in LoadSet /\ load'.step = "none" /\ load'.outcome = None
  BY <1>1 DEF NoLoad, LoadSet
<1>4. TypeOK'
  BY <1>2, <1>3 DEF IInv, TypeOK
<1>5. Loading' /\ SoundReads'
  BY <1>1, <1>2, <1>3 DEF Loading, SoundReads
<1> QED
  BY <1>2, <1>4, <1>5 DEF IInv

\* A manifest that is whole begins the reading of parts, any other fails the load.
LEMMA ReadManifestStep ==
    ASSUME IInv, ReadManifest
    PROVE  IInv'
<1>1. UNCHANGED <<dir, script, version, icon, doc, pdfs>>
  BY DEF ReadManifest, vendorVars, panelVars
<1> PICK v \in Found("manifest") :
        IF v \in Versions
        THEN /\ load' = [load EXCEPT !.step = "parts", !.manifest = v]
             /\ UNCHANGED <<stored, request>>
        ELSE LoadFails
  BY DEF ReadManifest
<1>2. load.step = "manifest" /\ load.joined = <<>> /\ load.outcome = None /\ load \in LoadSet
  BY DEF ReadManifest, IInv, TypeOK, Loading
<1>3. CASE v \in Versions
  <2>1. /\ load' \in LoadSet /\ load'.step = "parts" /\ load'.manifest = v
        /\ load'.joined = <<>> /\ load'.outcome = None /\ load' # NoLoad
    <3>1. load' = [load EXCEPT !.step = "parts", !.manifest = v]
      BY <1>3
    <3>2. load' \in LoadSet
      BY <1>2, <1>3, <3>1 DEF LoadSet
    <3>3. /\ load'.step = "parts" /\ load'.manifest = v
          /\ load'.joined = <<>> /\ load'.outcome = None
      BY <1>2, <3>1 DEF LoadSet
    <3> QED
      BY <3>2, <3>3 DEF NoLoad
  <2>2. Loading'
    BY <1>3, <2>1, FileNames DEF Loading
  <2>3. SoundReads'
    <3> SUFFICES ASSUME NEW r \in Requests, request[r].kind = "worker",
                        request[r].step = "loading", request[r].sound
                 PROVE  /\ script = <<>>
                        /\ \E u \in Versions : dir = [f \in Files |-> u] /\ u = v
      BY <1>1, <1>3, <2>1 DEF SoundReads
    <3>1. PICK u \in Versions : script = <<>> /\ dir = [f \in Files |-> u]
      BY DEF IInv, SoundReads
    <3> QED
      BY <3>1, FoundAsIs, FileNames
  <2> QED
    BY <1>1, <1>3, <2>1, <2>2, <2>3 DEF IInv, TypeOK
<1>4. CASE v \notin Versions
  <2>1. ASSUME NEW r \in Requests, request[r].kind = "worker", request[r].step = "loading",
               request[r].sound
        PROVE  FALSE
    <3>1. PICK u \in Versions : script = <<>> /\ dir = [f \in Files |-> u]
      BY <2>1 DEF IInv, SoundReads
    <3> QED
      BY <1>4, <3>1, FoundAsIs, FileNames
  <2> QED
    BY <1>1, <1>4, <2>1, LoadForgotten
<1> QED
  BY <1>3, <1>4

\* The parts that are joined are whole once their digest is the manifest's.
LEMMA ReadPartStep ==
    ASSUME IInv, ReadPart
    PROVE  IInv'
<1> DEFINE n == Len(load.joined) + 1
           part == Parts[n]
<1>1. UNCHANGED <<dir, script, version, icon, doc, pdfs>>
  BY DEF ReadPart, vendorVars, panelVars
<1>2. /\ load.step = "parts" /\ load.outcome = None /\ load \in LoadSet
      /\ load.manifest \in Versions /\ Len(load.joined) < Len(Parts)
      /\ load.joined \in Seq(Files \X Contents)
  BY DEF ReadPart, IInv, TypeOK, Loading, LoadSet
<1>3. n \in 1..Len(Parts) /\ part \in Files
  BY <1>2, FileNames
<1> PICK v \in Found(part) :
        LET joined == Append(load.joined, <<part, v>>)
        IN  \/ /\ v = None
               /\ LoadFails
            \/ /\ v # None /\ Len(joined) < Len(Parts)
               /\ load' = [load EXCEPT !.joined = joined]
               /\ UNCHANGED <<stored, request>>
            \/ /\ v # None /\ Len(joined) = Len(Parts)
               /\ ~Matches(joined, load.manifest)
               /\ LoadFails
            \/ /\ v # None /\ Len(joined) = Len(Parts)
               /\ Matches(joined, load.manifest)
               /\ load' = [NoLoad EXCEPT !.step = "ended", !.outcome = joined]
               /\ Settle(joined)
  BY DEF ReadPart
<1> DEFINE joined == Append(load.joined, <<part, v>>)
<1>4. v \in Contents
  BY <1>3, FoundContents DEF IInv
<1>5. joined \in Seq(Files \X Contents) /\ Len(joined) = n
  BY <1>2, <1>3, <1>4
<1>6. ASSUME NEW r \in Requests, request[r].kind = "worker", request[r].step = "loading",
             request[r].sound
      PROVE  /\ script = <<>> /\ load.manifest \in Versions /\ v = load.manifest
             /\ dir = [f \in Files |-> load.manifest]
             /\ \A i \in 1..n : joined[i] = <<Parts[i], load.manifest>>
  <2>1. /\ script = <<>> /\ load.manifest \in Versions
        /\ dir = [f \in Files |-> load.manifest]
        /\ \A i \in 1..Len(load.joined) : load.joined[i] = <<Parts[i], load.manifest>>
    BY <1>2, <1>6 DEF IInv, SoundReads
  <2>2. v = load.manifest
    BY <1>3, <2>1, FoundAsIs
  <2>3. ASSUME NEW i \in 1..n PROVE joined[i] = <<Parts[i], load.manifest>>
    <3>1. CASE i = n
      BY <1>2, <2>2, <3>1
    <3>2. CASE i \in 1..Len(load.joined)
      BY <1>2, <2>1, <3>2
    <3> QED
      BY <1>2, <3>1, <3>2
  <2> QED
    BY <2>1, <2>2, <2>3
<1>7. \/ /\ LoadFails
         /\ v = None \/ (Len(joined) = Len(Parts) /\ ~Matches(joined, load.manifest))
      \/ /\ v # None /\ Len(joined) < Len(Parts) /\ load' = [load EXCEPT !.joined = joined]
         /\ UNCHANGED <<stored, request>>
      \/ /\ Matches(joined, load.manifest) /\ Settle(joined)
         /\ load' = [NoLoad EXCEPT !.step = "ended", !.outcome = joined]
  OBVIOUS
<1> HIDE DEF joined
<1>8. CASE v # None /\ Len(joined) < Len(Parts) /\ load' = [load EXCEPT !.joined = joined]
           /\ UNCHANGED <<stored, request>>
  <2>1. /\ load' \in LoadSet /\ load'.step = "parts" /\ load'.manifest = load.manifest
        /\ load'.joined = joined /\ load'.outcome = None /\ load' # NoLoad
    BY <1>2, <1>5, <1>8 DEF LoadSet, NoLoad
  <2>2. Loading'
    BY <1>2, <1>8, <2>1 DEF Loading
  <2>3. SoundReads'
    BY <1>1, <1>5, <1>6, <1>8, <2>1 DEF SoundReads
  <2> QED
    BY <1>1, <1>8, <2>1, <2>2, <2>3 DEF IInv, TypeOK
<1>9. CASE /\ LoadFails
           /\ v = None \/ (Len(joined) = Len(Parts) /\ ~Matches(joined, load.manifest))
  <2>1. ASSUME NEW r \in Requests, request[r].kind = "worker", request[r].step = "loading",
               request[r].sound
        PROVE  FALSE
    <3>1. v # None
      BY <1>6, <2>1, ServerAssumption
    <3>2. CASE Len(joined) = Len(Parts)
      <4>1. joined = [i \in 1..Len(Parts) |-> <<Parts[i], load.manifest>>]
        BY <1>5, <1>6, <2>1, <3>2
      <4> QED
        BY <1>9, <3>1, <4>1, FileNames DEF Matches, Whole
    <3> QED
      BY <1>9, <3>1, <3>2
  <2> QED
    BY <1>1, <1>9, <2>1, LoadForgotten
<1>10. CASE /\ Matches(joined, load.manifest) /\ Settle(joined)
           /\ load' = [NoLoad EXCEPT !.step = "ended", !.outcome = joined]
  <2>1. joined \in Wholes /\ joined # Failed /\ joined # None
    BY <1>2, <1>10, WholeIsNoFailure DEF Matches, Wholes
  <2>2. /\ request' \in [Requests -> RequestSet]
        /\ \A r \in Requests :
              Right(request'[r]) /\ ~(request'[r].kind = "worker" /\ request'[r].step = "loading")
        /\ stored' \in [worker : Wholes \cup {None}, icon : {"png", None},
                         pdf : [Renders -> Renders \cup {None}]]
    BY <1>10, <2>1, Settles
  <2>3. /\ load' = [step |-> "ended", manifest |-> None, joined |-> <<>>, outcome |-> joined]
        /\ load' # NoLoad
    BY <1>10, <2>1 DEF NoLoad
  <2>4. load' \in LoadSet
    BY <2>1, <2>3 DEF LoadSet
  <2>5. TypeOK'
    BY <1>1, <2>2, <2>4 DEF IInv, TypeOK
  <2>6. Loading' /\ SoundReads'
    BY <2>1, <2>2, <2>3 DEF Loading, SoundReads
  <2> QED
    BY <2>2, <2>5, <2>6 DEF IInv
<1> QED
  BY <1>7, <1>8, <1>9, <1>10

\* Another vendored file is answered with what is read of it.
LEMMA ServeFileStep ==
    ASSUME IInv, NEW r \in Requests, ServeFile(r)
    PROVE  IInv'
<1>1. UNCHANGED <<dir, script, version, load, icon, doc, pdfs, stored>>
  BY DEF ServeFile, vendorVars, panelVars
<1> DEFINE q == Asked(r, "file", "answered")
<1>2. q \in RequestSet /\ q.kind = "file" /\ q.step = "answered"
  BY Asks DEF IInv
<1> PICK v \in Found("main") :
        request' = [request EXCEPT ![r] = IF v = None THEN Refused(q, 500)
                                          ELSE [q EXCEPT !.status = 200, !.body = v]]
  BY DEF ServeFile
<1> HIDE DEF q
<1>3. PICK a \in RequestSet : /\ a.kind = "file" /\ a.step = "answered"
                             /\ request' = [request EXCEPT ![r] = a]
  <2>1. CASE v = None
    <3>1. request' = [request EXCEPT ![r] = Refused(q, 500)]
      BY <2>1
    <3>2. Refused(q, 500) \in RequestSet /\ Refused(q, 500).kind = "file"
          /\ Refused(q, 500).step = "answered"
      BY <1>2, Refuses
    <3> QED
      BY <3>1, <3>2
  <2>2. CASE v # None
    <3>1. v \in Bodies
      BY FoundContents, FileNames DEF IInv, Bodies
    <3>2. PICK ok \in Nat : ok = 200
      OBVIOUS
    <3>3. request' = [request EXCEPT ![r] = [q EXCEPT !.status = ok, !.body = v]]
      BY <2>2, <3>2
    <3>4. /\ [q EXCEPT !.status = ok, !.body = v] \in RequestSet
          /\ [q EXCEPT !.status = ok, !.body = v].kind = "file"
          /\ [q EXCEPT !.status = ok, !.body = v].step = "answered"
      BY <1>2, <3>1 DEF RequestSet
    <3> QED
      BY <3>3, <3>4
  <2> QED
    BY <2>1, <2>2
<1>4. Right(a)
  BY <1>3 DEF Right, RightWorker, RightPdf
<1>5. request' \in [Requests -> RequestSet] /\ \A x \in Requests : Right(request'[x])
  BY <1>3, <1>4, RequestChanges
<1>6. SoundReads'
  BY <1>1, <1>3, SoundUndisturbed
<1> QED
  BY <1>1, <1>5, <1>6 DEF IInv, TypeOK, Loading

\* The first that asks for the icon begins the extraction, the next wait for its end
\* or know it.
LEMMA AskIconStep ==
    ASSUME IInv, NEW r \in Requests, AskIcon(r)
    PROVE  IInv'
<1>1. UNCHANGED <<dir, script, version, load, doc, pdfs>>
  BY DEF AskIcon, vendorVars, panelVars
<1> PICK sent \in {None, stored.icon} :
        LET q == [Asked(r, "icon", "extracting") EXCEPT !.sent = sent]
            a == IconAnswer(q, icon)
        IN  \/ /\ icon \in {"none", "running"}
               /\ icon' = "running"
               /\ request' = [request EXCEPT ![r] = q]
               /\ UNCHANGED stored
            \/ /\ icon \in {"png", "absent"}
               /\ request' = [request EXCEPT ![r] = a] /\ Keeps("icon", a)
               /\ UNCHANGED icon
  BY DEF AskIcon
<1>2. PICK q : q = [Asked(r, "icon", "extracting") EXCEPT !.sent = sent]
  OBVIOUS
<1>3. q \in RequestSet /\ q.kind = "icon" /\ q.step = "extracting"
  <2>1. sent \in Bodies
    BY DEF IInv, TypeOK, Bodies, Contents
  <2>2. PICK a \in RequestSet : a = Asked(r, "icon", "extracting") /\ a.kind = "icon"
                               /\ a.step = "extracting"
    BY Asks DEF IInv
  <2> QED
    BY <1>2, <2>1, <2>2 DEF RequestSet
<1>4. PICK a \in RequestSet :
          /\ a.kind = "icon" /\ a.step \in {"extracting", "answered"}
          /\ request' = [request EXCEPT ![r] = a]
  <2>1. CASE request' = [request EXCEPT ![r] = q]
    BY <1>3, <2>1
  <2>2. CASE icon = "png" /\ request' = [request EXCEPT ![r] = IconAnswer(q, icon)]
    BY <1>3, <2>2, IconAnswers
  <2>3. CASE icon = "absent" /\ request' = [request EXCEPT ![r] = IconAnswer(q, icon)]
    BY <1>3, <2>3, IconAnswers
  <2> QED
    BY <1>2, <2>1, <2>2, <2>3
<1>5. icon' \in {"none", "running", "png", "absent"}
  BY DEF IInv, TypeOK
<1>6. stored' \in [worker : Wholes \cup {None}, icon : {"png", None},
                   pdf : [Renders -> Renders \cup {None}]]
  <2>1. CASE UNCHANGED stored
    BY <2>1 DEF IInv, TypeOK
  <2>2. CASE icon = "png" /\ Keeps("icon", IconAnswer(q, icon))
    BY <1>3, <2>2, StoredKept, IconAnswers DEF IInv
  <2>3. CASE icon = "absent" /\ Keeps("icon", IconAnswer(q, icon))
    <3>1. IconAnswer(q, icon).status # 200
      BY <1>3, <2>3, Refuses DEF IconAnswer
    <3> QED
      BY <2>3, <3>1 DEF Keeps, IInv, TypeOK
  <2> QED
    BY <1>2, <2>1, <2>2, <2>3
<1>7. request' \in [Requests -> RequestSet] /\ \A x \in Requests : Right(request'[x])
  BY <1>4, RequestChanges DEF Right, RightWorker, RightPdf
<1>8. SoundReads'
  BY <1>1, <1>4, SoundUndisturbed
<1>9. TypeOK'
  BY <1>1, <1>5, <1>6, <1>7 DEF IInv, TypeOK
<1> QED
  BY <1>1, <1>7, <1>8, <1>9 DEF IInv, Loading

\* The extractor ends with an icon or with nothing, and everybody who waits is told.
LEMMA ExtractorEndsStep ==
    ASSUME IInv, ExtractorEnds
    PROVE  IInv'
<1>1. UNCHANGED <<dir, script, version, load, doc, pdfs>> /\ icon' \in {"png", "absent"}
  BY DEF ExtractorEnds, vendorVars, panelVars
<1>2. \A r \in Requests :
          /\ request'[r] \in RequestSet /\ Right(request'[r])
          /\ request'[r].kind = "worker" => request'[r] = request[r]
  <2> SUFFICES ASSUME NEW r \in Requests
               PROVE  /\ request'[r] \in RequestSet /\ Right(request'[r])
                      /\ request'[r].kind = "worker" => request'[r] = request[r]
    OBVIOUS
  <2>1. request[r] \in RequestSet /\ Right(request[r])
    BY DEF IInv, TypeOK
  <2>2. request'[r] = IF request[r].kind = "icon" /\ request[r].step = "extracting"
                      THEN IconAnswer(request[r], icon') ELSE request[r]
    BY DEF ExtractorEnds
  <2>3. IconAnswer(request[r], icon') \in RequestSet
        /\ IconAnswer(request[r], icon').kind = request[r].kind
        /\ IconAnswer(request[r], icon').step = "answered"
    BY <1>1, <2>1, IconAnswers
  <2>4. request[r].kind = "icon" => Right(IconAnswer(request[r], icon'))
    BY <2>3 DEF Right, RightWorker, RightPdf
  <2> QED
    BY <2>1, <2>2, <2>3, <2>4
<1>3. request' = [r \in Requests |-> request'[r]]
  BY DEF ExtractorEnds
<1>4. request' \in [Requests -> RequestSet]
  BY <1>2, <1>3
<1>5. stored' \in [worker : Wholes \cup {None}, icon : {"png", None},
                   pdf : [Renders -> Renders \cup {None}]]
  BY DEF ExtractorEnds, IInv, TypeOK
<1>6. SoundReads'
  BY <1>1, <1>2 DEF IInv, SoundReads
<1> QED
  BY <1>1, <1>2, <1>4, <1>5, <1>6 DEF IInv, TypeOK, Loading

\* What changes nothing but one request that waits for no worker, the PDFs there are
\* and what the browser has of them.
LEMMA PdfStep ==
    ASSUME IInv, NEW r \in Requests, NEW q \in RequestSet, Right(q), q.kind # "worker",
           request' = [request EXCEPT ![r] = q],
           UNCHANGED <<dir, script, version, load, icon, doc>>, pdfs' \subseteq Renders,
           \/ UNCHANGED stored
           \/ \E url, body \in Renders : stored' = [stored EXCEPT !.pdf[url] = body]
    PROVE  IInv'
<1>1. request' \in [Requests -> RequestSet] /\ \A x \in Requests : Right(request'[x])
  BY RequestChanges
<1>2. SoundReads'
  BY SoundUndisturbed
<1>3. stored' \in [worker : Wholes \cup {None}, icon : {"png", None},
                   pdf : [Renders -> Renders \cup {None}]]
  BY DEF IInv, TypeOK
<1>4. TypeOK'
  BY <1>1, <1>3 DEF IInv, TypeOK
<1> QED
  BY <1>1, <1>2, <1>4 DEF IInv, Loading

\* A PDF is the browser's copy, asked of the cache, or refused at once.
LEMMA AskPdfStep ==
    ASSUME IInv, NEW r \in Requests, AskPdf(r)
    PROVE  IInv'
<1>1. UNCHANGED <<dir, script, version, load, icon, doc, pdfs, stored>>
  BY DEF AskPdf, vendorVars, panelVars
<1>2. TypeOK
  BY DEF IInv
<1> PICK url \in Renders :
        LET q == [Asked(r, "pdf", "rendering") EXCEPT !.url = url, !.found = doc]
        IN  request' = [request EXCEPT ![r] =
                IF stored.pdf[url] # None
                THEN [q EXCEPT !.step = "answered", !.status = 200,
                               !.found = None, !.body = stored.pdf[url]]
                ELSE IF doc = None THEN Refused(q, 404) ELSE q]
  BY DEF AskPdf
<1>3. PICK q : q = [Asked(r, "pdf", "rendering") EXCEPT !.url = url, !.found = doc]
  OBVIOUS
<1>4. q \in RequestSet /\ q.kind = "pdf" /\ q.step = "rendering" /\ q.found = doc
      /\ q.url = url
  <2>1. PICK a \in RequestSet : a = Asked(r, "pdf", "rendering") /\ a.kind = "pdf"
                               /\ a.step = "rendering"
    BY <1>2, Asks
  <2>2. doc \in Renders \cup {None}
    BY <1>2 DEF TypeOK
  <2> QED
    BY <1>3, <2>1, <2>2 DEF RequestSet
<1>5. CASE stored.pdf[url] # None
  <2>1. stored.pdf[url] \in Bodies
    BY <1>2, <1>5 DEF TypeOK, Bodies
  <2>2. PICK ok \in Nat, body \in Bodies : ok = 200 /\ body = stored.pdf[url]
    BY <2>1
  <2>3. PICK a : a = [q EXCEPT !.step = "answered", !.status = ok, !.found = None, !.body = body]
    OBVIOUS
  <2>4. a \in RequestSet
    BY <1>4, <2>3 DEF RequestSet
  <2>5. a.kind = "pdf" /\ a.step = "answered" /\ a.status = 200
    BY <1>4, <2>2, <2>3 DEF RequestSet
  <2>6. Right(a)
    BY <2>5 DEF Right, RightWorker, RightPdf
  <2>7. request' = [request EXCEPT ![r] = a]
    BY <1>3, <1>5, <2>2, <2>3
  <2> QED
    BY <1>1, <1>2, <2>4, <2>5, <2>6, <2>7, PdfStep DEF TypeOK
<1>6. CASE stored.pdf[url] = None /\ doc = None
  <2>1. PICK status \in Nat : status = 404
    OBVIOUS
  <2>2. PICK a \in RequestSet : /\ a = Refused(q, status) /\ a.kind = "pdf"
                               /\ a.step = "answered" /\ a.status = 404
    BY <1>4, <2>1, Refuses
  <2>3. Right(a)
    BY <2>2 DEF Right, RightWorker, RightPdf
  <2>4. request' = [request EXCEPT ![r] = a]
    BY <1>3, <1>6, <2>1, <2>2
  <2> QED
    BY <1>1, <1>2, <2>2, <2>3, <2>4, PdfStep DEF TypeOK
<1>7. CASE stored.pdf[url] = None /\ doc # None
  <2>1. Right(q)
    BY <1>2, <1>4, <1>7 DEF Right, RightWorker, RightPdf, TypeOK
  <2>2. request' = [request EXCEPT ![r] = q]
    BY <1>3, <1>7
  <2> QED
    BY <1>1, <1>2, <1>4, <2>1, <2>2, PdfStep DEF TypeOK
<1> QED
  BY <1>5, <1>6, <1>7

\* A request for a PDF that is refused before its range is known.
LEMMA RightRefusal ==
    ASSUME NEW q \in RequestSet, q.kind = "pdf"
    PROVE  /\ Refused(q, 500) \in RequestSet /\ Right(Refused(q, 500))
           /\ Refused(q, 500).kind = "pdf"
<1>1. PICK status \in Nat : status = 500
  OBVIOUS
<1>2. PICK a \in RequestSet : a = Refused(q, status) /\ a.kind = "pdf" /\ a.step = "answered"
                             /\ a.status = 500
  BY <1>1, Refuses
<1>3. Right(a)
  BY <1>2 DEF Right, RightWorker, RightPdf
<1> QED
  BY <1>1, <1>2, <1>3

\* The cache answers with a file that was there, or fails.
LEMMA CacheAnswersStep ==
    ASSUME IInv, NEW r \in Requests, CacheAnswers(r)
    PROVE  IInv'
<1>1. UNCHANGED <<dir, script, version, load, icon, doc, stored>>
  BY DEF CacheAnswers, vendorVars
<1>2. PICK q \in RequestSet : q = request[r] /\ q.kind = "pdf" /\ q.found \in Renders
                             /\ q.url \in Renders
  BY DEF CacheAnswers, IInv, TypeOK, Right, RightPdf
<1>3. pdfs \subseteq Renders
  BY DEF IInv, TypeOK
<1>4. CASE pdfs' = pdfs \cup {q.found} /\ request' = [request EXCEPT ![r].step = "stat"]
  <2>1. PICK a : a = [q EXCEPT !.step = "stat"]
    OBVIOUS
  <2>2. a \in RequestSet /\ a.kind = "pdf" /\ a.step = "stat" /\ a.found = q.found
        /\ a.url = q.url
    BY <1>2, <2>1 DEF RequestSet
  <2>3. Right(a)
    BY <1>2, <2>2 DEF Right, RightWorker, RightPdf
  <2>4. request' = [request EXCEPT ![r] = a]
    BY <1>2, <1>4, <2>1
  <2> QED
    BY <1>1, <1>2, <1>3, <1>4, <2>2, <2>3, <2>4, PdfStep
<1>5. CASE request' = [request EXCEPT ![r] = Refused(@, 500)] /\ UNCHANGED pdfs
  BY <1>1, <1>2, <1>3, <1>5, PdfStep, RightRefusal
<1> QED
  BY <1>2, <1>4, <1>5 DEF CacheAnswers

\* The head of the answer has a range of the size that was measured, or refuses.
LEMMA StatStep ==
    ASSUME IInv, NEW r \in Requests, Stat(r)
    PROVE  IInv'
<1>1. UNCHANGED <<dir, script, version, load, icon, doc, pdfs, stored>>
  BY DEF Stat, vendorVars, panelVars
<1>2. PICK q \in RequestSet : /\ q = request[r] /\ q.kind = "pdf" /\ q.found \in Renders
                             /\ q.url \in Renders /\ q.step = "stat"
  BY DEF Stat, IInv, TypeOK, Right, RightPdf
<1>3. PICK size \in Nat : size = SizeOf[q.found]
  BY <1>2, ServerAssumption
<1>4. pdfs \subseteq Renders
  BY DEF IInv, TypeOK
<1>5. CASE request' = [request EXCEPT ![r] = Refused(q, 500)]
  BY <1>1, <1>2, <1>4, <1>5, PdfStep, RightRefusal
<1>6. ASSUME NEW range \in Headers,
             range # None, ParseByteRange(range, size) = Unsatisfiable,
             request' = [request EXCEPT ![r] =
                            [Refused(q, 416) EXCEPT !.range = range, !.size = size]]
      PROVE  IInv'
  <2>1. PICK status \in Nat : status = 416
    OBVIOUS
  <2>2. PICK b \in RequestSet : /\ b = Refused(q, status) /\ b.kind = "pdf"
                               /\ b.step = "answered" /\ b.status = 416
    BY <1>2, <2>1, Refuses
  <2>3. PICK a : a = [b EXCEPT !.range = range, !.size = size]
    OBVIOUS
  <2>4. /\ a \in RequestSet /\ a.kind = "pdf" /\ a.step = "answered" /\ a.status = 416
        /\ a.range = range /\ a.size = size
    <3>1. a \in RequestSet
      BY <2>3 DEF RequestSet
    <3> QED
      BY <2>2, <2>3, <3>1 DEF RequestSet
  <2>5. Wanted(range, size) = {} \/ (range.first = None /\ range.last = Infinity)
    BY <1>6, RangeBytes
  <2>6. Right(a)
    BY <1>6, <2>4, <2>5 DEF Right, RightWorker, RightPdf
  <2>7. request' = [request EXCEPT ![r] = a]
    BY <1>6, <2>1, <2>2, <2>3
  <2>8. a.kind # "worker"
    BY <2>4
  <2> QED
    BY <1>1, <1>4, <2>4, <2>6, <2>7, <2>8, PdfStep
<1>7. ASSUME NEW range \in Headers,
             ~(range # None /\ ParseByteRange(range, size) = Unsatisfiable),
             request' = [request EXCEPT ![r] =
                            [q EXCEPT !.step = "reading", !.range = range, !.size = size,
                                      !.status = IF range = None THEN 200 ELSE 206]]
      PROVE  IInv'
  <2>1. PICK status \in Nat : status = IF range = None THEN 200 ELSE 206
    OBVIOUS
  <2>2. PICK a : a = [q EXCEPT !.step = "reading", !.range = range, !.size = size,
                               !.status = status]
    OBVIOUS
  <2>3. a \in RequestSet
    BY <2>2 DEF RequestSet
  <2>4. /\ a.kind = "pdf" /\ a.step = "reading" /\ a.found = q.found /\ a.status = status
        /\ a.url = q.url /\ a.range = range /\ a.size = size
    BY <1>2, <2>2 DEF RequestSet
  <2>5. Right(a)
    BY <1>2, <1>7, <2>1, <2>4 DEF Right, RightWorker, RightPdf
  <2>6. request' = [request EXCEPT ![r] = a]
    BY <1>7, <2>1, <2>2
  <2> QED
    BY <1>1, <1>4, <2>3, <2>4, <2>5, <2>6, PdfStep
<1> QED
  BY <1>2, <1>3, <1>5, <1>6, <1>7 DEF Stat

\* The bytes that are sent are those of the range.
LEMMA ReadStep ==
    ASSUME IInv, NEW r \in Requests, Read(r)
    PROVE  IInv'
<1>1. UNCHANGED <<dir, script, version, load, icon, doc, pdfs>>
  BY DEF Read, vendorVars, panelVars
<1>2. PICK q \in RequestSet : /\ q = request[r] /\ q.kind = "pdf" /\ q.found \in Renders
                             /\ q.url \in Renders /\ q.step = "reading" /\ Right(q)
  BY DEF Read, IInv, TypeOK, Right, RightPdf
<1>3. q.range \in Headers /\ q.size \in Nat /\ q.url \in Renders \cup {None}
  BY <1>2 DEF RequestSet
<1>4. pdfs \subseteq Renders
  BY DEF IInv, TypeOK
<1> DEFINE part == IF q.range = None THEN [start |-> 0, end |-> q.size - 1]
                   ELSE ParseByteRange(q.range, q.size)
           bytes == part.start..part.end
<1>5. CASE /\ request' = [request EXCEPT ![r].step = "answered", ![r].body = q.found,
                                         ![r].bytes = bytes]
           /\ stored' = IF q.range = None THEN [stored EXCEPT !.pdf[q.url] = q.found] ELSE stored
  <2>1. bytes \subseteq Int /\ q.found \in Bodies
    BY <1>2 DEF Bodies
  <2> HIDE DEF bytes
  <2>2. PICK a : a = [q EXCEPT !.step = "answered", !.body = q.found, !.bytes = bytes]
    OBVIOUS
  <2>3. a \in RequestSet
    BY <2>1, <2>2 DEF RequestSet
  <2>4. /\ a.kind = "pdf" /\ a.step = "answered" /\ a.status = q.status
        /\ a.range = q.range /\ a.size = q.size /\ a.bytes = bytes
    BY <1>2, <2>2 DEF RequestSet
  <2>5. request' = [request EXCEPT ![r] = a]
    <3>1. request \in [Requests -> RequestSet]
      BY DEF IInv, TypeOK
    <3> QED
      BY <1>2, <1>5, <2>2, <3>1
  <2>6. Right(a)
    <3>1. CASE q.range = None
      <4>1. q.status = 200
        BY <1>2, <3>1 DEF Right, RightPdf
      <4> QED
        BY <2>4, <4>1 DEF Right, RightWorker, RightPdf
    <3>2. CASE q.range # None
      <4>1. q.status = 206 /\ ParseByteRange(q.range, q.size) # Unsatisfiable
        BY <1>2, <3>2 DEF Right, RightPdf
      <4>2. bytes = Wanted(q.range, q.size) /\ bytes # {}
        BY <1>3, <3>2, <4>1, RangeBytes DEF bytes
      <4> QED
        BY <2>4, <4>1, <4>2 DEF Right, RightWorker, RightPdf
    <3> QED
      BY <3>1, <3>2
  <2>7. \/ UNCHANGED stored
        \/ \E url, body \in Renders : stored' = [stored EXCEPT !.pdf[url] = body]
    BY <1>2, <1>3, <1>5
  <2> QED
    BY <1>1, <1>4, <2>3, <2>4, <2>5, <2>6, <2>7, PdfStep
<1>6. CASE request' = [request EXCEPT ![r].step = "unheard"] /\ UNCHANGED stored
  <2>1. PICK a : a = [q EXCEPT !.step = "unheard"]
    OBVIOUS
  <2>2. a \in RequestSet /\ a.kind = "pdf" /\ a.step = "unheard"
    BY <1>2, <2>1 DEF RequestSet
  <2>3. Right(a)
    BY <2>2 DEF Right, RightWorker, RightPdf
  <2>4. request' = [request EXCEPT ![r] = a]
    BY <1>2, <1>6, <2>1
  <2> QED
    BY <1>1, <1>4, <1>6, <2>2, <2>3, <2>4, PdfStep
<1> QED
  BY <1>2, <1>5, <1>6 DEF Read

\* Nobody is promised a whole directory any more when the script starts.
LEMMA StartVendoringStep ==
    ASSUME IInv, StartVendoring
    PROVE  IInv'
<1>1. UNCHANGED <<dir, load, icon, doc, pdfs, stored>> /\ version' \in Versions
  BY DEF StartVendoring, panelVars
<1>2. script' \in Seq(Files \cup {"clear"})
  <2>1. <<"clear", "main">> \in Seq(Files \cup {"clear"}) /\ Parts \in Seq(Files \cup {"clear"})
        /\ <<"manifest">> \in Seq(Files \cup {"clear"})
    BY FileNames
  <2> QED
    BY <2>1 DEF StartVendoring
<1>3. \A r \in Requests :
          request'[r] \in RequestSet /\ Right(request'[r]) /\ ~request'[r].sound
  <2> SUFFICES ASSUME NEW r \in Requests
               PROVE  request'[r] \in RequestSet /\ Right(request'[r]) /\ ~request'[r].sound
    OBVIOUS
  <2>1. PICK q \in RequestSet : q = request[r] /\ Right(q)
    BY DEF IInv, TypeOK
  <2>2. PICK a : a = [q EXCEPT !.sound = FALSE]
    OBVIOUS
  <2>3. a \in RequestSet
    BY <2>2 DEF RequestSet
  <2>4. /\ ~a.sound /\ a.kind = q.kind /\ a.step = q.step /\ a.status = q.status
        /\ a.body = q.body /\ a.found = q.found /\ a.url = q.url /\ a.range = q.range
        /\ a.size = q.size /\ a.bytes = q.bytes
    BY <2>2 DEF RequestSet
  <2>5. Right(a)
    BY <2>1, <2>4 DEF Right, RightWorker, RightPdf
  <2>6. request'[r] = a
    BY <2>1, <2>2 DEF StartVendoring, Disturb
  <2> QED
    BY <2>3, <2>4, <2>5, <2>6
<1>4. request' = [r \in Requests |-> request'[r]]
  BY DEF StartVendoring, Disturb
<1>5. request' \in [Requests -> RequestSet]
  BY <1>3, <1>4
<1>6. TypeOK'
  BY <1>1, <1>2, <1>5 DEF IInv, TypeOK
<1>7. SoundReads'
  BY <1>3 DEF SoundReads
<1> QED
  BY <1>1, <1>3, <1>6, <1>7 DEF IInv, Loading

\* While the script is under way nobody was promised a whole directory.
LEMMA VendoringSteps ==
    ASSUME IInv, VendorStep \/ VendoringFails
    PROVE  IInv'
<1>1. /\ UNCHANGED <<version, load, icon, doc, pdfs, stored, request>>
      /\ script # <<>> /\ script' \in {Tail(script), <<>>}
  BY DEF VendorStep, VendoringFails, panelVars
<1>2. /\ script \in Seq(Files \cup {"clear"}) /\ version \in Versions
      /\ dir \in [Files -> Contents]
  BY <1>1 DEF IInv, TypeOK
<1>3. script' \in Seq(Files \cup {"clear"})
  <2>1. Tail(script) \in Seq(Files \cup {"clear"}) /\ <<>> \in Seq(Files \cup {"clear"})
    BY <1>1, <1>2
  <2> QED
    BY <1>1, <2>1
<1>4. Head(script) \in Files \cup {"clear"}
  BY <1>1, <1>2
<1>5. dir' \in [Files -> Contents]
  <2>1. version \in Contents /\ Torn \in Contents /\ None \in Contents
    BY <1>2 DEF Contents
  <2>2. CASE VendorStep
    BY <1>2, <1>4, <2>1, <2>2 DEF VendorStep
  <2>3. CASE VendoringFails
    BY <1>2, <1>4, <2>1, <2>3 DEF VendoringFails
  <2> QED
    BY <2>2, <2>3
<1>6. TypeOK'
  BY <1>1, <1>2, <1>3, <1>5 DEF IInv, TypeOK
<1>7. SoundReads'
  BY <1>1 DEF IInv, SoundReads
<1> QED
  BY <1>1, <1>6, <1>7 DEF IInv, Loading
-----------------------------------------------------------------------------
\* Nothing is loaded or asked.
LEMMA InitHolds == Init => IInv
<1> SUFFICES ASSUME Init PROVE IInv
  OBVIOUS
<1>1. NewRequest \in RequestSet /\ Right(NewRequest)
  <2>1. PICK zero \in Nat, none \in Bodies : zero = 0 /\ none = None
    BY DEF Bodies, Contents
  <2>2. None \in Headers
    BY DEF Headers
  <2>3. NewRequest = [kind |-> None, step |-> "idle", sound |-> FALSE, sent |-> none,
                      url |-> None, range |-> None, found |-> None, size |-> zero,
                      status |-> zero, body |-> none, bytes |-> {}]
    BY <2>1 DEF NewRequest
  <2>4. NewRequest \in RequestSet
    BY <2>1, <2>2, <2>3 DEF RequestSet
  <2>5. NewRequest.step = "idle"
    BY DEF NewRequest
  <2> QED
    BY <2>4, <2>5 DEF Right, RightWorker, RightPdf
<1>2. request \in [Requests -> RequestSet] /\ \A r \in Requests : Right(request[r])
  BY <1>1 DEF Init
<1>3. /\ load \in LoadSet /\ load.step = "none" /\ load.outcome = None
      /\ load = NoLoad
  BY DEF Init, NoLoad, LoadSet
<1>4. stored \in [worker : Wholes \cup {None}, icon : {"png", None},
                  pdf : [Renders -> Renders \cup {None}]]
  BY DEF Init
<1>5. dir \in [Files -> Contents]
  BY DEF Init, Contents
<1>6. TypeOK
  BY <1>2, <1>3, <1>4, <1>5 DEF Init, TypeOK
<1>7. Loading
  BY <1>3 DEF Loading
<1>8. SoundReads
  BY DEF Init, NewRequest, SoundReads
<1> QED
  BY <1>2, <1>6, <1>7, <1>8 DEF IInv

\* Every step of a request, a load, or another program keeps the invariant.
LEMMA NextHolds == IInv /\ [Next]_vars => IInv'
<1> SUFFICES ASSUME IInv, [Next]_vars PROVE IInv'
  OBVIOUS
<1>1. ASSUME NEW r \in Requests,
             AskWorker(r) \/ ServeFile(r) \/ AskIcon(r) \/ AskPdf(r) \/ Answers(r)
      PROVE  IInv'
  BY <1>1, AskWorkerStep, ServeFileStep, AskIconStep, AskPdfStep, CacheAnswersStep, StatStep,
     ReadStep DEF Answers
<1>2. CASE ReadManifest \/ ReadPart \/ ExtractorEnds
  BY <1>2, ReadManifestStep, ReadPartStep, ExtractorEndsStep
<1>3. CASE StartVendoring \/ VendorStep \/ VendoringFails
  BY <1>3, StartVendoringStep, VendoringSteps
<1>4. CASE Shows \/ Goes
  <2>1. /\ UNCHANGED <<dir, script, version, load, icon, stored, request>>
        /\ doc' \in Renders \cup {None} /\ pdfs' \subseteq Renders
    BY <1>4 DEF Shows, Goes, vendorVars, IInv, TypeOK
  <2> QED
    BY <2>1 DEF IInv, TypeOK, Loading, SoundReads
<1>5. CASE UNCHANGED vars
  BY <1>5 DEF vars, vendorVars, panelVars, IInv, TypeOK, Loading, SoundReads
<1> QED
  BY <1>1, <1>2, <1>3, <1>4, <1>5 DEF Next

\* The invariant holds of every state the server can be in.
LEMMA Invariant == Spec => []IInv
BY InitHolds, NextHolds, PTL DEF Spec

\* Every variable keeps to its type.
THEOREM TypeCorrect == Spec => []TypeOK
<1>1. IInv => TypeOK
  BY DEF IInv
<1> QED
  BY <1>1, Invariant, PTL

\* A page that gets a worker gets all parts of one version in their order, whatever
\* is written to the directory while they are read (loadVendoredWorker, #loadWorker).
THEOREM WorkersAreWhole == Spec => []WorkerIsWhole
<1>1. IInv => WorkerIsWhole
  BY DEF IInv, Right, RightWorker, WorkerIsWhole, Answered, Wholes
<1> QED
  BY <1>1, Invariant, PTL

\* A load that failed does not answer those who ask when the directory is whole again
\* (the rejection that forgets its promise).
THEOREM FailuresAreForgotten == Spec => []FailureIsNotRemembered
<1>1. IInv => FailureIsNotRemembered
  BY DEF IInv, Right, RightWorker, FailureIsNotRemembered, Answered
<1> QED
  BY <1>1, Invariant, PTL

\* Of a file of any size, any header that can be served gets just the bytes it asks
\* for (parseByteRange and the stream that reads them).
THEOREM RangesServed == Spec => []RangesAreExact
<1>1. IInv => RangesAreExact
  BY DEF IInv, Right, RightPdf, RangesAreExact, Answered
<1> QED
  BY <1>1, Invariant, PTL
=============================================================================

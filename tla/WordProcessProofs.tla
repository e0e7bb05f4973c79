--------------------------- MODULE WordProcessProofs ---------------------------
(***************************************************************************)
(* Proofs about WordProcess, for every set of hosts and of pids, whatever  *)
(* Words New-Object hands out, and every bound.                            *)
(*                                                                         *)
(* What makes the kills right is who the identities in memory and in the   *)
(* ledger belong to.  IInv says that, and what it rests on: a start time   *)
(* is that of one Word, a pid is that of one living host, a Word that is   *)
(* attributed to a host was started by it, or slipped through the census;  *)
(* and the file a sweep has in hand is of no host that it could have seen. *)
(***************************************************************************)
EXTENDS WordProcess, TLAPS

\* No start time is ahead of the clock, and two Words that run differ in it.
Clocked ==
    /\ \A w \in running \cup traced : w.start <= clock
    /\ \A h \in Hosts : owned[h] # None => owned[h].start <= clock
    /\ \A p \in Pids : ledger[p] # None => ledger[p].start <= clock

Distinct == \A v, w \in running : v.start = w.start => v = w

\* Hosts start in their order, and a host that lives shares its pid with none that
\* started later.
Placed ==
    /\ \A h \in Hosts : hostPid[h] = None <=> at[h] = "none"
    /\ \A g, h \in Hosts : g < h /\ at[h] # "none" => at[g] # "none"
    /\ \A g, h \in Hosts :
           Lives(h) /\ at[g] # "none" /\ g # h /\ hostPid[g] = hostPid[h] => g < h

\* The Word of a host that is attributing is its own, was counted or slipped; once
\* that is decided, and as long as it is attributed, it was not counted.
Attributed ==
    \A h \in Hosts :
        /\ at[h] \in {"none", "sweeping", "orphaned", "removing", "creating", "attributing"}
               => attribution[h] = "word_not_started"
        /\ at[h] = "attributing"
               => app[h] # None /\ (app[h].by = h \/ app[h] \in before[h] \cup slipped)
        /\ at[h] = "learning" => app[h] # None /\ owned[h] # None
        /\ at[h] \in {"learning", "registering"} \/ attribution[h] = "hwnd"
               => app[h] = None \/ app[h].by = h \/ app[h] \in slipped

\* An identity that a host holds, or wrote to the ledger, is that of a Word it
\* started, or of one that slipped or is mistaken for it, or of none that runs.
OwnedIsOwn ==
    \A h \in Hosts, w \in running :
        owned[h] = Identity(w) => w.by = h \/ w \in mistaken \cup slipped

LedgerIsOwn ==
    \A p \in Pids, w \in running :
        ledger[p] = Identity(w) =>
            \/ w \in mistaken \cup slipped
            \/ w.by \in Hosts /\ at[w.by] # "none" /\ hostPid[w.by] = p

\* A Word that was written to the ledger is known to its host as long as that lives,
\* and is in the file of its host, unless a later host has that file.
Traces ==
    \A w \in running \cap traced :
        /\ w.by \in Hosts /\ at[w.by] # "none"
        /\ Lives(w.by) => /\ at[w.by] \in {"ready", "killing"}
                          /\ owned[w.by] = Identity(w)
                          /\ app[w.by] = w \/ at[w.by] = "killing"
        /\ \/ ledger[hostPid[w.by]] = Identity(w)
           \/ \E h \in Hosts : h > w.by /\ hostPid[h] = hostPid[w.by]

\* The file that a sweep has in hand is of no living host but one that started after
\* it; and of no traced Word once the kill is over, unless a later host has the pid.
Swept ==
    \A h \in Hosts : at[h] \in {"orphaned", "removing"} =>
        /\ swept[h] \in Pids
        /\ \A g \in Hosts : Lives(g) /\ hostPid[g] = swept[h] => h < g
        /\ at[h] = "removing" =>
               \A w \in running \cap traced : hostPid[w.by] = swept[h] =>
                   \E g \in Hosts : g > w.by /\ hostPid[g] = hostPid[w.by]

Owners == Attributed /\ OwnedIsOwn /\ LedgerIsOwn /\ Traces

IInv == TypeOK /\ Clocked /\ Distinct /\ Placed /\ Owners /\ Swept
-----------------------------------------------------------------------------
(* Words and their identities.                                             *)

\* What a Word is made of; neither it nor its identity is None.
LEMMA WordParts ==
    ASSUME NEW w \in Words
    PROVE  /\ w.pid \in Pids /\ w.start \in Starts /\ w.start >= 1 /\ w.start \in Int
           /\ w.by \in Hosts \cup {User}
           /\ Identity(w) \in Identities /\ Identity(w) # None /\ w # None
           /\ Identity(w).pid = w.pid /\ Identity(w).start = w.start
  BY ProcessAssumption DEF Words, Identities, Identity, Starts

\* What an identity is made of.
LEMMA IdentityParts ==
    ASSUME NEW i \in Identities
    PROVE  i.pid \in Pids /\ i.start \in Int
  BY ProcessAssumption DEF Identities, Starts, NoStart

\* Two Words that run do not have the same identity.
LEMMA OneIdentity ==
    ASSUME IInv, NEW v \in running, NEW w \in running, Identity(v) = Identity(w)
    PROVE  v = w
<1>1. v.start = w.start
  BY DEF Identity
<1> QED
  BY <1>1 DEF IInv, Distinct

\* A host that has started has a pid.
LEMMA StartedPid ==
    ASSUME IInv, NEW h \in Hosts, at[h] # "none"
    PROVE  hostPid[h] \in Pids
<1>1. hostPid \in [Hosts -> Pids \cup {None}]
  BY DEF IInv, TypeOK
<1>2. hostPid[h] # None
  BY DEF IInv, Placed
<1> QED
  BY <1>1, <1>2

\* Initially nothing runs.
LEMMA InitHolds == Init => IInv
<1> SUFFICES ASSUME Init PROVE IInv
  OBVIOUS
<1>1. TypeOK
  BY ProcessAssumption DEF Init, TypeOK
<1>2. Clocked /\ Distinct
  BY DEF Init, Clocked, Distinct
<1>3. Placed
  BY DEF Init, Placed, Lives
<1>4. Attributed /\ OwnedIsOwn /\ LedgerIsOwn /\ Traces /\ Swept
  BY DEF Init, Attributed, OwnedIsOwn, LedgerIsOwn, Traces, Swept
<1> QED
  BY <1>1, <1>2, <1>3, <1>4 DEF IInv, Owners

\* Hosts keep their places when none of them starts, and none comes back to life.
LEMMA PlacesKept ==
    ASSUME Placed, hostPid' = hostPid,
           \A h \in Hosts : at'[h] = "none" <=> at[h] = "none",
           \A h \in Hosts : at[h] = "gone" => at'[h] = "gone"
    PROVE  Placed'
  BY DEF Placed, Lives

\* A sweep keeps its file as long as no host starts, and none writes a Word to it.
LEMMA SweptKept ==
    ASSUME IInv, UNCHANGED hostPid, \A g \in Hosts : Lives(g)' => Lives(g),
           \A g \in Hosts : at'[g] \in {"orphaned", "removing"} =>
                                at'[g] = at[g] /\ swept'[g] = swept[g],
           \A w \in (running \cap traced)' :
               w \in running \cap traced \/ \A g \in Hosts : swept[g] # hostPid[w.by]
    PROVE  Swept'
<1> SUFFICES ASSUME NEW h \in Hosts, at'[h] \in {"orphaned", "removing"}
             PROVE  /\ swept'[h] \in Pids
                    /\ \A g \in Hosts : Lives(g)' /\ hostPid[g] = swept'[h] => h < g
                    /\ at'[h] = "removing" =>
                           \A w \in (running \cap traced)' : hostPid[w.by] = swept'[h] =>
                               \E g \in Hosts : g > w.by /\ hostPid[g] = hostPid[w.by]
  BY DEF Swept, Lives
<1>1. at[h] = at'[h] /\ swept'[h] = swept[h]
  OBVIOUS
<1> QED
  BY <1>1 DEF IInv, Swept
-----------------------------------------------------------------------------
(* Words that start and end.                                               *)

\* A Word that starts has a start time nobody has.
LEMMA StartStep ==
    ASSUME IInv, NEW w \in Words, NEW o, Start(w, o)
    PROVE  /\ running' = running \cup {w} /\ running' \subseteq Words
           /\ clock' = clock + 1 /\ clock' \in 0..MaxStarts /\ clock \in Int
           /\ w.start = clock + 1 /\ w.by = o
           /\ \A v \in running : v.start # w.start /\ v.start <= clock /\ v # w
           /\ \A h \in Hosts : owned[h] # Identity(w)
           /\ \A p \in Pids : ledger[p] # Identity(w)
<1>1. /\ running' = running \cup {w} /\ clock' = clock + 1
      /\ w.start = clock + 1 /\ w.by = o /\ clock < MaxStarts
  BY DEF Start
<1>2. clock \in 0..MaxStarts /\ clock \in Int /\ running \subseteq Words
  <2>1. clock \in 0..MaxStarts /\ running \subseteq Words
    BY DEF IInv, TypeOK
  <2>2. MaxStarts \in Nat
    BY ProcessAssumption
  <2> QED
    BY <2>1, <2>2
<1>3. running' \subseteq Words /\ clock' \in 0..MaxStarts
  BY <1>1, <1>2, ProcessAssumption
<1>4. ASSUME NEW v \in running PROVE v.start # w.start /\ v.start <= clock /\ v # w
  <2>1. v.start <= clock /\ v.start \in Int
    BY <1>2, WordParts DEF IInv, Clocked
  <2> QED
    BY <2>1, <1>1, <1>2
<1>5. Identity(w) # None /\ Identity(w).start = clock + 1
  BY <1>1, WordParts
<1>6. ASSUME NEW h \in Hosts PROVE owned[h] # Identity(w)
  <2>1. owned[h] # None => owned[h].start <= clock
    BY DEF IInv, Clocked
  <2>2. CASE owned[h] = Identity(w)
    <3>1. clock + 1 <= clock
      BY <2>1, <2>2, <1>5
    <3> QED
      BY <3>1, <1>2
  <2> QED
    BY <2>2
<1>7. ASSUME NEW p \in Pids PROVE ledger[p] # Identity(w)
  <2>1. ledger[p] # None => ledger[p].start <= clock
    BY DEF IInv, Clocked
  <2>2. CASE ledger[p] = Identity(w)
    <3>1. clock + 1 <= clock
      BY <2>1, <2>2, <1>5
    <3> QED
      BY <3>1, <1>2
  <2> QED
    BY <2>2
<1> QED
  BY <1>1, <1>2, <1>3, <1>4, <1>6, <1>7

\* It is not traced.
LEMMA StartFresh ==
    ASSUME IInv, NEW w \in Words, NEW o, Start(w, o)
    PROVE  w \notin traced
<1>1. clock \in Int /\ w.start = clock + 1
  BY StartStep
<1>2. w \in traced => w.start <= clock
  BY DEF IInv, Clocked
<1> QED
  BY <1>1, <1>2

\* It leaves the start times in order, and no identity is its own.
LEMMA StartKeeps ==
    ASSUME IInv, NEW w \in Words, NEW o, Start(w, o),
           UNCHANGED <<hostPid, owned, ledger, traced, mistaken, slipped>>,
           \A h \in Hosts : at'[h] = "none" <=> at[h] = "none",
           \A h \in Hosts : at[h] \in {"ready", "killing"} => app'[h] = app[h],
           \A h \in Hosts : at[h] \in {"ready", "killing", "gone"} => at'[h] = at[h]
    PROVE  Clocked' /\ Distinct' /\ OwnedIsOwn' /\ LedgerIsOwn' /\ Traces'
<1>1. /\ clock \in Int /\ clock' = clock + 1 /\ w.start = clock + 1
      /\ running' = running \cup {w}
      /\ \A v \in running : v.start # w.start
      /\ \A h \in Hosts : owned[h] # Identity(w)
      /\ \A p \in Pids : ledger[p] # Identity(w)
  BY StartStep
<1>2. Clocked'
  <2>1. ASSUME NEW v \in (running \cup traced)' PROVE v.start <= clock'
    <3>1. CASE v = w
      BY <1>1, <3>1
    <3>2. CASE v # w
      <4>1. v.start <= clock /\ v.start \in Int
        BY <1>1, <3>2, WordParts DEF IInv, TypeOK, Clocked
      <4> QED
        BY <4>1, <1>1
    <3> QED
      BY <3>1, <3>2
  <2>2. ASSUME NEW h \in Hosts, owned[h] # None PROVE owned[h].start <= clock'
    <3>1. owned[h] \in Identities /\ owned[h].start <= clock
      BY <2>2 DEF IInv, TypeOK, Clocked
    <3> QED
      BY <3>1, <1>1, IdentityParts
  <2>3. ASSUME NEW p \in Pids, ledger[p] # None PROVE ledger[p].start <= clock'
    <3>1. ledger[p] \in Identities /\ ledger[p].start <= clock
      BY <2>3 DEF IInv, TypeOK, Clocked
    <3> QED
      BY <3>1, <1>1, IdentityParts
  <2> QED
    BY <2>1, <2>2, <2>3 DEF Clocked
<1>3. Distinct'
  BY <1>1 DEF IInv, Distinct
<1>4. OwnedIsOwn' /\ LedgerIsOwn'
  BY <1>1 DEF IInv, Owners, OwnedIsOwn, LedgerIsOwn, Identity
<1>5. Traces'
  <2>1. w \notin traced
    BY StartFresh
  <2>2. (running \cap traced)' = running \cap traced
    BY <1>1, <2>1
  <2> SUFFICES ASSUME NEW v \in running \cap traced
               PROVE  /\ v.by \in Hosts /\ at'[v.by] # "none"
                      /\ Lives(v.by)' => /\ at'[v.by] \in {"ready", "killing"}
                                         /\ owned[v.by] = Identity(v)
                                         /\ app'[v.by] = v \/ at'[v.by] = "killing"
                      /\ \/ ledger[hostPid[v.by]] = Identity(v)
                         \/ \E g \in Hosts : g > v.by /\ hostPid[g] = hostPid[v.by]
    BY <2>2 DEF Traces, Identity
  <2>3. v.by \in Hosts /\ at[v.by] # "none"
    BY DEF IInv, Owners, Traces
  <2> QED
    BY <2>3 DEF IInv, Owners, Traces, Lives
<1> QED
  BY <1>2, <1>3, <1>4, <1>5
-----------------------------------------------------------------------------
(* What an action leaves.                                                   *)

\* After a step that ends Words, and empties no file of one that runs on, everything
\* is as it was.
LEMMA EndingKeeps ==
    ASSUME IInv, running' \subseteq running, traced' \subseteq traced,
           UNCHANGED <<clock, hostPid, app, before, owned, attribution, mistaken, slipped>>,
           \A g \in Hosts : \/ at'[g] = at[g]
                           \/ {at[g], at'[g]} \subseteq {"sweeping", "orphaned", "removing"},
           \A p \in Pids : ledger'[p] \in {ledger[p], None},
           \A w \in (running \cap traced)' :
               \/ ledger'[hostPid[w.by]] = ledger[hostPid[w.by]]
               \/ \E h \in Hosts : h > w.by /\ hostPid[h] = hostPid[w.by]
    PROVE  Clocked' /\ Distinct' /\ Placed' /\ Owners'
<1>1. Clocked' /\ Distinct'
  BY DEF IInv, Clocked, Distinct
<1>2. Placed' /\ Attributed' /\ OwnedIsOwn'
  <2>1. Placed'
    BY PlacesKept DEF IInv
  <2>2. Attributed'
    BY DEF IInv, Owners, Attributed
  <2> QED
    BY <2>1, <2>2 DEF IInv, Owners, OwnedIsOwn, Identity
<1>3. LedgerIsOwn'
  <2>1. ASSUME NEW p \in Pids, NEW w \in running', ledger'[p] = Identity(w)
        PROVE  ledger[p] = Identity(w)
    <3>1. w \in Words
      BY DEF IInv, TypeOK
    <3>2. Identity(w) # None
      BY <3>1, WordParts
    <3> QED
      BY <2>1, <3>2
  <2> QED
    BY <2>1 DEF IInv, Owners, LedgerIsOwn, Identity
<1>4. Traces'
  <2> SUFFICES ASSUME NEW w \in (running \cap traced)'
               PROVE  /\ w.by \in Hosts /\ at'[w.by] # "none"
                      /\ Lives(w.by)' => /\ at'[w.by] \in {"ready", "killing"}
                                         /\ owned[w.by] = Identity(w)
                                         /\ app[w.by] = w \/ at'[w.by] = "killing"
                      /\ \/ ledger'[hostPid[w.by]] = Identity(w)
                         \/ \E h \in Hosts : h > w.by /\ hostPid[h] = hostPid[w.by]
    BY DEF Traces, Identity
  <2>1. w \in running \cap traced
    OBVIOUS
  <2>2. w.by \in Hosts /\ at[w.by] # "none" /\ at'[w.by] = at[w.by]
    BY <2>1 DEF IInv, Owners, Traces, Lives
  <2> QED
    BY <2>1, <2>2 DEF IInv, Owners, Traces, Lives
<1> QED
  BY <1>1, <1>2, <1>3, <1>4 DEF Owners

\* A step of one host that leaves the ledger is right about identities if the host
\* knows what it owns, and the Word it has in the ledger.
LEMMA HostKeeps ==
    ASSUME IInv, NEW h \in Hosts, Lives(h), at'[h] # "none",
           running' \subseteq running, traced' \subseteq traced,
           mistaken \subseteq mistaken', slipped \subseteq slipped',
           UNCHANGED <<clock, hostPid, ledger>>,
           \A g \in Hosts \ {h} : at'[g] = at[g] /\ owned'[g] = owned[g] /\ app'[g] = app[g],
           owned'[h] # None => owned'[h].start <= clock,
           \A w \in running' : owned'[h] = Identity(w) => w.by = h \/ w \in (mistaken \cup slipped)',
           \A w \in (running \cap traced)' :
               w.by = h /\ at'[h] # "gone" => /\ at'[h] \in {"ready", "killing"}
                                              /\ owned'[h] = Identity(w)
                                              /\ app'[h] = w \/ at'[h] = "killing"
    PROVE  Clocked' /\ Distinct' /\ Placed' /\ OwnedIsOwn' /\ LedgerIsOwn' /\ Traces'
<1>1. Clocked' /\ Distinct'
  BY DEF IInv, Clocked, Distinct
<1>2. Placed'
  BY PlacesKept DEF IInv, Lives
<1>3. OwnedIsOwn'
  BY DEF IInv, Owners, OwnedIsOwn, Identity
<1>4. LedgerIsOwn'
  BY DEF IInv, Owners, LedgerIsOwn, Identity, Lives
<1>5. Traces'
  <2> SUFFICES ASSUME NEW w \in (running \cap traced)'
               PROVE  /\ w.by \in Hosts /\ at'[w.by] # "none"
                      /\ Lives(w.by)' => /\ at'[w.by] \in {"ready", "killing"}
                                         /\ owned'[w.by] = Identity(w)
                                         /\ app'[w.by] = w \/ at'[w.by] = "killing"
                      /\ \/ ledger[hostPid[w.by]] = Identity(w)
                         \/ \E g \in Hosts : g > w.by /\ hostPid[g] = hostPid[w.by]
    BY DEF Traces, Identity
  <2>1. w \in running \cap traced
    OBVIOUS
  <2>2. CASE w.by = h
    BY <2>1, <2>2 DEF IInv, Owners, Traces, Lives
  <2>3. CASE w.by # h
    BY <2>1, <2>3 DEF IInv, Owners, Traces, Lives
  <2> QED
    BY <2>2, <2>3
<1> QED
  BY <1>1, <1>2, <1>3, <1>4, <1>5

\* What hosts do is kept as a record of a known kind.
LEMMA DidType ==
    ASSUME TypeOK, NEW h \in Hosts, NEW W \in SUBSET Words,
           NEW what \in {"hide", "quit", "quit blindly", "kill"}, Did(what, h, W)
    PROVE  deeds' \subseteq [what : {"hide", "quit", "quit blindly", "kill"},
                             host : Hosts, word : Words]
<1> DEFINE Deeds == [what : {"hide", "quit", "quit blindly", "kill"}, host : Hosts, word : Words]
<1>1. [what : {what}, host : {h}, word : {w \in W : w.by # h}] \subseteq Deeds
  OBVIOUS
<1>2. deeds \subseteq Deeds
  BY DEF TypeOK
<1> QED
  BY <1>1, <1>2 DEF Did

\* Stop-VerifiedWord leaves no Word of that identity running and traced, and kills
\* none but that.
LEMMA StopStep ==
    ASSUME IInv, NEW h \in Hosts, NEW id, StopVerifiedWord(h, id)
    PROVE  /\ running' \subseteq running /\ traced' \subseteq traced
           /\ \A w \in (running \cap traced)' : Identity(w) # id
           /\ deeds' \subseteq [what : {"hide", "quit", "quit blindly", "kill"},
                                host : Hosts, word : Words]
           /\ \A d \in deeds' \ deeds :
                  d.what = "kill" /\ d.word \in running /\ Identity(d.word) = id
                  /\ d.word.by # h /\ d.host = h
<1>1. Target(id) \subseteq running /\ running \subseteq Words /\ TypeOK
  BY DEF IInv, TypeOK, Target
<1>2. CASE running' = running \ Target(id) /\ Did("kill", h, Target(id)) /\ traced' = traced
  <2>1. deeds' \subseteq [what : {"hide", "quit", "quit blindly", "kill"},
                          host : Hosts, word : Words]
    BY <1>1, <1>2, DidType
  <2>2. \A d \in deeds' \ deeds :
            d.what = "kill" /\ d.word \in Target(id) /\ d.word.by # h /\ d.host = h
    BY <1>2 DEF Did
  <2> QED
    BY <1>2, <2>1, <2>2 DEF Target
<1>3. CASE traced' = traced \ Target(id) /\ running' = running /\ deeds' = deeds
  BY <1>1, <1>3 DEF Target, TypeOK
<1> QED
  BY <1>2, <1>3 DEF StopVerifiedWord
-----------------------------------------------------------------------------
(* One lemma for each action.                                              *)

\* A Word that the user starts is nobody's.
LEMMA UserStartsStep == IInv /\ UserStartsWord => IInv'
<1> SUFFICES ASSUME IInv, NEW w \in Words, Start(w, User),
                    UNCHANGED <<hostVars, ledger, history>>
             PROVE  IInv'
  BY DEF UserStartsWord
<1>1. running' = running \cup {w} /\ running' \subseteq Words /\ clock' \in 0..MaxStarts
  BY StartStep
<1>2. TypeOK'
  BY <1>1 DEF IInv, TypeOK, hostVars, history
<1>3. Clocked' /\ Distinct' /\ OwnedIsOwn' /\ LedgerIsOwn' /\ Traces'
  BY StartKeeps DEF hostVars, history
<1>4. Placed' /\ Attributed'
  BY DEF IInv, Owners, Placed, Lives, Attributed, hostVars, history
<1>5. Swept'
  <2>1. \A v \in (running \cap traced)' : v \in running \cap traced
    <3>1. w \notin traced
      BY StartFresh
    <3> QED
      BY <1>1, <3>1 DEF history
  <2> QED
    BY <2>1, SweptKept DEF hostVars, Lives
<1> QED
  BY <1>2, <1>3, <1>4, <1>5 DEF IInv, Owners

\* A Word that ends takes nothing along.
LEMMA WordEndsStep ==
    ASSUME IInv, NEW w \in running, WordEnds(w)
    PROVE  IInv'
<1>1. TypeOK'
  BY DEF IInv, TypeOK, WordEnds, hostVars, history
<1>2. Clocked' /\ Distinct' /\ Placed' /\ Owners'
  BY EndingKeeps DEF WordEnds, hostVars, history
<1>3. Swept'
  BY SweptKept DEF WordEnds, hostVars, history, Lives
<1> QED
  BY <1>1, <1>2, <1>3 DEF IInv

\* A host that starts comes after all that have, and has the pid of none that lives.
LEMMA StartHostStep ==
    ASSUME IInv, NEW h \in Hosts, StartHost(h)
    PROVE  IInv'
<1> PICK p \in Pids \ Alive : hostPid' = [hostPid EXCEPT ![h] = p]
  BY DEF StartHost
<1>1. TypeOK'
  BY DEF IInv, TypeOK, StartHost, Go, history
<1>2. Clocked' /\ Distinct'
  BY DEF IInv, Clocked, Distinct, StartHost, history
<1>3. \A g \in Hosts : g # h => at'[g] = at[g] /\ hostPid'[g] = hostPid[g]
  BY DEF IInv, TypeOK, StartHost, Go
<1>4. at[h] = "none" /\ at'[h] = "sweeping" /\ hostPid'[h] = p /\ p # None
  BY ProcessAssumption DEF IInv, TypeOK, StartHost, Go
<1>5. Placed'
  <2>1. \A g \in Hosts : hostPid'[g] = None <=> at'[g] = "none"
    BY <1>3, <1>4 DEF IInv, Placed
  <2>2. \A g \in Hosts : at[g] # "none" => g < h
    <3>1. \A g \in Hosts : h < g => at[g] = "none"
      BY <1>4 DEF IInv, Placed
    <3>2. \A g \in Hosts : g < h \/ g = h \/ h < g
      BY ProcessAssumption
    <3> QED
      BY <3>1, <3>2, <1>4
  <2>3. \A f, g \in Hosts : f < g /\ at'[g] # "none" => at'[f] # "none"
    <3>1. \A g \in Hosts : g < h => at[g] # "none"
      BY DEF StartHost
    <3> QED
      BY <3>1, <1>3, <1>4 DEF IInv, Placed
  <2>4. ASSUME NEW f \in Hosts, NEW g \in Hosts, Lives(g)', at'[f] # "none", f # g,
               hostPid'[f] = hostPid'[g]
        PROVE  f < g
    <3>1. CASE g = h
      BY <3>1, <2>2, <2>4, <1>3
    <3>2. CASE f = h
      <4>1. Lives(g) /\ hostPid[g] = p
        BY <3>2, <2>4, <1>3, <1>4 DEF Lives
      <4> QED
        BY <4>1 DEF Alive
    <3>3. CASE f # h /\ g # h
      BY <3>3, <2>4, <1>3 DEF IInv, Placed, Lives
    <3> QED
      BY <3>1, <3>2, <3>3
  <2> QED
    BY <2>1, <2>3, <2>4 DEF Placed
<1>6. Attributed'
  BY <1>3, <1>4 DEF IInv, Owners, Attributed, StartHost, history
<1>7. OwnedIsOwn' /\ LedgerIsOwn'
  <2>1. OwnedIsOwn'
    BY DEF IInv, Owners, OwnedIsOwn, Identity, StartHost, history
  <2>2. LedgerIsOwn'
    BY <1>3, <1>4 DEF IInv, Owners, LedgerIsOwn, Identity, StartHost, history
  <2> QED
    BY <2>1, <2>2
<1>8. Traces'
  <2> SUFFICES ASSUME NEW w \in running \cap traced
               PROVE  /\ w.by \in Hosts /\ at'[w.by] # "none"
                      /\ Lives(w.by)' => /\ at'[w.by] \in {"ready", "killing"}
                                         /\ owned[w.by] = Identity(w)
                                         /\ app[w.by] = w \/ at'[w.by] = "killing"
                      /\ \/ ledger[hostPid'[w.by]] = Identity(w)
                         \/ \E g \in Hosts : g > w.by /\ hostPid'[g] = hostPid'[w.by]
    BY DEF Traces, Identity, StartHost, history
  <2>1. w.by \in Hosts /\ at[w.by] # "none" /\ w.by # h
    BY <1>4 DEF IInv, Owners, Traces
  <2>2. hostPid[w.by] \in Pids /\ hostPid[h] = None
    BY <2>1, <1>4, StartedPid DEF IInv, Placed
  <2>3. ASSUME NEW g \in Hosts, g > w.by, hostPid[g] = hostPid[w.by]
        PROVE  hostPid'[g] = hostPid'[w.by]
    BY <2>1, <2>2, <2>3, <1>3, ProcessAssumption
  <2> QED
    BY <2>1, <2>3, <1>3 DEF IInv, Owners, Traces, Lives
<1>9. Swept'
  <2> SUFFICES ASSUME NEW f \in Hosts, at'[f] \in {"orphaned", "removing"}
               PROVE  /\ swept[f] \in Pids
                      /\ \A g \in Hosts : Lives(g)' /\ hostPid'[g] = swept[f] => f < g
                      /\ at'[f] = "removing" =>
                             \A w \in running \cap traced : hostPid'[w.by] = swept[f] =>
                                 \E g \in Hosts : g > w.by /\ hostPid'[g] = hostPid'[w.by]
    BY DEF Swept, Lives, StartHost, history
  <2>1. f # h /\ at[f] = at'[f] /\ swept[f] \in Pids
    BY <1>3, <1>4 DEF IInv, Swept
  <2>2. ASSUME NEW g \in Hosts, Lives(g)', hostPid'[g] = swept[f] PROVE f < g
    <3>1. CASE g = h
      <4>1. \A e \in Hosts : h < e => at[e] = "none"
        BY <1>4 DEF IInv, Placed
      <4>2. f < h \/ f = h \/ h < f
        BY ProcessAssumption
      <4> QED
        BY <2>1, <3>1, <4>1, <4>2
    <3>2. CASE g # h
      BY <2>1, <2>2, <3>2, <1>3 DEF IInv, Swept, Lives
    <3> QED
      BY <3>1, <3>2
  <2>3. ASSUME at'[f] = "removing", NEW w \in running \cap traced, hostPid'[w.by] = swept[f]
        PROVE  \E g \in Hosts : g > w.by /\ hostPid'[g] = hostPid'[w.by]
    <3>1. w.by \in Hosts /\ at[w.by] # "none" /\ w.by # h /\ hostPid'[w.by] = hostPid[w.by]
      BY <1>3, <1>4 DEF IInv, Owners, Traces
    <3>2. PICK g \in Hosts : g > w.by /\ hostPid[g] = hostPid[w.by]
      BY <2>1, <2>3, <3>1 DEF IInv, Swept
    <3>3. g # h
      BY <3>1, <3>2, <1>4, StartedPid, ProcessAssumption DEF IInv, Placed
    <3> QED
      BY <3>1, <3>2, <3>3, <1>3
  <2> QED
    BY <2>1, <2>2, <2>3
<1> QED
  BY <1>1, <1>2, <1>5, <1>6, <1>7, <1>8, <1>9 DEF IInv, Owners

\* A sweep takes a file in hand only when no host lives that has the pid.
LEMMA SweepFindsStep ==
    ASSUME IInv, NEW h \in Hosts, SweepFinds(h)
    PROVE  IInv'
<1> PICK p \in todo[h] :
        /\ todo' = [todo EXCEPT ![h] = @ \ {p}]
        /\ \/ p \in Alive /\ UNCHANGED <<at, swept>>
           \/ p \notin Alive /\ swept' = [swept EXCEPT ![h] = p] /\ Go(h, "orphaned")
  BY DEF SweepFinds
<1>1. /\ at[h] = "sweeping" /\ p \in Pids
      /\ UNCHANGED <<running, clock, hostPid, app, before, owned, attribution, ledger, deeds,
                     traced, mistaken, slipped>>
  BY DEF IInv, TypeOK, SweepFinds, history
<1>2. TypeOK'
  <2>1. todo' \in [Hosts -> SUBSET Pids]
    BY DEF IInv, TypeOK
  <2>2. swept' \in [Hosts -> Pids \cup {None}]
    BY <1>1 DEF IInv, TypeOK
  <2>3. at' \in [Hosts -> {"none", "sweeping", "orphaned", "removing", "ready", "creating",
                           "attributing", "learning", "registering", "killing",
                           "unregistering", "gone"}]
    BY DEF IInv, TypeOK, Go
  <2> QED
    BY <1>1, <2>1, <2>2, <2>3 DEF IInv, TypeOK
<1>3. \A g \in Hosts \ {h} : at'[g] = at[g] /\ swept'[g] = swept[g]
  BY DEF IInv, TypeOK, Go
<1>4. \/ at' = at /\ swept' = swept
      \/ p \notin Alive /\ at'[h] = "orphaned" /\ swept'[h] = p
  BY DEF IInv, TypeOK, Go
<1>5. Clocked' /\ Distinct' /\ Placed' /\ Owners'
  BY <1>1, <1>3, <1>4, EndingKeeps
<1>6. Swept'
  <2> SUFFICES ASSUME NEW f \in Hosts, at'[f] \in {"orphaned", "removing"}
               PROVE  /\ swept'[f] \in Pids
                      /\ \A g \in Hosts : Lives(g)' /\ hostPid[g] = swept'[f] => f < g
                      /\ at'[f] = "removing" =>
                             \A w \in running \cap traced : hostPid[w.by] = swept'[f] =>
                                 \E g \in Hosts : g > w.by /\ hostPid[g] = hostPid[w.by]
    BY <1>1 DEF Swept, Lives
  <2>1. \A g \in Hosts : Lives(g)' => Lives(g)
    BY <1>1, <1>3 DEF Lives
  <2>2. CASE at'[f] = at[f] /\ swept'[f] = swept[f]
    BY <2>1, <2>2 DEF IInv, Swept
  <2>3. CASE f = h /\ p \notin Alive /\ at'[h] = "orphaned" /\ swept'[h] = p
    BY <2>1, <2>3, <1>1 DEF Alive
  <2> QED
    BY <2>2, <2>3, <1>3, <1>4
<1> QED
  BY <1>2, <1>5, <1>6 DEF IInv

\* Once the kill is over no Word in the file is traced and runs.
LEMMA SweepStopsStep ==
    ASSUME IInv, NEW h \in Hosts, SweepStops(h)
    PROVE  IInv'
<1>1. /\ at[h] = "orphaned" /\ swept[h] \in Pids
      /\ UNCHANGED <<clock, hostPid, todo, swept, app, before, owned, attribution, ledger,
                     mistaken, slipped>>
  BY DEF IInv, Swept, SweepStops
<1>2. at'[h] = "removing" /\ \A g \in Hosts \ {h} : at'[g] = at[g]
  BY DEF IInv, TypeOK, SweepStops, Go
<1>3. /\ running' \subseteq running /\ traced' \subseteq traced
      /\ \A w \in (running \cap traced)' : Identity(w) # ledger[swept[h]]
      /\ deeds' \subseteq [what : {"hide", "quit", "quit blindly", "kill"},
                           host : Hosts, word : Words]
  <2>1. CASE ledger[swept[h]] = None /\ UNCHANGED <<running, deeds, traced>>
    <3>1. \A w \in running : Identity(w) # None
      BY WordParts DEF IInv, TypeOK
    <3> QED
      BY <2>1, <3>1 DEF IInv, TypeOK
  <2>2. CASE StopVerifiedWord(h, ledger[swept[h]])
    BY <2>2, StopStep
  <2> QED
    BY <2>1, <2>2 DEF SweepStops
<1>4. TypeOK'
  BY <1>1, <1>3 DEF IInv, TypeOK, SweepStops, Go
<1>5. Clocked' /\ Distinct' /\ Placed' /\ Owners'
  BY <1>1, <1>2, <1>3, EndingKeeps
<1>6. Swept'
  <2> SUFFICES ASSUME NEW f \in Hosts, at'[f] \in {"orphaned", "removing"}
               PROVE  /\ swept[f] \in Pids
                      /\ \A g \in Hosts : Lives(g)' /\ hostPid[g] = swept[f] => f < g
                      /\ at'[f] = "removing" =>
                             \A w \in (running \cap traced)' : hostPid[w.by] = swept[f] =>
                                 \E g \in Hosts : g > w.by /\ hostPid[g] = hostPid[w.by]
    BY <1>1 DEF Swept, Lives
  <2>1. at[f] \in {"orphaned", "removing"} /\ \A g \in Hosts : Lives(g)' => Lives(g)
    BY <1>1, <1>2 DEF Lives
  <2>2. ASSUME NEW w \in (running \cap traced)', hostPid[w.by] = swept[h]
        PROVE  \E g \in Hosts : g > w.by /\ hostPid[g] = hostPid[w.by]
    <3>1. w \in running \cap traced /\ Identity(w) # ledger[hostPid[w.by]]
      BY <1>3, <2>2
    <3> QED
      BY <3>1 DEF IInv, Owners, Traces
  <2>3. CASE f = h
    BY <2>1, <2>2, <2>3 DEF IInv, Swept
  <2>4. CASE f # h
    BY <2>1, <2>4, <1>2, <1>3 DEF IInv, Swept
  <2> QED
    BY <2>3, <2>4
<1> QED
  BY <1>4, <1>5, <1>6 DEF IInv

\* A file that is removed was of no Word that is traced, or of one whose file another
\* host has by now.
LEMMA SweepRemovesStep ==
    ASSUME IInv, NEW h \in Hosts, SweepRemoves(h)
    PROVE  IInv'
<1>1. /\ at[h] = "removing" /\ swept[h] \in Pids
      /\ UNCHANGED <<running, clock, hostPid, todo, app, before, owned, attribution, deeds,
                     traced, mistaken, slipped>>
  BY DEF IInv, Swept, SweepRemoves, history
<1>2. at'[h] = "sweeping" /\ \A g \in Hosts \ {h} : at'[g] = at[g] /\ swept'[g] = swept[g]
  BY DEF IInv, TypeOK, SweepRemoves, Go
<1>3. /\ ledger' \in [Pids -> Identities \cup {None}]
      /\ \A q \in Pids : ledger'[q] = ledger[q] \/ (q = swept[h] /\ ledger'[q] = None)
  BY <1>1 DEF IInv, TypeOK, SweepRemoves
<1>4. TypeOK'
  <2>1. swept' \in [Hosts -> Pids \cup {None}] /\ at' \in
            [Hosts -> {"none", "sweeping", "orphaned", "removing", "ready", "creating",
                       "attributing", "learning", "registering", "killing",
                       "unregistering", "gone"}]
    BY DEF IInv, TypeOK, SweepRemoves, Go
  <2> QED
    BY <1>1, <1>3, <2>1 DEF IInv, TypeOK
<1>5. ASSUME NEW w \in running \cap traced
      PROVE  \/ ledger'[hostPid[w.by]] = ledger[hostPid[w.by]]
             \/ \E g \in Hosts : g > w.by /\ hostPid[g] = hostPid[w.by]
  <2>1. hostPid[w.by] \in Pids
    BY StartedPid DEF IInv, Owners, Traces
  <2>2. CASE hostPid[w.by] = swept[h]
    BY <1>1, <2>2 DEF IInv, Swept
  <2> QED
    BY <2>1, <2>2, <1>3
<1>6. Clocked' /\ Distinct' /\ Placed' /\ Owners'
  BY <1>1, <1>2, <1>3, <1>5, EndingKeeps
<1>7. Swept'
  BY <1>1, <1>2, SweptKept DEF Lives
<1> QED
  BY <1>4, <1>6, <1>7 DEF IInv

\* A host has no Word before its sweep is over.
LEMMA SweepEndsStep ==
    ASSUME IInv, NEW h \in Hosts, SweepEnds(h)
    PROVE  IInv'
<1>1. TypeOK'
  BY DEF IInv, TypeOK, SweepEnds, Go, history
<1>2. /\ at[h] = "sweeping" /\ at'[h] = "ready"
      /\ \A g \in Hosts \ {h} : at'[g] = at[g]
  BY DEF IInv, TypeOK, SweepEnds, Go
<1>3. UNCHANGED <<running, clock, hostPid, app, before, owned, attribution, ledger, traced,
                  mistaken, slipped, swept>>
  BY DEF SweepEnds, history
<1>4. \A w \in running \cap traced : w.by # h
  BY <1>2 DEF IInv, Owners, Traces, Lives
<1>5. owned[h] # None => owned[h].start <= clock
  BY DEF IInv, Clocked
<1>6. \A w \in running : owned[h] = Identity(w) => w.by = h \/ w \in mistaken \cup slipped
  BY DEF IInv, Owners, OwnedIsOwn
<1>7. Clocked' /\ Distinct' /\ Placed' /\ OwnedIsOwn' /\ LedgerIsOwn' /\ Traces'
  BY <1>2, <1>3, <1>4, <1>5, <1>6, HostKeeps DEF Lives
<1>8. Attributed'
  BY <1>2, <1>3 DEF IInv, Owners, Attributed
<1>9. Swept'
  BY <1>2, <1>3, SweptKept DEF Lives
<1> QED
  BY <1>1, <1>7, <1>8, <1>9 DEF IInv, Owners

\* A host that drops the Word it had has none that is traced.
LEMMA InitializeWordStep ==
    ASSUME IInv, NEW h \in Hosts, InitializeWord(h)
    PROVE  IInv'
<1>1. TypeOK'
  BY DEF IInv, TypeOK, InitializeWord, Go, history
<1>2. /\ at[h] = "ready" /\ at'[h] = "creating" /\ owned'[h] = None
      /\ attribution'[h] = "word_not_started" /\ app'[h] = None
      /\ \A g \in Hosts \ {h} :
             at'[g] = at[g] /\ owned'[g] = owned[g] /\ app'[g] = app[g]
             /\ attribution'[g] = attribution[g] /\ before'[g] = before[g]
  BY DEF IInv, TypeOK, InitializeWord, Go
<1>3. UNCHANGED <<running, clock, hostPid, swept, ledger, mistaken, slipped>>
      /\ traced' = traced \ {app[h]}
  BY DEF InitializeWord
<1>4. \A w \in (running \cap traced)' : w \in running \cap traced /\ w.by # h
  BY <1>2, <1>3 DEF IInv, Owners, Traces, Lives
<1>5. \A w \in running : Identity(w) # None
  BY WordParts DEF IInv, TypeOK
<1>6. Clocked' /\ Distinct' /\ Placed' /\ OwnedIsOwn' /\ LedgerIsOwn' /\ Traces'
  BY <1>2, <1>3, <1>4, <1>5, HostKeeps DEF Lives
<1>7. Attributed'
  BY <1>2, <1>3 DEF IInv, Owners, Attributed
<1>8. Swept'
  BY <1>2, <1>3, <1>4, SweptKept DEF Lives
<1> QED
  BY <1>1, <1>6, <1>7, <1>8 DEF IInv, Owners

\* A Word that New-Object starts is the host's; one it hands out was counted, or slipped.
LEMMA CreateWordStep ==
    ASSUME IInv, NEW h \in Hosts, CreateWord(h)
    PROVE  IInv'
<1>1. /\ at[h] = "creating" /\ attribution[h] = "word_not_started"
      /\ UNCHANGED <<hostPid, todo, swept, before, owned, attribution, ledger, deeds, traced,
                     mistaken>>
  BY DEF IInv, Owners, Attributed, CreateWord
<1>2. \A w \in running \cap traced : w.by # h
  BY <1>1 DEF IInv, Owners, Traces, Lives
<1>3. owned[h] # None => owned[h].start <= clock
  BY DEF IInv, Clocked
<1>4. \A w \in running : owned[h] = Identity(w) => w.by = h \/ w \in mistaken \cup slipped
  BY DEF IInv, Owners, OwnedIsOwn
<1>5. CASE \E w \in Words : /\ Start(w, h) /\ app' = [app EXCEPT ![h] = w]
                          /\ Go(h, "attributing") /\ UNCHANGED slipped
  <2> PICK w \in Words : /\ Start(w, h) /\ app' = [app EXCEPT ![h] = w]
                        /\ Go(h, "attributing") /\ UNCHANGED slipped
    BY <1>5
  <2>1. running' \subseteq Words /\ clock' \in 0..MaxStarts /\ w.by = h
    BY StartStep
  <2>2. TypeOK'
    BY <1>1, <2>1 DEF IInv, TypeOK, Go
  <2>3. /\ at'[h] = "attributing" /\ app'[h] = w /\ w # None
        /\ \A g \in Hosts \ {h} : at'[g] = at[g] /\ app'[g] = app[g]
    BY WordParts DEF IInv, TypeOK, Go
  <2>4. Clocked' /\ Distinct' /\ OwnedIsOwn' /\ LedgerIsOwn' /\ Traces'
    BY <1>1, <2>3, StartKeeps
  <2>5. Placed'
    BY <1>1, <2>3, PlacesKept DEF IInv
  <2>6. Attributed'
    BY <1>1, <2>1, <2>3 DEF IInv, Owners, Attributed
  <2>7. Swept'
    <3>1. \A v \in (running \cap traced)' : v \in running \cap traced
      BY <1>1, StartFresh, StartStep
    <3> QED
      BY <1>1, <2>3, <3>1, SweptKept DEF Lives
  <2> QED
    BY <2>2, <2>4, <2>5, <2>6, <2>7 DEF IInv, Owners
<1>6. CASE \E w \in running : /\ app' = [app EXCEPT ![h] = w]
                            /\ slipped' = slipped \cup ({w} \ before[h])
                            /\ Go(h, "attributing") /\ UNCHANGED <<running, clock>>
  <2> PICK w \in running : /\ app' = [app EXCEPT ![h] = w]
                          /\ slipped' = slipped \cup ({w} \ before[h])
                          /\ Go(h, "attributing") /\ UNCHANGED <<running, clock>>
    BY <1>6
  <2>1. w \in Words
    BY DEF IInv, TypeOK
  <2>2. TypeOK'
    BY <1>1, <2>1 DEF IInv, TypeOK, Go
  <2>3. /\ at'[h] = "attributing" /\ app'[h] = w /\ w # None
        /\ \A g \in Hosts \ {h} : at'[g] = at[g] /\ app'[g] = app[g]
    BY <2>1, WordParts DEF IInv, TypeOK, Go
  <2>4. Clocked' /\ Distinct' /\ Placed' /\ OwnedIsOwn' /\ LedgerIsOwn' /\ Traces'
    BY <1>1, <1>2, <1>3, <1>4, <2>3, HostKeeps DEF Lives
  <2>5. Attributed'
    BY <1>1, <2>3 DEF IInv, Owners, Attributed
  <2>6. Swept'
    BY <1>1, <2>3, SweptKept DEF Lives
  <2> QED
    BY <2>2, <2>4, <2>5, <2>6 DEF IInv, Owners
<1>7. CASE Go(h, "ready") /\ UNCHANGED <<running, clock, app, slipped>>
  <2>1. TypeOK'
    BY <1>1, <1>7 DEF IInv, TypeOK, Go
  <2>2. at'[h] = "ready" /\ \A g \in Hosts \ {h} : at'[g] = at[g]
    BY <1>7 DEF IInv, TypeOK, Go
  <2>3. Clocked' /\ Distinct' /\ Placed' /\ OwnedIsOwn' /\ LedgerIsOwn' /\ Traces'
    BY <1>1, <1>2, <1>3, <1>4, <1>7, <2>2, HostKeeps DEF Lives
  <2>4. Attributed'
    BY <1>1, <1>7, <2>2 DEF IInv, Owners, Attributed
  <2>5. Swept'
    BY <1>1, <1>7, <2>2, SweptKept DEF Lives
  <2> QED
    BY <2>1, <2>3, <2>4, <2>5 DEF IInv, Owners
<1> QED
  BY <1>5, <1>6, <1>7 DEF CreateWord

\* The census tells a Word that the host started from one that was handed out.
LEMMA AttributeStep ==
    ASSUME IInv, NEW h \in Hosts, Attribute(h)
    PROVE  IInv'
<1>1. /\ at[h] = "attributing" /\ attribution[h] = "word_not_started"
      /\ app[h] \in Words /\ (app[h].by = h \/ app[h] \in before[h] \cup slipped)
      /\ UNCHANGED <<running, clock, hostPid, todo, swept, app, ledger, history>>
  BY DEF IInv, TypeOK, Owners, Attributed, Attribute
<1>2. \A w \in running \cap traced : w.by # h
  BY <1>1 DEF IInv, Owners, Traces, Lives
<1>3. before' \in [Hosts -> SUBSET Words]
  BY DEF IInv, TypeOK, Attribute
<1>4. CASE /\ attribution'[h] \in {"unattributed", "attached"}
           /\ attribution' = [attribution EXCEPT ![h] = attribution'[h]]
           /\ Go(h, "ready") /\ owned' = owned
  <2>1. TypeOK'
    BY <1>1, <1>3, <1>4 DEF IInv, TypeOK, Go, history
  <2>2. /\ at'[h] = "ready"
        /\ \A g \in Hosts \ {h} :
               at'[g] = at[g] /\ attribution'[g] = attribution[g] /\ before'[g] = before[g]
    BY <1>4 DEF IInv, TypeOK, Go, Attribute
  <2>3. owned[h] # None => owned[h].start <= clock
    BY DEF IInv, Clocked
  <2>4. \A w \in running : owned[h] = Identity(w) => w.by = h \/ w \in mistaken \cup slipped
    BY DEF IInv, Owners, OwnedIsOwn
  <2>5. Clocked' /\ Distinct' /\ Placed' /\ OwnedIsOwn' /\ LedgerIsOwn' /\ Traces'
    BY <1>1, <1>2, <1>4, <2>2, <2>3, <2>4, HostKeeps DEF Lives, history
  <2>6. Attributed'
    BY <1>1, <1>4, <2>2 DEF IInv, Owners, Attributed, history
  <2>7. Swept'
    BY <1>1, <2>2, SweptKept DEF Lives, history
  <2> QED
    BY <2>1, <2>5, <2>6, <2>7 DEF IInv, Owners
<1>5. CASE /\ ~\E w \in before[h] : w.pid = app[h].pid
           /\ owned' = [owned EXCEPT ![h] = [pid |-> app[h].pid, start |-> NoStart]]
           /\ Go(h, "learning") /\ attribution' = attribution
  <2> DEFINE id == [pid |-> app[h].pid, start |-> NoStart]
  <2>1. id \in Identities /\ id # None /\ id.start = 0
    BY <1>1, WordParts, ProcessAssumption DEF Identities, NoStart
  <2>2. TypeOK'
    BY <1>1, <1>3, <1>5, <2>1 DEF IInv, TypeOK, Go, history
  <2>3. /\ at'[h] = "learning" /\ owned'[h] = id
        /\ \A g \in Hosts \ {h} :
               at'[g] = at[g] /\ owned'[g] = owned[g] /\ before'[g] = before[g]
    BY <1>5 DEF IInv, TypeOK, Go, Attribute
  <2>4. (app[h].by = h \/ app[h] \in slipped) /\ app[h] # None
    BY <1>1, <1>5, WordParts
  <2>5. clock \in 0..MaxStarts /\ MaxStarts \in Nat
    BY ProcessAssumption DEF IInv, TypeOK
  <2>6. \A w \in running : Identity(w) # id
    <3> SUFFICES ASSUME NEW w \in running PROVE Identity(w) # id
      OBVIOUS
    <3>1. w \in Words
      BY DEF IInv, TypeOK
    <3>2. Identity(w).start >= 1
      BY <3>1, WordParts
    <3> QED
      BY <3>2, <2>1
  <2>7. Clocked' /\ Distinct' /\ Placed' /\ OwnedIsOwn' /\ LedgerIsOwn' /\ Traces'
    <3>1. owned'[h].start <= clock
      BY <2>1, <2>3, <2>5
    <3> QED
      BY <1>1, <1>2, <2>3, <2>6, <3>1, HostKeeps DEF Lives, history
  <2>8. Attributed'
    BY <1>1, <1>5, <2>1, <2>3, <2>4 DEF IInv, Owners, Attributed, history
  <2>9. Swept'
    BY <1>1, <2>3, SweptKept DEF Lives, history
  <2> QED
    BY <2>2, <2>7, <2>8, <2>9 DEF IInv, Owners
<1> QED
  <2>1. attribution \in [Hosts -> {"word_not_started", "unattributed", "attached", "hwnd"}]
    BY DEF IInv, TypeOK
  <2>2. ASSUME NEW how, attribution' = [attribution EXCEPT ![h] = how]
        PROVE  attribution'[h] = how
    BY <2>1, <2>2
  <2>3. CASE attribution' = [attribution EXCEPT ![h] = "unattributed"]
             /\ Go(h, "ready") /\ owned' = owned
    BY <2>2, <2>3, <1>4
  <2>4. CASE attribution' = [attribution EXCEPT ![h] = "attached"]
             /\ Go(h, "ready") /\ owned' = owned
    BY <2>2, <2>4, <1>4
  <2> QED
    BY <2>3, <2>4, <1>5 DEF Attribute

\* The start time that is learned is that of the Word itself or of a mistaken one.
LEMMA LearnStartStep ==
    ASSUME IInv, NEW h \in Hosts, LearnStart(h)
    PROVE  IInv'
<1>1. /\ at[h] = "learning" /\ app[h] # None /\ (app[h].by = h \/ app[h] \in slipped) /\ owned[h] # None
      /\ UNCHANGED <<running, clock, hostPid, todo, swept, app, before, ledger, deeds, traced,
                     slipped>>
  BY DEF IInv, Owners, Attributed, LearnStart
<1>2. /\ at'[h] = "registering" /\ attribution'[h] = "hwnd"
      /\ \A g \in Hosts \ {h} : at'[g] = at[g] /\ attribution'[g] = attribution[g]
  BY DEF IInv, TypeOK, LearnStart, Go
<1>3. /\ owned' \in [Hosts -> Identities \cup {None}] /\ mistaken \subseteq mistaken'
      /\ mistaken' \subseteq Words
      /\ \A g \in Hosts \ {h} : owned'[g] = owned[g]
      /\ owned'[h] # None => owned'[h].start <= clock
      /\ \A w \in running : owned'[h] = Identity(w) => w.by = h \/ w \in mistaken' \cup slipped
  <2>1. CASE owned' = owned /\ mistaken' = mistaken
    BY <2>1 DEF IInv, TypeOK, Clocked, Owners, OwnedIsOwn
  <2>2. CASE \E w \in running : /\ owned' = [owned EXCEPT ![h] = Identity(w)]
                                /\ mistaken' = mistaken \cup ({w} \ {app[h]})
    <3> PICK w \in running : /\ owned' = [owned EXCEPT ![h] = Identity(w)]
                             /\ mistaken' = mistaken \cup ({w} \ {app[h]})
      BY <2>2
    <3>1. w \in Words
      BY DEF IInv, TypeOK
    <3>2. owned' \in [Hosts -> Identities \cup {None}] /\ mistaken' \subseteq Words
      BY <3>1, WordParts DEF IInv, TypeOK
    <3>3. owned'[h] = Identity(w) /\ \A g \in Hosts \ {h} : owned'[g] = owned[g]
      BY DEF IInv, TypeOK
    <3>4. Identity(w).start <= clock
      BY <3>1, WordParts DEF IInv, Clocked
    <3>5. w.by = h \/ w \in mistaken' \cup slipped
      BY <1>1
    <3>6. \A v \in running : Identity(v) = Identity(w) => v = w
      BY OneIdentity
    <3> QED
      BY <3>2, <3>3, <3>4, <3>5, <3>6
  <2> QED
    BY <2>1, <2>2 DEF LearnStart
<1>4. TypeOK'
  BY <1>1, <1>3 DEF IInv, TypeOK, LearnStart, Go
<1>5. \A w \in running \cap traced : w.by # h
  BY <1>1 DEF IInv, Owners, Traces, Lives
<1>6. Clocked' /\ Distinct' /\ Placed' /\ OwnedIsOwn' /\ LedgerIsOwn' /\ Traces'
  BY <1>1, <1>2, <1>3, <1>5, HostKeeps DEF Lives
<1>7. Attributed'
  BY <1>1, <1>2, <1>3 DEF IInv, Owners, Attributed
<1>8. Swept'
  BY <1>1, <1>2, SweptKept DEF Lives
<1> QED
  BY <1>4, <1>6, <1>7, <1>8 DEF IInv, Owners

\* The file that is written is that of no other host that could come to need it.
LEMMA RegisterStep ==
    ASSUME IInv, NEW h \in Hosts, Register(h)
    PROVE  IInv'
<1>1. /\ at[h] = "registering"
      /\ UNCHANGED <<running, clock, hostPid, todo, swept, app, before, owned, attribution,
                     mistaken, slipped>>
  BY DEF Register
<1>2. at'[h] = "ready" /\ \A g \in Hosts \ {h} : at'[g] = at[g]
  BY DEF IInv, TypeOK, Register, Go
<1>3. hostPid[h] \in Pids
  BY <1>1, StartedPid
<1>4. /\ ledger' \in [Pids -> Identities \cup {None}]
      /\ \A p \in Pids : p # hostPid[h] => ledger'[p] = ledger[p]
      /\ ledger'[hostPid[h]] \in {owned[h], ledger[hostPid[h]], None}
      /\ \A w \in traced' : \/ w \in traced
                            \/ /\ w \in running /\ w = app[h] /\ w.by = h
                               /\ owned[h] = Identity(w) /\ ledger'[hostPid[h]] = owned[h]
                               /\ \A g \in Hosts : swept[g] # hostPid[h]
  <2>1. CASE /\ ledger' = [ledger EXCEPT ![hostPid[h]] = owned[h]]
             /\ traced' = traced \cup
                    {w \in Target(owned[h]) : /\ w = app[h] /\ w.by = h
                                              /\ \A g \in Hosts : swept[g] # hostPid[h]}
    <3>1. /\ ledger' \in [Pids -> Identities \cup {None}]
          /\ \A p \in Pids : p # hostPid[h] => ledger'[p] = ledger[p]
          /\ ledger'[hostPid[h]] = owned[h]
      BY <2>1, <1>3 DEF IInv, TypeOK
    <3> QED
      BY <2>1, <3>1 DEF Target
  <2>2. CASE /\ ledger' \in {ledger, [ledger EXCEPT ![hostPid[h]] = None]}
             /\ traced' = traced
    BY <2>2, <1>3 DEF IInv, TypeOK
  <2> QED
    BY <2>1, <2>2 DEF Register
<1>5. TypeOK'
  <2>1. {app[h]} \cap running \in SUBSET Words /\ TypeOK
    BY DEF IInv, TypeOK
  <2>2. deeds' \subseteq [what : {"hide", "quit", "quit blindly", "kill"},
                          host : Hosts, word : Words]
    BY <2>1, DidType DEF Register
  <2>3. traced' \subseteq Words
    BY <1>4 DEF IInv, TypeOK
  <2>4. at' \in [Hosts -> {"none", "sweeping", "orphaned", "removing", "ready", "creating",
                           "attributing", "learning", "registering", "killing",
                           "unregistering", "gone"}]
    BY DEF IInv, TypeOK, Register, Go
  <2> QED
    BY <1>1, <1>4, <2>2, <2>3, <2>4 DEF IInv, TypeOK
<1>6. traced' \subseteq traced \cup running
  BY <1>4
<1>7. Clocked' /\ Distinct'
  <2>1. \A p \in Pids : ledger'[p] \in {ledger[p], owned[h], None}
    BY <1>4
  <2> QED
    BY <1>1, <1>6, <2>1 DEF IInv, Clocked, Distinct
<1>8. Placed'
  BY <1>1, <1>2, PlacesKept DEF IInv
<1>9. Attributed' /\ OwnedIsOwn'
  BY <1>1, <1>2 DEF IInv, Owners, Attributed, OwnedIsOwn, Identity
<1>10. LedgerIsOwn'
  <2> SUFFICES ASSUME NEW p \in Pids, NEW w \in running, ledger'[p] = Identity(w)
               PROVE  \/ w \in mistaken \cup slipped
                      \/ w.by \in Hosts /\ at'[w.by] # "none" /\ hostPid[w.by] = p
    BY <1>1 DEF LedgerIsOwn, Identity
  <2>1. CASE ledger[p] = Identity(w)
    BY <2>1, <1>2 DEF IInv, Owners, LedgerIsOwn
  <2>2. CASE p = hostPid[h] /\ owned[h] = Identity(w)
    BY <2>2, <1>2 DEF IInv, Owners, OwnedIsOwn
  <2>3. Identity(w) # None
    BY WordParts DEF IInv, TypeOK
  <2> QED
    BY <2>1, <2>2, <2>3, <1>4
<1>11. Traces'
  <2> SUFFICES ASSUME NEW w \in running, w \in traced'
               PROVE  /\ w.by \in Hosts /\ at'[w.by] # "none"
                      /\ Lives(w.by)' => /\ at'[w.by] \in {"ready", "killing"}
                                         /\ owned[w.by] = Identity(w)
                                         /\ app[w.by] = w \/ at'[w.by] = "killing"
                      /\ \/ ledger'[hostPid[w.by]] = Identity(w)
                         \/ \E g \in Hosts : g > w.by /\ hostPid[g] = hostPid[w.by]
    BY <1>1 DEF Traces, Identity
  <2>1. CASE w \in traced
    <3>1. w.by \in Hosts /\ at[w.by] # "none" /\ w.by # h /\ at'[w.by] = at[w.by]
      BY <2>1, <1>1, <1>2 DEF IInv, Owners, Traces, Lives
    <3>2. CASE hostPid[w.by] = hostPid[h]
      <4>1. h > w.by
        BY <3>1, <3>2, <1>1, ProcessAssumption DEF IInv, Placed, Lives
      <4> QED
        BY <2>1, <3>1, <3>2, <4>1 DEF IInv, Owners, Traces, Lives
    <3>3. CASE hostPid[w.by] # hostPid[h]
      <4>1. ledger'[hostPid[w.by]] = ledger[hostPid[w.by]]
        BY <3>1, <3>3, <1>4, StartedPid
      <4> QED
        BY <2>1, <3>1, <4>1 DEF IInv, Owners, Traces, Lives
    <3> QED
      BY <3>2, <3>3
  <2>2. CASE w \notin traced
    <3>1. /\ w = app[h] /\ w.by = h
          /\ owned[h] = Identity(w) /\ ledger'[hostPid[h]] = owned[h]
      BY <2>2, <1>4
    <3>2. w # None
      BY WordParts DEF IInv, TypeOK
    <3> QED
      BY <3>1, <3>2, <1>1, <1>2
  <2> QED
    BY <2>1, <2>2
<1>12. Swept'
  <2>1. \A w \in (running \cap traced)' :
            w \in running \cap traced \/ \A g \in Hosts : swept[g] # hostPid[w.by]
    BY <1>1, <1>4
  <2> QED
    BY <1>1, <1>2, <2>1, SweptKept DEF Lives
<1> QED
  BY <1>5, <1>7, <1>8, <1>9, <1>10, <1>11, <1>12 DEF IInv, Owners

\* A Word that is quit and runs on is still known by its identity.
LEMMA QuitWordStep ==
    ASSUME IInv, NEW h \in Hosts, QuitWord(h)
    PROVE  IInv'
<1>1. /\ at[h] = "ready"
      /\ UNCHANGED <<running, clock, hostPid, todo, swept, before, owned, attribution, ledger,
                     traced, mistaken, slipped>>
  BY DEF QuitWord
<1>2. /\ at'[h] = "killing" /\ app'[h] = None
      /\ \A g \in Hosts \ {h} : at'[g] = at[g] /\ app'[g] = app[g]
  BY DEF IInv, TypeOK, QuitWord, Go
<1>3. TypeOK'
  <2>1. {app[h]} \cap running \in SUBSET Words /\ TypeOK
    BY DEF IInv, TypeOK
  <2>2. deeds' \subseteq [what : {"hide", "quit", "quit blindly", "kill"},
                          host : Hosts, word : Words]
    <3>1. CASE deeds' = deeds
      BY <3>1 DEF IInv, TypeOK
    <3>2. CASE \E what \in {"quit", "quit blindly"} : Did(what, h, {app[h]} \cap running)
      BY <3>2, <2>1, DidType
    <3> QED
      BY <3>1, <3>2 DEF QuitWord
  <2> QED
    BY <1>1, <2>2 DEF IInv, TypeOK, QuitWord, Go
<1>4. owned[h] # None => owned[h].start <= clock
  BY DEF IInv, Clocked
<1>5. \A w \in running : owned[h] = Identity(w) => w.by = h \/ w \in mistaken \cup slipped
  BY DEF IInv, Owners, OwnedIsOwn
<1>6. \A w \in running \cap traced : w.by = h => owned[h] = Identity(w)
  BY <1>1 DEF IInv, Owners, Traces, Lives
<1>7. Clocked' /\ Distinct' /\ Placed' /\ OwnedIsOwn' /\ LedgerIsOwn' /\ Traces'
  BY <1>1, <1>2, <1>4, <1>5, <1>6, HostKeeps DEF Lives
<1>8. Attributed'
  BY <1>1, <1>2 DEF IInv, Owners, Attributed
<1>9. Swept'
  BY <1>1, <1>2, SweptKept DEF Lives
<1> QED
  BY <1>3, <1>7, <1>8, <1>9 DEF IInv, Owners

\* What is forgotten has been killed, or was refused to the kill.
LEMMA KillOwnedWordStep ==
    ASSUME IInv, NEW h \in Hosts, KillOwnedWord(h)
    PROVE  IInv'
<1>1. /\ at[h] = "killing"
      /\ UNCHANGED <<clock, hostPid, todo, swept, app, before, ledger, mistaken, slipped>>
  BY DEF KillOwnedWord
<1>2. /\ at'[h] = "unregistering" /\ owned'[h] = None /\ attribution'[h] = "word_not_started"
      /\ \A g \in Hosts \ {h} :
             at'[g] = at[g] /\ owned'[g] = owned[g] /\ attribution'[g] = attribution[g]
  BY DEF IInv, TypeOK, KillOwnedWord, Go
<1>3. \A w \in running : Identity(w) # None
  BY WordParts DEF IInv, TypeOK
<1>4. /\ running' \subseteq running /\ traced' \subseteq traced
      /\ \A w \in (running \cap traced)' : Identity(w) # owned[h]
      /\ deeds' \subseteq [what : {"hide", "quit", "quit blindly", "kill"},
                           host : Hosts, word : Words]
  <2>1. CASE owned[h] = None
    BY <2>1, <1>3 DEF IInv, TypeOK, KillOwnedWord
  <2>2. CASE owned[h] # None
    <3>1. StopVerifiedWord(h, owned[h])
      BY <2>2 DEF KillOwnedWord
    <3> QED
      BY <3>1, StopStep
  <2> QED
    BY <2>1, <2>2
<1>5. TypeOK'
  BY <1>1, <1>4 DEF IInv, TypeOK, KillOwnedWord, Go
<1>6. \A w \in (running \cap traced)' : w.by # h
  BY <1>1, <1>4 DEF IInv, Owners, Traces, Lives
<1>7. Clocked' /\ Distinct' /\ Placed' /\ OwnedIsOwn' /\ LedgerIsOwn' /\ Traces'
  BY <1>1, <1>2, <1>3, <1>4, <1>6, HostKeeps DEF Lives
<1>8. Attributed'
  BY <1>1, <1>2 DEF IInv, Owners, Attributed
<1>9. Swept'
  BY <1>1, <1>2, <1>4, SweptKept DEF Lives
<1> QED
  BY <1>5, <1>7, <1>8, <1>9 DEF IInv, Owners

\* No Word that runs on is traced by a host that gives up its file, but one whose
\* host had the pid before.
LEMMA UnregisterStep ==
    ASSUME IInv, NEW h \in Hosts, Unregister(h)
    PROVE  IInv'
<1>1. /\ at[h] = "unregistering"
      /\ UNCHANGED <<running, clock, hostPid, todo, swept, app, before, owned, attribution,
                     history>>
  BY DEF Unregister
<1>2. at'[h] = "gone" /\ \A g \in Hosts \ {h} : at'[g] = at[g]
  BY DEF IInv, TypeOK, Unregister, Go
<1>3. hostPid[h] \in Pids
  BY <1>1, StartedPid
<1>4. \A p \in Pids : ledger'[p] = ledger[p] \/ (p = hostPid[h] /\ ledger'[p] = None)
  BY <1>3 DEF IInv, TypeOK, Unregister
<1>5. TypeOK'
  BY <1>1 DEF IInv, TypeOK, Unregister, Go, history
<1>6. Clocked' /\ Distinct'
  BY <1>1, <1>4 DEF IInv, Clocked, Distinct, history
<1>7. Placed'
  BY <1>1, <1>2, PlacesKept DEF IInv
<1>8. Attributed' /\ OwnedIsOwn'
  BY <1>1, <1>2 DEF IInv, Owners, Attributed, OwnedIsOwn, Identity, history
<1>9. LedgerIsOwn'
  <2>1. \A w \in running : Identity(w) # None
    BY WordParts DEF IInv, TypeOK
  <2> QED
    BY <2>1, <1>1, <1>2, <1>4 DEF IInv, Owners, LedgerIsOwn, Identity, history
<1>10. Traces'
  <2> SUFFICES ASSUME NEW w \in running \cap traced
               PROVE  /\ w.by \in Hosts /\ at'[w.by] # "none"
                      /\ Lives(w.by)' => /\ at'[w.by] \in {"ready", "killing"}
                                         /\ owned[w.by] = Identity(w)
                                         /\ app[w.by] = w \/ at'[w.by] = "killing"
                      /\ \/ ledger'[hostPid[w.by]] = Identity(w)
                         \/ \E g \in Hosts : g > w.by /\ hostPid[g] = hostPid[w.by]
    BY <1>1 DEF Traces, Identity, history
  <2>1. w.by \in Hosts /\ at[w.by] # "none" /\ w.by # h /\ at'[w.by] = at[w.by]
    BY <1>1, <1>2 DEF IInv, Owners, Traces, Lives
  <2>2. CASE hostPid[w.by] = hostPid[h]
    <3>1. h > w.by
      BY <2>1, <2>2, <1>1, ProcessAssumption DEF IInv, Placed, Lives
    <3> QED
      BY <2>1, <2>2, <3>1 DEF IInv, Owners, Traces, Lives
  <2>3. CASE hostPid[w.by] # hostPid[h]
    <3>1. ledger'[hostPid[w.by]] = ledger[hostPid[w.by]]
      BY <2>1, <2>3, <1>4, StartedPid
    <3> QED
      BY <2>1, <3>1 DEF IInv, Owners, Traces, Lives
  <2> QED
    BY <2>2, <2>3
<1>11. Swept'
  BY <1>1, <1>2, SweptKept DEF Lives, history
<1> QED
  BY <1>5, <1>6, <1>7, <1>8, <1>9, <1>10, <1>11 DEF IInv, Owners

\* A host that dies leaves the ledger as it is.
LEMMA HostDiesStep ==
    ASSUME IInv, NEW h \in Hosts, HostDies(h)
    PROVE  IInv'
<1>1. TypeOK'
  BY DEF IInv, TypeOK, HostDies, Go, history
<1>2. /\ Lives(h) /\ at'[h] = "gone" /\ owned'[h] = None /\ app'[h] = None
      /\ attribution'[h] = "word_not_started"
      /\ \A g \in Hosts \ {h} :
             at'[g] = at[g] /\ owned'[g] = owned[g] /\ app'[g] = app[g]
             /\ attribution'[g] = attribution[g] /\ before'[g] = before[g]
             /\ swept'[g] = swept[g]
  BY DEF IInv, TypeOK, HostDies, Go
<1>3. UNCHANGED <<running, clock, hostPid, ledger, traced, mistaken, slipped>>
  BY DEF HostDies, history
<1>4. \A w \in running : Identity(w) # None
  BY WordParts DEF IInv, TypeOK
<1>5. Clocked' /\ Distinct' /\ Placed' /\ OwnedIsOwn' /\ LedgerIsOwn' /\ Traces'
  BY <1>2, <1>3, <1>4, HostKeeps
<1>6. Attributed'
  BY <1>2, <1>3 DEF IInv, Owners, Attributed
<1>7. Swept'
  BY <1>2, <1>3, SweptKept DEF Lives
<1> QED
  BY <1>1, <1>5, <1>6, <1>7 DEF IInv, Owners

\* A step that changes nothing.
LEMMA StutterStep == IInv /\ UNCHANGED vars => IInv'
<1> SUFFICES ASSUME IInv, UNCHANGED vars PROVE IInv'
  OBVIOUS
<1>1. TypeOK'
  BY DEF IInv, TypeOK, vars, hostVars, history
<1>2. Clocked' /\ Distinct' /\ Placed' /\ Owners'
  BY EndingKeeps DEF vars, hostVars, history
<1>3. Swept'
  BY SweptKept DEF vars, hostVars, history, Lives
<1> QED
  BY <1>1, <1>2, <1>3 DEF IInv

\* Every step keeps the invariant.
LEMMA Step == IInv /\ [Next]_vars => IInv'
<1> SUFFICES ASSUME IInv, [Next]_vars PROVE IInv'
  OBVIOUS
<1>1. CASE UserStartsWord
  BY <1>1, UserStartsStep
<1>2. CASE \E w \in running : WordEnds(w)
  BY <1>2, WordEndsStep
<1>3. ASSUME NEW h \in Hosts, HostStep(h)
      PROVE  IInv'
  <2>1. CASE StartHost(h) \/ SweepFinds(h) \/ SweepStops(h) \/ SweepRemoves(h) \/ SweepEnds(h)
    BY <2>1, StartHostStep, SweepFindsStep, SweepStopsStep, SweepRemovesStep, SweepEndsStep
  <2>2. CASE InitializeWord(h) \/ CreateWord(h) \/ Attribute(h) \/ LearnStart(h) \/ Register(h)
    BY <2>2, InitializeWordStep, CreateWordStep, AttributeStep, LearnStartStep, RegisterStep
  <2>3. CASE QuitWord(h) \/ KillOwnedWord(h) \/ Unregister(h) \/ HostDies(h)
    BY <2>3, QuitWordStep, KillOwnedWordStep, UnregisterStep, HostDiesStep
  <2> QED
    BY <1>3, <2>1, <2>2, <2>3 DEF HostStep
<1>4. CASE UNCHANGED vars
  BY <1>4, StutterStep
<1> QED
  BY <1>1, <1>2, <1>3, <1>4 DEF Next

\* The invariant holds of every behaviour.
LEMMA Invariant == Spec => []IInv
  BY InitHolds, Step, PTL DEF Spec
-----------------------------------------------------------------------------
(* Theorems.                                                               *)

\* Every variable of the hosts, the ledger and the bridge keeps its type.
THEOREM TypeCorrect == Spec => []TypeOK
<1>1. IInv => TypeOK
  BY DEF IInv
<1> QED
  BY <1>1, Invariant, PTL

\* The Word a host has written to the ledger can be found by the next host as long
\* as it runs (Register-OwnedWord, Clear-OrphanedWord).
THEOREM OwnWordsTraced == Spec => []OwnWordsStayTraced
<1>1. IInv => OwnWordsStayTraced
  <2> SUFFICES ASSUME IInv, NEW w \in running \cap traced
               PROVE  \/ \E p \in Pids : ledger[p] = Identity(w)
                      \/ \E h \in Hosts : h > w.by /\ hostPid[h] = hostPid[w.by]
    BY DEF OwnWordsStayTraced
  <2>1. w.by \in Hosts /\ at[w.by] # "none"
    BY DEF IInv, Owners, Traces
  <2>2. hostPid[w.by] \in Pids
    BY <2>1, StartedPid
  <2> QED
    BY <2>2 DEF IInv, Owners, Traces
<1> QED
  BY <1>1, Invariant, PTL

\* What a host does to a Word that somebody else started.
LEMMA DeedsStep ==
    ASSUME IInv, Next, NEW d \in deeds' \ deeds
    PROVE  \/ d.what = "kill" /\ d.word.by \in Hosts /\ at[d.word.by] = "gone"
           \/ d.word \in slipped
           \/ d.what = "kill" /\ d.word \in mistaken
           \/ d.what = "quit blindly"
           \/ /\ d.what = "kill" /\ d.word.by \in Hosts /\ d.word.by > d.host
              /\ hostPid[d.word.by] = swept[d.host]
<1>1. PICK h \in Hosts : SweepStops(h) \/ Register(h) \/ QuitWord(h) \/ KillOwnedWord(h)
  BY DEF Next, HostStep, UserStartsWord, WordEnds, StartHost, SweepFinds, SweepRemoves,
     SweepEnds, InitializeWord, CreateWord, Attribute, LearnStart, Unregister, HostDies,
     hostVars, history
<1>2. CASE SweepStops(h)
  <2>1. at[h] = "orphaned" /\ StopVerifiedWord(h, ledger[swept[h]])
    BY <1>2 DEF SweepStops
  <2>2. swept[h] \in Pids /\ \A g \in Hosts : Lives(g) /\ hostPid[g] = swept[h] => h < g
    BY <2>1 DEF IInv, Swept
  <2>3. d.what = "kill" /\ d.word \in running /\ Identity(d.word) = ledger[swept[h]]
        /\ d.host = h
    <3>1. StopVerifiedWord(h, ledger[swept[h]])
      BY <2>1
    <3>2. \A e \in deeds' \ deeds :
              e.what = "kill" /\ e.word \in running /\ Identity(e.word) = ledger[swept[h]]
              /\ e.host = h
      BY <3>1, StopStep
    <3> QED
      BY <3>2
  <2>4. \/ d.word \in mistaken \cup slipped
        \/ d.word.by \in Hosts /\ at[d.word.by] # "none" /\ hostPid[d.word.by] = swept[h]
    <3> PICK w \in running : w = d.word
      BY <2>3
    <3>1. ledger[swept[h]] = Identity(w)
      BY <2>3
    <3> QED
      BY <2>2, <3>1 DEF IInv, Owners, LedgerIsOwn
  <2>5. CASE d.word \in mistaken \cup slipped
    BY <2>3, <2>5
  <2>6. CASE d.word.by \in Hosts /\ at[d.word.by] # "none" /\ hostPid[d.word.by] = swept[h]
    <3>1. at[d.word.by] = "gone" \/ d.word.by > d.host
      BY <2>2, <2>3, <2>6, ProcessAssumption DEF Lives
    <3> QED
      BY <2>3, <2>6, <3>1
  <2> QED
    BY <2>4, <2>5, <2>6
<1>3. CASE Register(h)
  <2>1. app[h] = None \/ app[h].by = h \/ app[h] \in slipped
    BY <1>3 DEF IInv, Owners, Attributed, Register
  <2>2. \A w \in running : w # None
    BY WordParts DEF IInv, TypeOK
  <2> QED
    BY <1>3, <2>1, <2>2 DEF Register, Did
<1>4. CASE QuitWord(h)
  <2>1. \A w \in running : w # None
    BY WordParts DEF IInv, TypeOK
  <2>2. attribution[h] = "hwnd" => app[h] = None \/ app[h].by = h \/ app[h] \in slipped
    BY DEF IInv, Owners, Attributed
  <2>3. CASE attribution[h] = "hwnd" /\ Did("quit", h, {app[h]} \cap running)
    BY <2>1, <2>2, <2>3 DEF Did
  <2>4. CASE Did("quit blindly", h, {app[h]} \cap running)
    BY <2>4 DEF Did
  <2> QED
    BY <1>4, <2>3, <2>4 DEF QuitWord
<1>5. CASE KillOwnedWord(h)
  <2>1. owned[h] # None /\ StopVerifiedWord(h, owned[h])
    BY <1>5 DEF KillOwnedWord
  <2>2. d.what = "kill" /\ d.word \in running /\ Identity(d.word) = owned[h] /\ d.word.by # h
    BY <2>1, StopStep
  <2> QED
    BY <2>2 DEF IInv, Owners, OwnedIsOwn
<1> QED
  BY <1>1, <1>2, <1>3, <1>4, <1>5

\* A host ends only Words that it started, that a host that is gone started, or that
\* took the pid before the start time was read, however pids are used again
\* (Stop-VerifiedWord, Clear-OrphanedWord, Stop-Word).
THEOREM OthersAreSpared == Spec => HostsSpareOthers
<1>1. IInv /\ [Next]_vars =>
          [\A d \in deeds' \ deeds :
               \/ d.what = "kill" /\ d.word.by \in Hosts /\ at[d.word.by] = "gone"
               \/ d.word \in slipped
               \/ d.what = "kill" /\ d.word \in mistaken
               \/ d.what = "quit blindly"
               \/ /\ d.what = "kill" /\ d.word.by \in Hosts /\ d.word.by > d.host
                  /\ hostPid[d.word.by] = swept[d.host]]_vars
  BY DeedsStep
<1> QED
  BY <1>1, Invariant, PTL DEF Spec, HostsSpareOthers
================================================================================

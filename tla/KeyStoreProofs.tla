--------------------------- MODULE KeyStoreProofs ---------------------------
(***************************************************************************)
(* Proofs about key directories, for any number of clients, directories,   *)
(* key pairs and crashes.                                                  *)
(***************************************************************************)
EXTENDS Commands, FiniteSetTheorems, TLAPS

WritingTo(p, d) == Writing(p) /\ job[p].dst = d

Agree(c1, c2) == c1 \in Key /\ c2 \in Key => c1.pair = c2.pair

(* A steady directory holds one pair, and nobody is writing it.            *)
Steady(d) ==
  steady[d] =>
    /\ Agree(file[d]["client"], file[d]["server"])
    /\ \A q \in Proc : ~ WritingTo(q, d)

(* A calm writer has its directory to itself, copies a steady one if it    *)
(* copies, and what it has written of the first file stays written.        *)
CalmWriter(p) ==
  Writing(p) /\ calm[p] =>
    /\ \A q \in Proc \ {p} : ~ WritingTo(q, job[p].dst)
    /\ job[p].src # Absent => steady[job[p].src]
    /\ pc[p] # "fill client" => file[job[p].dst]["client"] = Written(p, "client")

(* What a calm reader has read of its directory is still there.            *)
CalmReader(p) ==
  pc[p] = "read server" /\ calm[p] =>
    /\ steady[handle[p].dir]
    /\ job[p].ck = file[handle[p].dir]["client"]

SteadyInv == \A d \in Dir : Steady(d)
WriterInv == \A p \in Proc : CalmWriter(p)
ReaderInv == \A p \in Proc : CalmReader(p)

DirectoryInv == SteadyInv /\ WriterInv /\ ReaderInv

(* A lone client that has not been killed: its calls are calm, its handle  *)
(* is on a steady directory or the one it is writing, and a directory is   *)
(* empty, a steady pair or being written.                                  *)
Empty(d) == ~ steady[d] /\ \A n \in Name : file[d][n] = Absent
Full(d)  == steady[d] /\ \A n \in Name : file[d][n] \in Key

Lone(p) ==
  /\ \A q \in Proc \ {p} : pc[q] = "idle"
  /\ Writing(p) \/ pc[p] = "read server" => calm[p]
  /\ handle[p] # NoHandle => steady[handle[p].dir] \/ WritingTo(p, handle[p].dir)
  /\ Returned(p) => result[p].calm
  /\ \A d \in Dir : Empty(d) \/ Full(d) \/ WritingTo(p, d)

LoneInv == Alone => \A p \in users : Lone(p)

KeyInv == TypeOK /\ DirectoryInv /\ RightWhenUndisturbed /\ LoneInv

-----------------------------------------------------------------------------
(* What the constants are, as the steps need it.                           *)
LEMMA Disjoint ==
  /\ Absent \notin Key /\ Torn \notin Key /\ Absent \notin Dir
  /\ \A h \in Handle : h # NoHandle
  /\ \A r \in Answer : r # NoResult
BY FileAssumption DEF Handle, NoHandle, Answer, NoResult

(* What writing one file does to the directories.                          *)
LEMMA FileWritten ==
  ASSUME file \in [Dir -> [Name -> Content]],
         NEW d \in Dir, NEW n \in Name, NEW c \in Content, SetFile(d, n, c)
  PROVE  /\ file' \in [Dir -> [Name -> Content]]
         /\ file'[d][n] = c
         /\ \A e \in Dir, m \in Name : e # d \/ m # n => file'[e][m] = file[e][m]
         /\ \A e \in Dir \ {d} : file'[e] = file[e]
<1>1. file' = [file EXCEPT ![d] = [file[d] EXCEPT ![n] = c]]
  BY DEF SetFile
<1>2. [file[d] EXCEPT ![n] = c] \in [Name -> Content]
  OBVIOUS
<1>3. QED
  BY <1>1, <1>2

(* What is read from a directory, and what is written to one.              *)
LEMMA FileType ==
  ASSUME TypeOK
  PROVE  /\ file \in [Dir -> [Name -> Content]]
         /\ \A d \in Dir, n \in Name : file[d][n] \in Content
<1>1. file \in [Dir -> [Name -> Content]]
  BY DEF TypeOK
<1>2. QED
  BY <1>1

(* What is written is a key file's content.                                *)
LEMMA WrittenType ==
  ASSUME TypeOK, NEW p \in Proc, NEW n \in Name, Fill(p, n)
  PROVE  job[p] \in Write /\ Written(p, n) \in Content
<1>1. job[p] \in Write /\ (job[p].src = Absent => job[p].key \in Key)
  BY DEF Fill, Filling, TypeOK, Midcall, Name
<1>2. CASE job[p].src = Absent
  BY <1>1, <1>2 DEF Written, Content
<1>3. CASE job[p].src # Absent
  BY <1>1, <1>3, FileType DEF Written, Write
<1>4. QED
  BY <1>1, <1>2, <1>3

(* Types: every step of any process keeps them.                            *)
LEMMA TypeStep ==
  ASSUME TypeOK, UNCHANGED users, NEW p \in Proc, Step(p)
  PROVE  TypeOK'
<1> USE Disjoint
<1>1. ASSUME NEW d \in Dir, NEW s \in Scheme, NEW w \in Width \cup {0}, Generate(p, d, s, w)
      PROVE  TypeOK'
  <2>1. minted' \in 1 .. MaxKeys /\ minted' = minted + 1
    <3>1. minted < MaxKeys /\ minted' = minted + 1
      BY <1>1 DEF Generate, NextPair
    <3>2. minted \in 0 .. MaxKeys
      BY DEF TypeOK
    <3>3. QED
      BY <3>1, <3>2, BoundsAssumption
  <2>2. [pair |-> minted + 1, scheme |-> s, width |-> w] \in Key
    BY <1>1, <2>1 DEF Generate, NextPair, Key
  <2>3. job'[p] \in Write /\ job'[p].src = Absent /\ job'[p].key \in Key
    BY <1>1, <2>2 DEF Generate, NextPair, Write, TypeOK
  <2>4. \A q \in Proc : Midcall(q)'
    BY <1>1, <2>3 DEF Generate, NextPair, TypeOK, Midcall, Goto
  <2>5. QED
    <3>1. minted' \in 0 .. MaxKeys
      BY <2>1
    <3>2. QED
      BY <1>1, <2>3, <2>4, <3>1 DEF Generate, NextPair, TypeOK, Goto, history
<1>2. ASSUME NEW d \in Dir, Save(p, d) PROVE TypeOK'
  <2>1. handle[p] \in Handle
    BY <1>2 DEF Save, TypeOK
  <2>2. /\ job'[p] \in Write /\ job'[p].src # Absent
        /\ handle'[p].dir = job'[p].src /\ job'[p].src # job'[p].dst
    BY <1>2, <2>1 DEF Save, Write, TypeOK, Handle
  <2>3. \A q \in Proc : Midcall(q)'
    BY <1>2, <2>2 DEF Save, TypeOK, Midcall, Goto
  <2>4. QED
    BY <1>2, <2>2, <2>3 DEF Save, TypeOK, Goto, history
<1>3. ASSUME NEW d \in Dir, Load(p, d) PROVE TypeOK'
  <2>1. HandleOn(d, file[d]["client"]) \in Handle
    BY <1>3 DEF Load, HandleOn, Handle, Key
  <2>2. \A q \in Proc : Midcall(q)'
    BY <1>3 DEF Load, TypeOK, Midcall
  <2>3. QED
    BY <1>3, <2>1, <2>2 DEF Load, TypeOK, history
<1>4. ASSUME NEW n \in Name, Open(p, n) PROVE TypeOK'
  <2>1. job[p] \in Write
    BY <1>4 DEF Open, Opening, TypeOK, Midcall, Name
  <2>2. CASE job[p].src # Absent /\ file[job[p].src][n] = Absent
    <3>1. Abandon(p) /\ UNCHANGED <<users, file, minted, crashes, handle, result, history>>
      BY <1>4, <2>2, Zenon DEF Open
    <3>2. \A q \in Proc : Midcall(q)'
      BY <3>1 DEF Abandon, TypeOK, Midcall, Goto
    <3>3. QED
      BY <3>1, <3>2 DEF Abandon, TypeOK, Goto, history
  <2>3. CASE ~ (job[p].src # Absent /\ file[job[p].src][n] = Absent)
    <3>0. SetFile(job[p].dst, n, Torn) /\ job[p].dst \in Dir /\ Torn \in Content
      BY <1>4, <2>1, <2>3 DEF Open, Content, Write
    <3>1. file' \in [Dir -> [Name -> Content]]
      BY <3>0, FileWritten DEF TypeOK
    <3>2. steady' \in [Dir -> BOOLEAN] /\ calm' \in [Proc -> BOOLEAN]
      <4>1. Disturb(p, job[p].dst) \/ UNCHANGED history
        BY <1>4, <2>3, Zenon DEF Open
      <4>2. steady \in [Dir -> BOOLEAN] /\ calm \in [Proc -> BOOLEAN]
        BY DEF TypeOK
      <4>3. CASE Disturb(p, job[p].dst)
        <5>1. steady' = [steady EXCEPT ![job[p].dst] = FALSE]
          BY <4>3 DEF Disturb
        <5>2. \E fits : calm' = [q \in Proc |->
                IF q = p THEN fits
                ELSE calm[q] /\ Source(q) # job[p].dst /\ ~ (Writing(q) /\ job[q].dst = job[p].dst)]
              /\ fits \in BOOLEAN
          <6> DEFINE fits == /\ ~ \E q \in Proc \ {p} : Writing(q) /\ job[q].dst = job[p].dst
                             /\ job[p].src = Absent \/ steady[job[p].src]
          <6>1. fits \in BOOLEAN
            OBVIOUS
          <6>2. calm' = [q \in Proc |->
                  IF q = p THEN fits
                  ELSE calm[q] /\ Source(q) # job[p].dst /\ ~ (Writing(q) /\ job[q].dst = job[p].dst)]
            BY <4>3, Zenon DEF Disturb
          <6>3. QED
            BY <6>1, <6>2, Zenon
        <5>3. QED
          BY <4>2, <5>1, <5>2
      <4>4. CASE UNCHANGED history
        BY <4>2, <4>4 DEF history
      <4>5. QED
        BY <4>1, <4>3, <4>4
    <3>3. \A q \in Proc : Midcall(q)'
      BY <1>4, <2>3 DEF Open, Opening, TypeOK, Midcall, Goto, Name
    <3>4. QED
      BY <1>4, <2>3, <3>1, <3>2, <3>3 DEF Open, TypeOK, Goto, history
  <2>4. QED
    BY <2>2, <2>3
<1>5. ASSUME NEW n \in Name, Fill(p, n) PROVE TypeOK'
  <2>1. job[p] \in Write
    BY <1>5, WrittenType
  <2>2. Written(p, n) \in Content
    BY <1>5, WrittenType
  <2>3. file' \in [Dir -> [Name -> Content]]
    <3>1. SetFile(job[p].dst, n, Written(p, n)) /\ job[p].dst \in Dir
      BY <1>5, <2>1 DEF Fill, Write
    <3>2. QED
      BY <2>2, <3>1, FileWritten DEF TypeOK
  <2>4. CASE Following(p, n) = "idle"
    <3>1. handle'[p] \in Handle
      <4>1. CASE job[p].src = Absent
        <5>1. handle'[p] = HandleOn(job[p].dst, job[p].key)
          BY <1>5, <2>4, <4>1 DEF Fill, TypeOK
        <5>2. job[p].key \in Key /\ job[p].dst \in Dir
          BY <1>5, <2>1, <4>1 DEF Fill, Filling, TypeOK, Midcall, Name, Write
        <5>3. QED
          BY <5>1, <5>2 DEF HandleOn, Handle, Key
      <4>2. CASE job[p].src # Absent
        <5>1. handle[p] \in Handle
          <6>1. handle[p].dir = job[p].src
            BY <1>5, <4>2 DEF Fill, Filling, TypeOK, Midcall, Name
          <6>2. handle[p] # NoHandle
            BY <4>2, <6>1 DEF NoHandle
          <6>3. QED
            BY <6>2 DEF TypeOK
        <5>2. handle'[p] = [handle[p] EXCEPT !.dir = job[p].dst]
          BY <1>5, <2>4, <4>2 DEF Fill, TypeOK
        <5>3. QED
          BY <2>1, <5>1, <5>2 DEF Handle, Write
      <4>3. QED
        BY <4>1, <4>2
    <3>2. \A q \in Proc : Midcall(q)'
      BY <1>5, <2>4 DEF Fill, TypeOK, Midcall, Goto
    <3>3. steady' \in [Dir -> BOOLEAN]
      <4>1. steady' = [steady EXCEPT ![job[p].dst] = calm[p]]
        BY <1>5, <2>4, Zenon DEF Fill
      <4>2. steady \in [Dir -> BOOLEAN] /\ calm[p] \in BOOLEAN
        BY DEF TypeOK
      <4>3. QED
        BY <4>1, <4>2
    <3>4. handle' \in [Proc -> Handle \cup {NoHandle}]
      BY <1>5, <2>4, <3>1 DEF Fill, TypeOK
    <3>5. QED
      BY <1>5, <2>3, <2>4, <3>2, <3>3, <3>4 DEF Fill, TypeOK, Goto
  <2>5. CASE Following(p, n) # "idle"
    <3>1. \A q \in Proc : Midcall(q)'
      BY <1>5, <2>5 DEF Fill, Filling, Following, TypeOK, Midcall, Goto, Name
    <3>2. QED
      BY <1>5, <2>3, <2>5, <3>1 DEF Fill, Following, TypeOK, Goto
  <2>6. QED
    BY <2>4, <2>5
<1>6. ASSUME NEW s \in Scheme, NEW g \in Width, Run(p, s, g) PROVE TypeOK'
  <2>1. handle[p] \in Handle
    BY <1>6 DEF Run, TypeOK
  <2>2. job'[p] \in Read
    <3>1. file[handle[p].dir]["client"] \in Content
      BY <2>1, FileType DEF Handle, Name
    <3>2. job'[p] = [scheme |-> s, model |-> g, ck |-> file[handle[p].dir]["client"]]
      BY <1>6 DEF Run, TypeOK
    <3>3. QED
      BY <3>1, <3>2 DEF Read
  <2>3. \A q \in Proc : Midcall(q)'
    BY <1>6, <2>1, <2>2 DEF Run, TypeOK, Midcall, Goto
  <2>4. calm' \in [Proc -> BOOLEAN]
    <3>1. steady[handle[p].dir] \in BOOLEAN
      BY <2>1 DEF TypeOK, Handle
    <3>2. QED
      BY <1>6, <3>1 DEF Run, TypeOK
  <2>5. QED
    BY <1>6, <2>2, <2>3, <2>4 DEF Run, TypeOK, Goto
<1>7. CASE Return(p)
  <2>1. job[p] \in Read /\ handle[p] \in Handle
    BY <1>7 DEF Return, TypeOK, Midcall
  <2>2. result'[p] \in Answer \cup {NoResult}
    BY <1>7, <2>1 DEF Return, TypeOK, Answer, Read, Handle, Decodes, ClientKeyDecodes,
       TfheEvaluates, CkksEvaluates
  <2>3. \A q \in Proc : Midcall(q)'
    BY <1>7 DEF Return, Abandon, TypeOK, Midcall, Goto
  <2>4. QED
    BY <1>7, <2>2, <2>3 DEF Return, Abandon, TypeOK, Goto, history
<1>8. CASE Crash(p)
  <2>1. \A q \in Proc : Midcall(q)'
    BY <1>8 DEF Crash, Abandon, TypeOK, Midcall, Goto
  <2>2. crashes' \in 0 .. MaxCrash
    <3>1. crashes \in 0 .. MaxCrash /\ crashes < MaxCrash /\ crashes' = crashes + 1
      BY <1>8 DEF Crash, TypeOK
    <3>2. QED
      BY <3>1, BoundsAssumption
  <2>3. QED
    BY <1>8, <2>1, <2>2 DEF Crash, Abandon, TypeOK, Goto, history
<1>9. QED
  BY <1>1, <1>2, <1>3, <1>4, <1>5, <1>6, <1>7, <1>8 DEF Step

(* Every variable keeps its type, and a call that ends, fails or dies      *)
(* takes its locals with it (client.py:73-240).                            *)
THEOREM TypeCorrect == Spec => []TypeOK
<1>1. Init => TypeOK
  BY BoundsAssumption DEF Init, TypeOK, Midcall, Content
<1>2. TypeOK /\ [Next]_vars => TypeOK'
  <2> SUFFICES ASSUME TypeOK, [Next]_vars PROVE TypeOK'
    OBVIOUS
  <2>1. CASE Next
    <3>1. PICK p \in users : Step(p)
      BY <2>1 DEF Next
    <3>2. p \in Proc
      BY DEF TypeOK
    <3>3. QED
      BY <2>1, <3>1, <3>2, TypeStep DEF Next
  <2>2. CASE UNCHANGED vars
    BY <2>2 DEF vars, TypeOK, Midcall
  <2>3. QED
    BY <2>1, <2>2
<1>3. QED
  BY <1>1, <1>2, PTL DEF Spec

-----------------------------------------------------------------------------
(* What another process does not touch of q.                               *)
Same(q) == pc'[q] = pc[q] /\ job'[q] = job[q] /\ handle'[q] = handle[q]

(* While directories stay as they are and no write begins, a calm writer   *)
(* stays right.                                                            *)
LEMMA WriterStays ==
  ASSUME WriterInv, UNCHANGED <<file, steady>>,
         \A q \in Proc : Writing(q)' => Same(q) /\ calm'[q] = calm[q]
  PROVE  /\ WriterInv'
         /\ \A q \in Proc : \A e : WritingTo(q, e)' => WritingTo(q, e)
<1>1. ASSUME NEW q \in Proc, Writing(q)'
      PROVE  Same(q) /\ Writing(q) /\ calm'[q] = calm[q]
  BY <1>1 DEF Same, Writing
<1>2. ASSUME NEW q \in Proc, NEW e, WritingTo(q, e)' PROVE WritingTo(q, e)
  BY <1>1, <1>2 DEF WritingTo, Same
<1>3. SUFFICES ASSUME NEW q \in Proc, Writing(q)', calm'[q]
               PROVE  /\ \A r \in Proc \ {q} : ~ WritingTo(r, job[q].dst)'
                      /\ job'[q].src # Absent => steady'[job'[q].src]
                      /\ pc'[q] # "fill client" =>
                            file'[job'[q].dst]["client"] = Written(q, "client")'
  BY <1>2 DEF WriterInv, CalmWriter
<1>4. Same(q) /\ Writing(q) /\ calm[q]
  BY <1>1, <1>3
<1>5. Written(q, "client")' = Written(q, "client")
  BY <1>4 DEF Written, Same
<1>6. ASSUME NEW r \in Proc \ {q}, WritingTo(r, job[q].dst)' PROVE FALSE
  <2>1. WritingTo(r, job[q].dst)
    BY <1>1, <1>4, <1>6 DEF WritingTo, Same
  <2>2. QED
    BY <1>4, <2>1 DEF WriterInv, CalmWriter
<1>7. QED
  BY <1>4, <1>5, <1>6 DEF WriterInv, CalmWriter, Same

(* A process that starts a call, ends a read, fails or dies changes no     *)
(* directory, and holds none.                                              *)
LEMMA LeaveStep ==
  ASSUME TypeOK, DirectoryInv, NEW p \in Proc, UNCHANGED <<file, steady, calm>>,
         ~ Writing(p)', pc'[p] # "read server", \A q \in Proc \ {p} : Same(q)
  PROVE  DirectoryInv'
<1>1. WriterInv' /\ \A q \in Proc : \A e : WritingTo(q, e)' => WritingTo(q, e)
  BY WriterStays DEF DirectoryInv
<1>2. SteadyInv'
  BY <1>1 DEF DirectoryInv, SteadyInv, Steady, Agree
<1>3. ReaderInv'
  <2> SUFFICES ASSUME NEW q \in Proc, pc'[q] = "read server", calm'[q]
               PROVE  /\ steady'[handle'[q].dir]
                      /\ job'[q].ck = file'[handle'[q].dir]["client"]
    BY DEF ReaderInv, CalmReader
  <2>1. Same(q)
    OBVIOUS
  <2>2. QED
    BY <2>1 DEF DirectoryInv, ReaderInv, CalmReader, Same
<1>4. QED
  BY <1>1, <1>2, <1>3 DEF DirectoryInv

(* A reader starts calm only on a steady directory.                        *)
LEMMA RunStep ==
  ASSUME TypeOK, DirectoryInv, NEW p \in Proc, NEW s, NEW g, Run(p, s, g)
  PROVE  DirectoryInv'
<1>1. /\ UNCHANGED <<file, steady, handle>>
      /\ \A q \in Proc \ {p} : Same(q) /\ calm'[q] = calm[q]
      /\ pc'[p] = "read server" /\ calm'[p] = steady[handle[p].dir]
      /\ job'[p].ck = file[handle[p].dir]["client"]
  BY DEF Run, Goto, Same, TypeOK
<1>2. WriterInv' /\ \A q \in Proc : \A e : WritingTo(q, e)' => WritingTo(q, e)
  <2>1. ~ Writing(p)'
    BY <1>1 DEF Writing
  <2>2. QED
    BY <1>1, <2>1, WriterStays DEF DirectoryInv
<1>3. SteadyInv'
  BY <1>1, <1>2 DEF DirectoryInv, SteadyInv, Steady, Agree
<1>4. ReaderInv'
  BY <1>1 DEF DirectoryInv, ReaderInv, CalmReader, Same
<1>5. QED
  BY <1>2, <1>3, <1>4 DEF DirectoryInv

(* Opening client.key begins a write: the directory is no longer steady,   *)
(* and those who use it are no longer calm.                                *)
LEMMA OpenClientStep ==
  ASSUME TypeOK, DirectoryInv, NEW p \in Proc, Open(p, "client"),
         ~ (job[p].src # Absent /\ file[job[p].src]["client"] = Absent)
  PROVE  DirectoryInv'
<1> DEFINE d == job[p].dst
<1>0. /\ pc[p] = "open client" /\ job[p] \in Write /\ d \in Dir
      /\ job[p].src # Absent => job[p].src \in Dir /\ job[p].src # d
  BY DEF Open, Opening, TypeOK, Midcall, Write
<1>1. /\ \A e \in Dir \ {d}, n \in Name : file'[e][n] = file[e][n]
      /\ UNCHANGED <<job, handle>>
      /\ pc'[p] = "fill client"
      /\ \A q \in Proc \ {p} : Same(q)
  <2>1. SetFile(d, "client", Torn) /\ Torn \in Content
    BY DEF Open, Content
  <2>2. QED
    <3>1. \A e \in Dir \ {d}, n \in Name : file'[e][n] = file[e][n]
      <4>1. "client" \in Name
        BY DEF Name
      <4>2. \A e \in Dir, m \in Name : e # d \/ m # "client" => file'[e][m] = file[e][m]
        BY <1>0, <2>1, <4>1, FileWritten, FileType
      <4>3. QED
        BY <4>2
    <3>2. QED
      BY <3>1 DEF Open, Goto, Same, TypeOK
<1>2. /\ ~ steady'[d]
      /\ \A e \in Dir \ {d} : steady'[e] = steady[e]
      /\ calm'[p] => /\ \A q \in Proc \ {p} : ~ WritingTo(q, d)
                     /\ job[p].src # Absent => steady[job[p].src]
      /\ \A q \in Proc \ {p} : calm'[q] => calm[q] /\ Source(q) # d /\ ~ WritingTo(q, d)
  <2>1. Disturb(p, d)
    BY Zenon DEF Open
  <2>2. steady' = [steady EXCEPT ![d] = FALSE]
    BY <2>1 DEF Disturb
  <2>3. steady \in [Dir -> BOOLEAN]
    BY DEF TypeOK
  <2>4. ~ steady'[d] /\ \A e \in Dir \ {d} : steady'[e] = steady[e]
    BY <1>0, <2>2, <2>3
  <2>5. calm' = [q \in Proc |->
                   IF q = p THEN /\ ~ \E r \in Proc \ {p} : Writing(r) /\ job[r].dst = d
                                 /\ job[p].src = Absent \/ steady[job[p].src]
                   ELSE calm[q] /\ Source(q) # d /\ ~ (Writing(q) /\ job[q].dst = d)]
    BY <2>1, Zenon DEF Disturb
  <2>6. calm'[p] => /\ \A q \in Proc \ {p} : ~ WritingTo(q, d)
                    /\ job[p].src # Absent => steady[job[p].src]
    BY <2>5 DEF WritingTo
  <2>7. \A q \in Proc \ {p} : calm'[q] => calm[q] /\ Source(q) # d /\ ~ WritingTo(q, d)
    BY <2>5 DEF WritingTo
  <2>8. QED
    BY <2>4, <2>6, <2>7
<1>3. \A q \in Proc : Writing(q)' => (q = p \/ Writing(q)) /\ job'[q] = job[q]
  BY <1>1 DEF Writing, Same
<1>4. SteadyInv'
  <2> SUFFICES ASSUME NEW e \in Dir, steady'[e]
               PROVE  /\ Agree(file'[e]["client"], file'[e]["server"])
                      /\ \A q \in Proc : ~ WritingTo(q, e)'
    BY DEF SteadyInv, Steady, Agree
  <2>1. e # d /\ steady[e]
    BY <1>2
  <2>2. QED
    BY <1>1, <1>3, <2>1 DEF DirectoryInv, SteadyInv, Steady, WritingTo, Writing, Name
<1>5. WriterInv'
  <2> SUFFICES ASSUME NEW q \in Proc, Writing(q)', calm'[q]
               PROVE  /\ \A r \in Proc \ {q} : ~ WritingTo(r, job[q].dst)'
                      /\ job[q].src # Absent => steady'[job[q].src]
                      /\ pc'[q] # "fill client" =>
                            file'[job[q].dst]["client"] = Written(q, "client")'
    BY <1>1 DEF WriterInv, CalmWriter
  <2>1. CASE q = p
    BY <1>0, <1>1, <1>2, <1>3, <2>1 DEF WritingTo
  <2>2. CASE q # p
    <3>1. /\ Writing(q) /\ calm[q] /\ job[q].dst # d /\ job[q].src # d
          /\ pc'[q] = pc[q]
      BY <1>1, <1>2, <1>3, <2>2 DEF WritingTo, Writing, Source, Same
    <3>2. /\ job[q].dst \in Dir
          /\ job[q].src # Absent => job[q].src \in Dir
      BY <3>1 DEF Writing, TypeOK, Midcall, Write
    <3>3. \A r \in Proc \ {q} : ~ WritingTo(r, job[q].dst)'
      BY <1>1, <1>3, <3>1 DEF DirectoryInv, WriterInv, CalmWriter, WritingTo, Writing
    <3>4. job[q].src # Absent => steady'[job[q].src]
      BY <1>2, <3>1, <3>2 DEF DirectoryInv, WriterInv, CalmWriter
    <3>5. Written(q, "client")' = Written(q, "client")
      BY <1>1, <3>1, <3>2 DEF Written, Name
    <3>6. QED
      BY <1>1, <3>1, <3>2, <3>3, <3>4, <3>5 DEF DirectoryInv, WriterInv, CalmWriter, Name
  <2>3. QED
    BY <2>1, <2>2
<1>6. ReaderInv'
  <2> SUFFICES ASSUME NEW q \in Proc, pc'[q] = "read server", calm'[q]
               PROVE  /\ steady'[handle[q].dir]
                      /\ job[q].ck = file'[handle[q].dir]["client"]
    BY <1>1 DEF ReaderInv, CalmReader
  <2>1. q # p /\ pc[q] = "read server" /\ calm[q] /\ handle[q].dir # d
    BY <1>1, <1>2 DEF Same, Source
  <2>2. handle[q].dir \in Dir
    BY <2>1 DEF TypeOK, Midcall, Handle
  <2>3. QED
    BY <1>1, <1>2, <2>1, <2>2 DEF DirectoryInv, ReaderInv, CalmReader, Name
<1>7. QED
  BY <1>4, <1>5, <1>6 DEF DirectoryInv

(* A process in the middle of a write touches its own directory only, and  *)
(* nobody else who is calm depends on that one.                            *)
LEMMA WriteElsewhere ==
  ASSUME TypeOK, DirectoryInv, NEW p \in Proc, Writing(p),
         \A e \in Dir \ {job[p].dst} : steady'[e] = steady[e] /\ file'[e] = file[e],
         UNCHANGED calm, \A q \in Proc \ {p} : Same(q),
         Writing(p)' => job'[p] = job[p]
  PROVE  /\ \A q \in Proc : \A e : WritingTo(q, e)' => WritingTo(q, e)
         /\ \A e \in Dir \ {job[p].dst} : Steady(e)'
         /\ \A q \in Proc \ {p} : CalmWriter(q)' /\ CalmReader(q)'
<1> DEFINE d == job[p].dst
<1>0. d \in Dir /\ ~ steady[d] /\ WritingTo(p, d)
  BY DEF Writing, WritingTo, TypeOK, Midcall, Write, DirectoryInv, SteadyInv, Steady
<1>1. ASSUME NEW q \in Proc, NEW e, WritingTo(q, e)' PROVE WritingTo(q, e)
  <2>1. CASE q = p
    BY <1>0, <1>1, <2>1 DEF WritingTo
  <2>2. CASE q # p
    BY <1>1, <2>2 DEF WritingTo, Writing, Same
  <2>3. QED
    BY <2>1, <2>2
<1>2. ASSUME NEW e \in Dir \ {d} PROVE Steady(e)'
  BY <1>1 DEF DirectoryInv, SteadyInv, Steady, Agree
<1>3. ASSUME NEW q \in Proc \ {p} PROVE CalmWriter(q)'
  <2> SUFFICES ASSUME Writing(q)', calm'[q]
               PROVE  /\ \A r \in Proc \ {q} : ~ WritingTo(r, job[q].dst)'
                      /\ job'[q].src # Absent => steady'[job'[q].src]
                      /\ pc'[q] # "fill client" =>
                            file'[job'[q].dst]["client"] = Written(q, "client")'
    BY DEF CalmWriter
  <2>1. Same(q) /\ Writing(q) /\ calm[q]
    BY DEF Same, Writing
  <2>2. CalmWriter(q)
    BY DEF DirectoryInv, WriterInv
  <2>3. job[q].dst # d
    BY <1>0, <2>1, <2>2 DEF CalmWriter
  <2>4. /\ job[q].dst \in Dir
        /\ job[q].src # Absent => job[q].src \in Dir /\ job[q].src # d
    <3>1. job[q] \in Write
      BY <2>1 DEF Writing, TypeOK, Midcall
    <3>2. job[q].src # Absent => steady[job[q].src]
      BY <2>1, <2>2 DEF CalmWriter
    <3>3. QED
      BY <1>0, <3>1, <3>2 DEF Write
  <2>5. Written(q, "client")' = Written(q, "client")
    BY <2>1, <2>4 DEF Written, Same
  <2>6. \A r \in Proc \ {q} : ~ WritingTo(r, job[q].dst)'
    <3> SUFFICES ASSUME NEW r \in Proc \ {q}, WritingTo(r, job[q].dst)' PROVE FALSE
      OBVIOUS
    <3>1. ASSUME NEW e, e = job'[q].dst PROVE WritingTo(r, e)
      <4>1. WritingTo(r, e)'
        BY <3>1 DEF WritingTo
      <4>2. QED
        BY <1>1, <4>1
    <3>2. WritingTo(r, job[q].dst)
      BY <2>1, <3>1 DEF Same
    <3>3. QED
      BY <2>1, <2>2, <3>2 DEF CalmWriter
  <2>7. job'[q].src # Absent => steady'[job'[q].src]
    BY <2>1, <2>2, <2>4 DEF CalmWriter, Same
  <2>8. pc'[q] # "fill client" => file'[job'[q].dst]["client"] = Written(q, "client")'
    <3>1. file'[job[q].dst] = file[job[q].dst]
      BY <2>3, <2>4
    <3>2. pc[q] # "fill client" => file[job[q].dst]["client"] = Written(q, "client")
      BY <2>1, <2>2 DEF CalmWriter
    <3>3. QED
      BY <2>1, <2>5, <3>1, <3>2 DEF Same
  <2>9. QED
    BY <2>6, <2>7, <2>8
<1>4. ASSUME NEW q \in Proc \ {p} PROVE CalmReader(q)'
  <2> SUFFICES ASSUME pc'[q] = "read server", calm'[q]
               PROVE  /\ steady'[handle'[q].dir]
                      /\ job'[q].ck = file'[handle'[q].dir]["client"]
    BY DEF CalmReader
  <2>1. Same(q) /\ CalmReader(q) /\ pc[q] = "read server"
    BY DEF DirectoryInv, ReaderInv, Same
  <2>2. handle[q].dir \in Dir /\ steady[handle[q].dir]
    <3>1. handle[q] \in Handle
      BY <2>1 DEF TypeOK, Midcall
    <3>2. steady[handle[q].dir]
      BY <2>1 DEF CalmReader, Same
    <3>3. QED
      BY <3>1, <3>2 DEF Handle
  <2>3. file'[handle[q].dir] = file[handle[q].dir] /\ steady'[handle[q].dir]
    BY <1>0, <2>2
  <2>4. QED
    BY <2>1, <2>3 DEF CalmReader, Same
<1>5. QED
  BY <1>1, <1>2, <1>3, <1>4

(* The steps of a write after its first and before its last: client.key is *)
(* filled, server.key opened.                                              *)
LEMMA MiddleStep ==
  ASSUME TypeOK, DirectoryInv, NEW p \in Proc, Writing(p),
         NEW n \in Name, NEW c \in Content, SetFile(job[p].dst, n, c),
         UNCHANGED <<job, handle, steady, calm>>,
         \A q \in Proc \ {p} : pc'[q] = pc[q],
         pc'[p] \in {"open server", "fill server"},
         IF n = "client" THEN c = Written(p, n) ELSE pc[p] # "fill client"
  PROVE  DirectoryInv'
<1> DEFINE d == job[p].dst
<1>1. /\ d \in Dir /\ ~ steady[d]
      /\ job[p].src # Absent => job[p].src \in Dir \ {d}
  <2>1. job[p] \in Write /\ (job[p].src # Absent => job[p].src # d)
    BY DEF Writing, TypeOK, Midcall
  <2>2. QED
    BY <2>1 DEF Write, WritingTo, DirectoryInv, SteadyInv, Steady
<1>2. /\ file'[d][n] = c
      /\ \A m \in Name : m # n => file'[d][m] = file[d][m]
      /\ \A e \in Dir \ {d} : file'[e] = file[e]
  <2>1. file \in [Dir -> [Name -> Content]] /\ SetFile(d, n, c) /\ d \in Dir
    BY <1>1, FileType
  <2> HIDE DEF d
  <2>2. /\ file'[d][n] = c
        /\ \A e \in Dir, m \in Name : e # d \/ m # n => file'[e][m] = file[e][m]
        /\ \A e \in Dir \ {d} : file'[e] = file[e]
    <3>1. /\ n \in Name /\ c \in Content
      OBVIOUS
    <3>2. file' = [file EXCEPT ![d] = [file[d] EXCEPT ![n] = c]]
      BY <2>1 DEF SetFile
    <3>3. file[d] \in [Name -> Content]
      BY <2>1
    <3>4. file'[d] = [file[d] EXCEPT ![n] = c] /\ \A e \in Dir \ {d} : file'[e] = file[e]
      BY <2>1, <3>2
    <3>5. QED
      BY <3>1, <3>3, <3>4
  <2>3. QED
    BY <1>1, <2>2
<1>3. /\ \A q \in Proc : \A e : WritingTo(q, e)' => WritingTo(q, e)
      /\ \A e \in Dir \ {d} : Steady(e)'
      /\ \A q \in Proc \ {p} : CalmWriter(q)' /\ CalmReader(q)'
  <2>1. \A q \in Proc \ {p} : Same(q)
    BY DEF Same
  <2>2. QED
    BY <1>2, <2>1, WriteElsewhere
<1>4. Steady(d)'
  BY <1>1 DEF Steady
<1>5. CalmReader(p)'
  BY DEF CalmReader
<1>6. CalmWriter(p)'
  <2> SUFFICES ASSUME calm[p]
               PROVE  /\ \A q \in Proc \ {p} : ~ WritingTo(q, job[p].dst)'
                      /\ job[p].src # Absent => steady[job[p].src]
                      /\ file'[job[p].dst]["client"] = Written(p, "client")'
    BY DEF CalmWriter
  <2>1. CalmWriter(p)
    BY DEF DirectoryInv, WriterInv
  <2>2. Written(p, "client")' = Written(p, "client")
    BY <1>1, <1>2 DEF Written
  <2>3. file'[d]["client"] = Written(p, "client")
    <3>1. CASE n = "client"
      BY <1>2, <3>1
    <3>2. CASE n # "client"
      <4>1. file[d]["client"] = Written(p, "client")
        BY <2>1, <3>2 DEF CalmWriter
      <4>2. file'[d]["client"] = file[d]["client"]
        BY <1>2, <3>2 DEF Name
      <4>3. QED
        BY <4>1, <4>2
    <3>3. QED
      BY <3>1, <3>2
  <2>4. \A q \in Proc \ {p} : ~ WritingTo(q, job[p].dst)'
    <3> SUFFICES ASSUME NEW q \in Proc \ {p}, WritingTo(q, job[p].dst)' PROVE FALSE
      OBVIOUS
    <3>1. WritingTo(q, job[p].dst)
      BY DEF WritingTo, Writing
    <3>2. QED
      BY <2>1, <3>1 DEF CalmWriter
  <2>5. QED
    BY <2>1, <2>2, <2>3, <2>4 DEF CalmWriter
<1>7. QED
  BY <1>1, <1>3, <1>4, <1>5, <1>6 DEF DirectoryInv, SteadyInv, WriterInv, ReaderInv

(* Filling server.key ends a write.  The directory is steady if the write  *)
(* was calm all along, and then both files are of one pair.                *)
LEMMA LastStep ==
  ASSUME TypeOK, DirectoryInv, NEW p \in Proc, Fill(p, "server"), NEW d, d = job[p].dst
  PROVE  DirectoryInv'
<1>1. /\ pc[p] = "fill server" /\ pc'[p] = "idle" /\ Writing(p)
      /\ SetFile(d, "server", Written(p, "server"))
      /\ steady' = [steady EXCEPT ![d] = calm[p]]
      /\ UNCHANGED calm
      /\ \A q \in Proc \ {p} : Same(q)
  BY DEF Fill, Filling, Following, Goto, Writing, Same, TypeOK
<1>2. d \in Dir /\ (job[p].src # Absent => job[p].src \in Dir /\ job[p].src # d)
  BY <1>1 DEF TypeOK, Midcall, Write
<1>3. Written(p, "server") \in Content /\ "server" \in Name /\ "client" \in Name
  BY WrittenType DEF Name
<1>4. /\ file'[d]["server"] = Written(p, "server")
      /\ file'[d]["client"] = file[d]["client"]
      /\ \A e \in Dir \ {d} : file'[e] = file[e] /\ steady'[e] = steady[e]
      /\ steady'[d] = calm[p]
  <2>1. /\ file'[d]["server"] = Written(p, "server")
        /\ \A m \in Name : m # "server" => file'[d][m] = file[d][m]
        /\ \A e \in Dir \ {d} : file'[e] = file[e]
    <3>1. file \in [Dir -> [Name -> Content]] /\ SetFile(d, "server", Written(p, "server"))
      BY <1>1, FileType
    <3>2. QED
      BY <1>2, <1>3, <3>1, FileWritten
  <2>2. QED
    BY <1>1, <1>2, <1>3, <2>1 DEF TypeOK
<1>5. /\ \A q \in Proc : \A e : WritingTo(q, e)' => WritingTo(q, e)
      /\ \A e \in Dir \ {d} : Steady(e)'
      /\ \A q \in Proc \ {p} : CalmWriter(q)' /\ CalmReader(q)'
  <2>1. ~ Writing(p)'
    BY <1>1 DEF Writing
  <2>2. QED
    BY <1>1, <1>4, <2>1, WriteElsewhere
<1>6. CalmWriter(p)' /\ CalmReader(p)'
  BY <1>1 DEF CalmWriter, CalmReader, Writing
<1>7. Steady(d)'
  <2> SUFFICES ASSUME calm[p]
               PROVE  /\ Agree(file'[d]["client"], file'[d]["server"])
                      /\ \A q \in Proc : ~ WritingTo(q, d)'
    BY <1>4 DEF Steady, Agree
  <2>1. CalmWriter(p)
    BY DEF DirectoryInv, WriterInv
  <2>2. \A q \in Proc : ~ WritingTo(q, d)'
    <3>1. ~ WritingTo(p, d)'
      BY <1>1 DEF WritingTo, Writing
    <3>2. \A q \in Proc \ {p} : ~ WritingTo(q, d)
      BY <1>1, <2>1 DEF CalmWriter
    <3>3. QED
      BY <1>5, <3>1, <3>2
  <2>3. file'[d]["client"] = Written(p, "client")
    BY <1>1, <1>4, <2>1 DEF CalmWriter
  <2>4. Agree(Written(p, "client"), Written(p, "server"))
    <3>1. CASE job[p].src = Absent
      BY <3>1 DEF Written, Agree
    <3>2. CASE job[p].src # Absent
      <4>1. steady[job[p].src] /\ job[p].src \in Dir
        BY <1>1, <1>2, <2>1, <3>2 DEF CalmWriter
      <4>2. QED
        BY <3>2, <4>1 DEF DirectoryInv, SteadyInv, Steady, Written
    <3>3. QED
      BY <3>1, <3>2
  <2>5. QED
    BY <1>4, <2>2, <2>3, <2>4
<1>8. QED
  BY <1>5, <1>6, <1>7 DEF DirectoryInv, SteadyInv, WriterInv, ReaderInv

-----------------------------------------------------------------------------
(* Every step keeps steady directories one pair each.                      *)
LEMMA DirectoryStep ==
  ASSUME TypeOK, DirectoryInv, NEW p \in Proc, Step(p)
  PROVE  DirectoryInv'
<1>1. ASSUME NEW d \in Dir, NEW s \in Scheme, NEW w \in Width \cup {0}, Generate(p, d, s, w)
      PROVE  DirectoryInv'
  <2>1. UNCHANGED <<file, steady, calm>> /\ pc'[p] = "open client"
    BY <1>1 DEF Generate, NextPair, Goto, TypeOK, history
  <2>2. \A q \in Proc \ {p} : Same(q)
    BY <1>1 DEF Generate, NextPair, Goto, TypeOK, Same
  <2>3. QED
    BY <2>1, <2>2, LeaveStep DEF Writing
<1>2. ASSUME NEW d \in Dir, Save(p, d) PROVE DirectoryInv'
  <2>1. UNCHANGED <<file, steady, calm>> /\ pc'[p] = "open client"
    BY <1>2 DEF Save, Goto, TypeOK, history
  <2>2. \A q \in Proc \ {p} : Same(q)
    BY <1>2 DEF Save, Goto, TypeOK, Same
  <2>3. QED
    BY <2>1, <2>2, LeaveStep DEF Writing
<1>3. ASSUME NEW d \in Dir, Load(p, d) PROVE DirectoryInv'
  <2>1. UNCHANGED <<file, steady, calm>> /\ pc'[p] = "idle"
    BY <1>3 DEF Load, history
  <2>2. \A q \in Proc \ {p} : Same(q)
    BY <1>3 DEF Load, TypeOK, Same
  <2>3. QED
    BY <2>1, <2>2, LeaveStep DEF Writing
<1>4. ASSUME NEW n \in Name, Open(p, n) PROVE DirectoryInv'
  <2>1. CASE job[p].src # Absent /\ file[job[p].src][n] = Absent
    <3>1. UNCHANGED <<file, steady, calm>> /\ pc'[p] = "idle"
      BY <1>4, <2>1 DEF Open, Abandon, Goto, TypeOK, history
    <3>2. \A q \in Proc \ {p} : Same(q)
      BY <1>4, <2>1 DEF Open, Abandon, Goto, TypeOK, Same
    <3>3. QED
      BY <3>1, <3>2, LeaveStep DEF Writing
  <2>2. CASE n = "client" /\ ~ (job[p].src # Absent /\ file[job[p].src][n] = Absent)
    BY <1>4, <2>2, OpenClientStep
  <2>3. CASE n # "client" /\ ~ (job[p].src # Absent /\ file[job[p].src][n] = Absent)
    <3>1. Writing(p) /\ pc[p] # "fill client"
      BY <1>4, <2>3 DEF Open, Opening, Writing, Name
    <3>2. SetFile(job[p].dst, n, Torn) /\ Torn \in Content
      BY <1>4, <2>3 DEF Open, Content
    <3>3. UNCHANGED <<job, handle, steady, calm>> /\ pc' = [pc EXCEPT ![p] = "fill server"]
      BY <1>4, <2>3 DEF Open, Goto, history
    <3>4. /\ \A q \in Proc \ {p} : pc'[q] = pc[q]
          /\ pc'[p] \in {"open server", "fill server"}
      BY <3>3 DEF TypeOK
    <3>5. QED
      BY <2>3, <3>1, <3>2, <3>3, <3>4, MiddleStep
  <2>4. QED
    BY <2>1, <2>2, <2>3
<1>5. ASSUME NEW n \in Name, Fill(p, n) PROVE DirectoryInv'
  <2>1. CASE n = "client"
    <3>1. Writing(p)
      BY <1>5, <2>1 DEF Fill, Filling, Writing
    <3>2. SetFile(job[p].dst, n, Written(p, n)) /\ Written(p, n) \in Content
      BY <1>5, <2>1, WrittenType DEF Fill
    <3>3. UNCHANGED <<job, handle, steady, calm>> /\ pc' = [pc EXCEPT ![p] = "open server"]
      BY <1>5, <2>1 DEF Fill, Following, Goto
    <3>4. /\ \A q \in Proc \ {p} : pc'[q] = pc[q]
          /\ pc'[p] \in {"open server", "fill server"}
      BY <3>3 DEF TypeOK
    <3>5. QED
      BY <2>1, <3>1, <3>2, <3>3, <3>4, MiddleStep
  <2>2. CASE n = "server"
    <3>1. \A d : d = job[p].dst => DirectoryInv'
      BY <1>5, <2>2, LastStep
    <3>2. QED
      BY <3>1
  <2>3. QED
    BY <2>1, <2>2 DEF Name
<1>6. ASSUME NEW s \in Scheme, NEW g \in Width, Run(p, s, g) PROVE DirectoryInv'
  BY <1>6, RunStep
<1>7. CASE Return(p)
  <2>1. UNCHANGED <<file, steady, calm>> /\ pc'[p] = "idle"
    BY <1>7 DEF Return, Abandon, Goto, TypeOK, history
  <2>2. \A q \in Proc \ {p} : Same(q)
    BY <1>7 DEF Return, Abandon, Goto, TypeOK, Same
  <2>3. QED
    BY <2>1, <2>2, LeaveStep DEF Writing
<1>8. CASE Crash(p)
  <2>1. UNCHANGED <<file, steady, calm>> /\ pc'[p] = "idle"
    BY <1>8 DEF Crash, Abandon, Goto, TypeOK, history
  <2>2. \A q \in Proc \ {p} : Same(q)
    BY <1>8 DEF Crash, Abandon, Goto, TypeOK, Same
  <2>3. QED
    BY <2>1, <2>2, LeaveStep DEF Writing
<1>9. QED
  BY <1>1, <1>2, <1>3, <1>4, <1>5, <1>6, <1>7, <1>8 DEF Step

(* A result says it is calm only if the files it was computed with were    *)
(* read from a steady directory, and those are of one pair.                *)
LEMMA ResultStep ==
  ASSUME TypeOK, DirectoryInv, RightWhenUndisturbed, NEW p \in Proc, Step(p)
  PROVE  RightWhenUndisturbed'
<1>1. CASE ~ Return(p)
  <2>1. \A q \in Proc : result'[q] \in {result[q], NoResult}
    BY <1>1 DEF Step, Generate, NextPair, Save, Load, Open, Fill, Run, Crash, TypeOK
  <2>2. QED
    BY <2>1 DEF RightWhenUndisturbed, Returned
<1>2. CASE Return(p)
  <2>1. /\ pc[p] = "read server" /\ handle[p] \in Handle
        /\ \A q \in Proc \ {p} : result'[q] = result[q]
    BY <1>2 DEF Return, TypeOK, Midcall
  <2>2. ASSUME Returned(p)', result'[p].calm
        PROVE  result'[p].ck.pair = result'[p].sk.pair
    <3>1. /\ Decodes(job[p].ck, file[handle[p].dir]["server"], job[p].scheme, job[p].model)
          /\ calm[p]
          /\ result'[p].ck = job[p].ck /\ result'[p].sk = file[handle[p].dir]["server"]
      BY <1>2, <2>2 DEF Return, Returned, TypeOK
    <3>2. job[p].ck \in Key /\ file[handle[p].dir]["server"] \in Key
      BY <3>1 DEF Decodes, ClientKeyDecodes, TfheEvaluates, CkksEvaluates
    <3>3. steady[handle[p].dir] /\ job[p].ck = file[handle[p].dir]["client"]
      BY <2>1, <3>1 DEF DirectoryInv, ReaderInv, CalmReader
    <3>4. Agree(job[p].ck, file[handle[p].dir]["server"])
      BY <2>1, <3>3 DEF DirectoryInv, SteadyInv, Steady, Handle
    <3>5. QED
      BY <3>1, <3>2, <3>4 DEF Agree
  <2>3. QED
    BY <2>1, <2>2 DEF RightWhenUndisturbed, Returned
<1>3. QED
  BY <1>1, <1>2

(* What a lone client writes is a key: the one it generated, or one of a   *)
(* full directory.                                                         *)
LEMMA LoneWrites ==
  ASSUME TypeOK, DirectoryInv, NEW p \in Proc, Lone(p), Writing(p), NEW n \in Name
  PROVE  /\ calm[p]
         /\ Written(p, n) \in Key
         /\ job[p].src # Absent => file[job[p].src][n] \in Key
<1>1. calm[p]
  BY DEF Lone
<1>2. job[p] \in Write /\ (job[p].src = Absent => job[p].key \in Key)
  BY DEF Writing, TypeOK, Midcall
<1>3. ASSUME job[p].src # Absent PROVE file[job[p].src][n] \in Key
  <2>1. steady[job[p].src] /\ job[p].src \in Dir
    BY <1>1, <1>2, <1>3 DEF DirectoryInv, WriterInv, CalmWriter, Write
  <2>2. ~ WritingTo(p, job[p].src)
    BY <2>1 DEF DirectoryInv, SteadyInv, Steady
  <2>3. Full(job[p].src)
    BY <2>1, <2>2 DEF Lone, Empty
  <2>4. QED
    BY <2>3 DEF Full
<1>4. QED
  BY <1>1, <1>2, <1>3 DEF Written

(* A lone writer leaves the other directories empty or full.               *)
LEMMA LoneElsewhere ==
  ASSUME NEW p \in Proc, Lone(p), NEW d,
         \A e \in Dir \ {d} : steady'[e] = steady[e] /\ file'[e] = file[e],
         \A e \in Dir : WritingTo(p, e) => e = d
  PROVE  \A e \in Dir \ {d} : Empty(e)' \/ Full(e)'
<1> SUFFICES ASSUME NEW e \in Dir \ {d} PROVE Empty(e)' \/ Full(e)'
  OBVIOUS
<1>1. Empty(e) \/ Full(e)
  BY DEF Lone
<1>2. steady'[e] = steady[e] /\ file'[e] = file[e]
  OBVIOUS
<1>3. QED
  BY <1>1, <1>2 DEF Empty, Full

(* Every step of a lone client but its death keeps its directories in      *)
(* order.                                                                  *)
LEMMA LoneStep ==
  ASSUME TypeOK, DirectoryInv, NEW p \in Proc, Lone(p), Step(p), ~ Crash(p)
  PROVE  Lone(p)'
<1> USE Disjoint
<1>0. ASSUME UNCHANGED <<file, steady, handle>>, pc'[p] # "read server", ~ Writing(p),
             ~ Writing(p)', \A q \in Proc \ {p} : pc'[q] = pc[q], ~ Returned(p)'
      PROVE  Lone(p)'
  BY <1>0 DEF Lone, WritingTo, Empty, Full
<1>1. ASSUME NEW d \in Dir, NEW s \in Scheme, NEW w \in Width \cup {0}, Generate(p, d, s, w)
      PROVE  Lone(p)'
  BY <1>0, <1>1 DEF Generate, NextPair, Goto, TypeOK, Writing, Returned, history
<1>2. ASSUME NEW d \in Dir, Save(p, d) PROVE Lone(p)'
  BY <1>0, <1>2 DEF Save, Goto, TypeOK, Writing, Returned, history
<1>3. ASSUME NEW d \in Dir, Load(p, d) PROVE Lone(p)'
  <2>1. ~ Writing(p) /\ file[d]["client"] \in Key
    BY <1>3 DEF Load, Writing
  <2>2. Full(d)
    BY <2>1 DEF Lone, Empty, WritingTo, Name
  <2>3. handle'[p].dir = d /\ steady'[d] /\ ~ Returned(p)'
    BY <1>3, <2>2 DEF Load, TypeOK, HandleOn, Full, Returned, history
  <2>4. UNCHANGED <<file, steady, pc, job, calm>>
    BY <1>3 DEF Load, history
  <2>5. QED
    BY <2>3, <2>4 DEF Lone, Writing, WritingTo, Empty, Full
<1>4. ASSUME NEW n \in Name, Open(p, n) PROVE Lone(p)'
  <2>1. CASE job[p].src # Absent /\ file[job[p].src][n] = Absent
    <3>1. ~ Writing(p)
      BY <2>1, LoneWrites
    <3>2. UNCHANGED <<file, steady, calm, handle, result>> /\ pc' = [pc EXCEPT ![p] = "idle"]
      BY <1>4, <2>1 DEF Open, Abandon, Goto, history
    <3>3. QED
      BY <3>1, <3>2 DEF Lone, TypeOK, Writing, WritingTo, Empty, Full, Returned
  <2>2. CASE ~ (job[p].src # Absent /\ file[job[p].src][n] = Absent)
    <3> SUFFICES ASSUME NEW d, d = job[p].dst PROVE Lone(p)'
      OBVIOUS
    <3>1. d \in Dir /\ (job[p].src # Absent => job[p].src \in Dir /\ handle[p].dir = job[p].src)
      <4>1. job[p] \in Write /\ (job[p].src # Absent => handle[p].dir = job[p].src)
        BY <1>4 DEF Open, Opening, TypeOK, Midcall, Name
      <4>2. QED
        BY <4>1 DEF Write
    <3>2. \A e \in Dir \ {d} : file'[e] = file[e]
      <4>1. SetFile(d, n, Torn) /\ Torn \in Content
        BY <1>4, <2>2 DEF Open, Content
      <4>2. QED
        BY <3>1, <4>1, FileWritten, FileType
    <3>3. /\ pc' = [pc EXCEPT ![p] = IF n = "client" THEN "fill client" ELSE "fill server"]
          /\ UNCHANGED <<job, handle, result>>
      BY <1>4, <2>2 DEF Open, Goto
    <3>4. \A e \in Dir \ {d} : steady'[e] = steady[e]
      BY <1>4, <2>2, <3>1 DEF Open, Disturb, TypeOK, history
    <3>5. calm'[p]
      <4>1. CASE n = "client"
        <5>1. \A q \in Proc \ {p} : ~ Writing(q)
          BY DEF Lone, Writing
        <5>2. job[p].src = Absent \/ steady[job[p].src]
          <6>1. ~ Writing(p)
            BY <1>4, <4>1 DEF Open, Opening, Writing
          <6>2. job[p].src # Absent => handle[p] # NoHandle
            BY <3>1 DEF NoHandle
          <6>3. QED
            BY <3>1, <6>1, <6>2 DEF Lone, WritingTo
        <5>3. QED
          BY <1>4, <2>2, <4>1, <5>1, <5>2 DEF Open, Disturb, TypeOK
      <4>2. CASE n # "client"
        BY <1>4, <2>2, <4>2, LoneWrites DEF Open, Opening, Writing, Name, history
      <4>3. QED
        BY <4>1, <4>2
    <3>6. WritingTo(p, d)' /\ \A q \in Proc \ {p} : pc'[q] = pc[q]
      BY <3>3 DEF WritingTo, Writing, TypeOK
    <3>7. \A e \in Dir : WritingTo(p, e) => e = d
      BY DEF WritingTo
    <3>8. \A e \in Dir : Empty(e)' \/ Full(e)' \/ WritingTo(p, e)'
      <4>1. \A e \in Dir \ {d} : Empty(e)' \/ Full(e)'
        BY <3>2, <3>4, <3>7, LoneElsewhere
      <4>2. QED
        BY <3>6, <4>1
    <3>9. handle'[p] # NoHandle => steady'[handle'[p].dir] \/ WritingTo(p, handle[p].dir)'
      <4> SUFFICES ASSUME handle[p] # NoHandle, handle[p].dir # d
                   PROVE  steady'[handle[p].dir]
        BY <3>3, <3>6
      <4>1. handle[p].dir \in Dir
        BY DEF TypeOK, Handle
      <4>2. steady[handle[p].dir]
        BY <3>7, <4>1 DEF Lone
      <4>3. QED
        BY <3>4, <4>1, <4>2
    <3>10. QED
      BY <3>3, <3>5, <3>6, <3>8, <3>9 DEF Lone, Returned
  <2>3. QED
    BY <2>1, <2>2
<1>5. ASSUME NEW n \in Name, Fill(p, n) PROVE Lone(p)'
  <2> SUFFICES ASSUME NEW d, d = job[p].dst PROVE Lone(p)'
    OBVIOUS
  <2>1. Writing(p) /\ d \in Dir /\ WritingTo(p, d)
    BY <1>5, WrittenType DEF Fill, Filling, Writing, WritingTo, Name, Write
  <2>2. /\ Written(p, n) \in Key /\ calm[p]
        /\ \A m \in Name : Written(p, m) \in Key
    BY <2>1, LoneWrites
  <2>3. /\ file'[d][n] = Written(p, n)
        /\ \A m \in Name : m # n => file'[d][m] = file[d][m]
        /\ \A e \in Dir \ {d} : file'[e] = file[e]
    <3>1. SetFile(d, n, Written(p, n)) /\ Written(p, n) \in Content
      BY <1>5, <2>2 DEF Fill, Content
    <3>2. /\ file'[d][n] = Written(p, n)
          /\ \A e \in Dir, m \in Name : e # d \/ m # n => file'[e][m] = file[e][m]
          /\ \A e \in Dir \ {d} : file'[e] = file[e]
      BY <2>1, <3>1, FileWritten, FileType
    <3>3. QED
      BY <2>1, <3>2
  <2>4. /\ UNCHANGED <<calm, result>>
        /\ \A q \in Proc \ {p} : pc'[q] = pc[q]
        /\ pc'[p] = Following(p, n)
    BY <1>5 DEF Fill, Goto, TypeOK
  <2>5. \A e \in Dir : WritingTo(p, e) => e = d
    BY DEF WritingTo
  <2>6. CASE n = "client"
    <3>1. UNCHANGED <<handle, job, steady>> /\ pc'[p] = "open server"
      BY <1>5, <2>4, <2>6 DEF Fill, Following
    <3>2. WritingTo(p, d)'
      BY <2>1, <3>1 DEF WritingTo, Writing
    <3>3. \A e \in Dir : Empty(e)' \/ Full(e)' \/ WritingTo(p, e)'
      <4>1. \A e \in Dir \ {d} : Empty(e)' \/ Full(e)'
        BY <2>3, <2>5, <3>1, LoneElsewhere
      <4>2. QED
        BY <3>2, <4>1
    <3>4. handle'[p] # NoHandle => steady'[handle'[p].dir] \/ WritingTo(p, handle[p].dir)'
      <4>1. WritingTo(p, handle[p].dir) => WritingTo(p, handle[p].dir)'
        BY <3>1 DEF WritingTo, Writing
      <4>2. QED
        BY <3>1, <4>1 DEF Lone
    <3>5. QED
      BY <2>2, <2>4, <3>1, <3>3, <3>4 DEF Lone, Returned
  <2>7. CASE n = "server"
    <3>1. pc[p] = "fill server" /\ pc'[p] = "idle"
      BY <1>5, <2>4, <2>7 DEF Fill, Filling, Following
    <3>2. steady' = [steady EXCEPT ![d] = calm[p]] /\ handle'[p].dir = d
      <4>1. /\ steady' = [steady EXCEPT ![d] = calm[p]]
            /\ handle'[p] = IF job[p].src = Absent THEN HandleOn(d, job[p].key)
                                                   ELSE [handle[p] EXCEPT !.dir = d]
        BY <1>5, <2>7 DEF Fill, Following, TypeOK
      <4>2. job[p].src # Absent => handle[p] \in Handle
        <5>1. job[p].src # Absent => handle[p].dir # Absent
          <6>1. job[p] \in Write /\ (job[p].src # Absent => handle[p].dir = job[p].src)
            BY <2>1 DEF Writing, TypeOK, Midcall
          <6>2. QED
            BY <6>1 DEF Write
        <5>2. job[p].src # Absent => handle[p] # NoHandle
          BY <5>1 DEF NoHandle
        <5>3. QED
          BY <5>2 DEF TypeOK
      <4>3. QED
        BY <4>1, <4>2 DEF HandleOn, Handle
    <3>3. steady'[d] /\ \A e \in Dir \ {d} : steady'[e] = steady[e]
      BY <2>1, <2>2, <3>2 DEF TypeOK
    <3>4. Full(d)'
      <4>1. file[d]["client"] = Written(p, "client")
        BY <2>1, <2>2, <3>1 DEF DirectoryInv, WriterInv, CalmWriter
      <4>2. file'[d]["client"] \in Key /\ file'[d]["server"] \in Key
        BY <2>2, <2>3, <2>7, <4>1 DEF Name
      <4>3. QED
        BY <3>3, <4>2 DEF Full, Name
    <3>5. \A e \in Dir : Empty(e)' \/ Full(e)' \/ WritingTo(p, e)'
      <4>1. \A e \in Dir \ {d} : Empty(e)' \/ Full(e)'
        BY <2>3, <2>5, <3>3, LoneElsewhere
      <4>2. QED
        BY <3>4, <4>1
    <3>6. QED
      BY <2>4, <3>1, <3>2, <3>3, <3>5 DEF Lone, Writing, Returned
  <2>8. QED
    BY <2>6, <2>7 DEF Name
<1>6. ASSUME NEW s \in Scheme, NEW g \in Width, Run(p, s, g) PROVE Lone(p)'
  <2>1. pc[p] = "idle" /\ pc' = [pc EXCEPT ![p] = "read server"] /\ handle[p] # NoHandle
    BY <1>6 DEF Run, Goto
  <2>2. steady[handle[p].dir]
    BY <2>1 DEF Lone, Writing, WritingTo
  <2>3. calm'[p] /\ ~ Returned(p)' /\ UNCHANGED <<file, steady, handle>>
    BY <1>6, <2>2 DEF Run, TypeOK, Returned
  <2>4. QED
    BY <2>1, <2>3 DEF Lone, TypeOK, Writing, WritingTo, Empty, Full
<1>7. CASE Return(p)
  <2>1. /\ pc[p] = "read server" /\ pc' = [pc EXCEPT ![p] = "idle"]
        /\ UNCHANGED <<file, steady, calm, handle>>
    BY <1>7 DEF Return, Abandon, Goto, history
  <2>2. calm[p]
    BY <2>1 DEF Lone
  <2>3. Returned(p)' => result'[p].calm
    BY <1>7, <2>2 DEF Return, Returned, TypeOK
  <2>4. QED
    BY <2>1, <2>3 DEF Lone, TypeOK, Writing, WritingTo, Empty, Full
<1>8. QED
  BY <1>1, <1>2, <1>3, <1>4, <1>5, <1>6, <1>7 DEF Step

-----------------------------------------------------------------------------
(* One user is some process; it needs finitely many processes.             *)
LEMMA AloneMeansOne ==
  ASSUME TypeOK, Alone
  PROVE  \E p \in Proc : users = {p}
<1>1. IsFiniteSet(users)
  BY BoundsAssumption, FS_Subset DEF TypeOK
<1>2. PICK p : users = {p}
  BY <1>1, FS_Singleton DEF Alone
<1>3. QED
  BY <1>2 DEF TypeOK

(* The invariant the theorems follow from.                                 *)
LEMMA KeyInvHolds == Spec => []KeyInv
<1> USE Disjoint
<1>1. Init => KeyInv
  <2> SUFFICES ASSUME Init PROVE KeyInv
    OBVIOUS
  <2>1. TypeOK
    BY BoundsAssumption DEF Init, TypeOK, Midcall, Content
  <2>2. DirectoryInv
    BY DEF Init, DirectoryInv, SteadyInv, WriterInv, ReaderInv, Steady, CalmWriter, CalmReader, Writing
  <2>3. RightWhenUndisturbed
    BY DEF Init, RightWhenUndisturbed, Returned
  <2>4. \A p \in users : Lone(p)
    BY DEF Init, Lone, Empty, Writing, Returned
  <2>5. QED
    BY <2>1, <2>2, <2>3, <2>4 DEF KeyInv, LoneInv
<1>2. KeyInv /\ [Next]_vars => KeyInv'
  <2> SUFFICES ASSUME KeyInv, [Next]_vars PROVE KeyInv'
    OBVIOUS
  <2>1. CASE Next
    <3>1. PICK p \in users : Step(p)
      BY <2>1 DEF Next
    <3>2. UNCHANGED users /\ p \in Proc /\ TypeOK /\ DirectoryInv /\ RightWhenUndisturbed
      BY <2>1 DEF Next, KeyInv, TypeOK
    <3>3. TypeOK'
      BY <3>1, <3>2, TypeStep
    <3>4. DirectoryInv'
      BY <3>1, <3>2, DirectoryStep
    <3>5. RightWhenUndisturbed'
      BY <3>1, <3>2, ResultStep
    <3>6. LoneInv'
      <4> SUFFICES ASSUME Alone' PROVE \A q \in users' : Lone(q)'
        BY DEF LoneInv
      <4>1. ~ Crash(p)
        <5>1. crashes \in 0 .. MaxCrash
          BY <3>2 DEF TypeOK
        <5>2. QED
          BY <5>1, BoundsAssumption DEF Crash, Alone
      <4>2. crashes' = crashes
        BY <3>1, <4>1 DEF Step, Generate, NextPair, Save, Load, Open, Fill, Run, Return
      <4>3. Alone
        BY <3>2, <4>2 DEF Alone
      <4>4. Lone(p)'
        BY <3>1, <3>2, <4>1, <4>3, LoneStep DEF KeyInv, LoneInv
      <4>5. users' = {p}
        BY <3>1, <3>2, <4>3, AloneMeansOne
      <4>6. QED
        BY <4>4, <4>5
    <3>7. QED
      BY <3>3, <3>4, <3>5, <3>6 DEF KeyInv
  <2>2. CASE UNCHANGED vars
    <3> USE DEF vars
    <3>1. TypeOK'
      BY <2>2 DEF KeyInv, TypeOK, Midcall
    <3>2. DirectoryInv'
      <4>1. \A d \in Dir : Steady(d)'
        BY <2>2 DEF KeyInv, DirectoryInv, SteadyInv, Steady, Agree, WritingTo, Writing
      <4>2. \A p \in Proc : CalmWriter(p)'
        BY <2>2 DEF KeyInv, DirectoryInv, WriterInv, CalmWriter, WritingTo, Writing, Written
      <4>3. \A p \in Proc : CalmReader(p)'
        BY <2>2 DEF KeyInv, DirectoryInv, ReaderInv, CalmReader
      <4>4. QED
        BY <4>1, <4>2, <4>3 DEF DirectoryInv, SteadyInv, WriterInv, ReaderInv
    <3>3. RightWhenUndisturbed'
      BY <2>2 DEF KeyInv, RightWhenUndisturbed, Returned
    <3>4. ASSUME NEW p \in Proc, Lone(p) PROVE Lone(p)'
      BY <2>2, <3>4 DEF Lone, Empty, Full, WritingTo, Writing, Returned
    <3>5. LoneInv'
      BY <2>2, <3>4 DEF KeyInv, LoneInv, Alone, TypeOK
    <3>6. QED
      BY <3>1, <3>2, <3>3, <3>5 DEF KeyInv
  <2>3. QED
    BY <2>1, <2>2
<1>3. QED
  BY <1>1, <1>2, PTL DEF Spec

(* However many clients share the directories, copy them and die half way  *)
(* through a write: a result is noise only if a write overlapped the one   *)
(* that left its keys, or began between its two reads (client.py:200).     *)
THEOREM UndisturbedIsRight == Spec => []RightWhenUndisturbed
BY KeyInvHolds, PTL DEF KeyInv

(* A client with the directories to itself decrypts with the pair it       *)
(* evaluated under, on handles however old (client.py:200).                *)
THEOREM LoneClientIsRight == Spec => []RightResult
<1>1. KeyInv => RightResult
  BY DEF KeyInv, LoneInv, Lone, RightResult, RightWhenUndisturbed, TypeOK
<1>2. QED
  BY <1>1, KeyInvHolds, PTL

(* Its calls leave one pair or nothing in a directory, also when they      *)
(* generate over an old pair or copy over one (client.py:73, 110).         *)
THEOREM LoneDirectoriesArePairs == Spec => []DirectoriesArePairs
<1>1. KeyInv => DirectoriesArePairs
  <2> SUFFICES ASSUME KeyInv, Alone, Quiet PROVE DirectoriesArePairs
    BY DEF DirectoriesArePairs
  <2>1. PICK p \in Proc : users = {p}
    BY AloneMeansOne DEF KeyInv
  <2>2. Lone(p)
    BY <2>1 DEF KeyInv, LoneInv
  <2>3. \A d \in Dir : Empty(d) \/ Full(d)
    BY <2>2 DEF Lone, WritingTo, Writing, Quiet
  <2>4. ASSUME NEW d \in Dir, Full(d) PROVE file[d]["client"].pair = file[d]["server"].pair
    BY <2>4 DEF KeyInv, DirectoryInv, SteadyInv, Steady, Full, Agree, Name
  <2>5. QED
    BY <2>3, <2>4, Disjoint DEF DirectoriesArePairs, Empty, Full, Name
<1>2. QED
  BY <1>1, KeyInvHolds, PTL

-----------------------------------------------------------------------------
(* The command line.  Its steps are steps of the key store, or leave the   *)
(* key store alone.                                                        *)
LEMMA CmdStep ==
  ASSUME NEW p \in users, CmdNext, KeyStep(p) \/ Command(p)
  PROVE  Step(p) \/ UNCHANGED vars
<1>1. CASE KeyStep(p)
  <2>1. CASE p \in shells
    <3>1. CASE \E d \in Dir, w \in Width : Keygen(p, d, w)
      BY <3>1 DEF Keygen, Step, Scheme
    <3>2. CASE \E n \in Name : Open(p, n) \/ Fill(p, n)
      BY <3>2 DEF Step
    <3>3. QED
      BY <1>1, <2>1, <3>1, <3>2 DEF KeyStep
  <2>2. CASE p \notin shells
    BY <1>1, <2>2 DEF KeyStep
  <2>3. QED
    BY <2>1, <2>2
<1>2. CASE Command(p)
  <2>1. CASE Kill(p)
    BY <2>1 DEF Kill, Step
  <2>2. CASE ~ Kill(p)
    BY <1>2, <2>2 DEF Command, Encrypt, Serve, Decrypt, Evaluate, OpenWire, FillWire, Report, Predict
  <2>3. QED
    BY <2>1, <2>2
<1>3. QED
  BY <1>1, <1>2

(* The command line and the Python clients together are clients of the key *)
(* store: every theorem above holds of them.                               *)
THEOREM CommandsAreClients == CmdSpec => Spec
<1>1. CmdInit => Init
  BY DEF CmdInit
<1>2. [CmdNext]_allvars => [Next]_vars
  <2> SUFFICES ASSUME [CmdNext]_allvars PROVE [Next]_vars
    OBVIOUS
  <2>1. CASE CmdNext
    <3>1. PICK p \in users : KeyStep(p) \/ Command(p)
      BY <2>1 DEF CmdNext
    <3>2. Step(p) \/ UNCHANGED vars
      BY <2>1, <3>1, CmdStep
    <3>3. UNCHANGED users
      BY <2>1 DEF CmdNext
    <3>4. QED
      BY <3>2, <3>3 DEF Next
  <2>2. CASE UNCHANGED allvars
    BY <2>2 DEF allvars
  <2>3. QED
    BY <2>1, <2>2
<1>3. QED
  BY <1>1, <1>2, PTL DEF CmdSpec, Spec

-----------------------------------------------------------------------------
(* What the command line adds to the types.                                *)
CmdTypes ==
  /\ shells \subseteq users
  /\ wire \in [Box -> [Wire -> Batch \cup {Absent, Torn}]]
  /\ cmd \in [Proc -> Reading \cup Sending \cup Printing \cup {NoCmd}]
  /\ asked \in 0 .. MaxRequests
  /\ printed \in Printout \cup {NoAnswer}
  /\ trip \in [Proc -> Trip \cup {NoTrip}]
  /\ \A p \in Proc : cmd[p] # NoCmd => p \in shells /\ pc[p] = "idle"

(* A command by what it is at.                                             *)
LEMMA CmdShapes ==
  ASSUME CmdTypes, NEW p \in Proc
  PROVE  /\ cmd[p] \in Reading \cup Sending \cup Printing \cup {NoCmd}
         /\ cmd[p].at = "read" => cmd[p] \in Reading
         /\ cmd[p].at \in {"open", "fill"} => cmd[p] \in Sending
         /\ cmd[p].at = "print" => cmd[p] \in Printing
         /\ cmd[p].at = "none" <=> cmd[p] = NoCmd
         /\ cmd[p].at \in {"none", "read", "open", "fill", "print"}
BY DEF CmdTypes, Reading, Sending, Printing, NoCmd

(* A trip that is not over has a directory and a box.                      *)
LEMMA TripShapes ==
  ASSUME CmdTypes, NEW p \in Proc
  PROVE  /\ trip[p] # NoTrip => trip[p] \in Trip
         /\ \A t \in Trip : t # NoTrip
BY Disjoint DEF CmdTypes, Trip, NoTrip

(* Batches are told from files that hold none.                             *)
LEMMA WireShapes ==
  ASSUME CmdTypes, NEW b \in Box, NEW n \in Wire
  PROVE  /\ wire[b][n] \in Batch \cup {Absent, Torn}
         /\ BatchDecodes(wire[b][n]) <=> wire[b][n] \notin {Absent, Torn}
BY WireAssumption DEF CmdTypes, BatchDecodes

(* Touching keeps the types of trips.                                      *)
LEMMA TouchTypes ==
  ASSUME CmdTypes, NEW c, Touch(c)
  PROVE  trip' \in [Proc -> Trip \cup {NoTrip}]
<1>1. ASSUME NEW q \in Proc, trip[q] # NoTrip PROVE Further(trip[q], c) \in Trip
  BY <1>1, TripShapes DEF Further, Trip
<1>2. QED
  BY <1>1 DEF Touch, CmdTypes

(* The steps of the command line keep them.                                *)
LEMMA CmdTypesStep ==
  ASSUME TypeOK, CmdTypes, CmdNext, NEW p \in users, KeyStep(p) \/ Command(p)
  PROVE  CmdTypes'
<1> USE RequestAssumption, BoundsAssumption
<1>a. p \in Proc
  BY DEF TypeOK
<1>b. UNCHANGED <<users, shells>>
  BY DEF CmdNext
<1>1. CASE KeyStep(p)
  <2>1. \A q \in Proc \ {p} : pc'[q] = pc[q]
    BY <1>1, <1>a DEF KeyStep, Keygen, Step, Generate, NextPair, Save, Load, Open, Fill, Run, Return, Crash,
       Abandon, Goto, TypeOK
  <2>2. \A q \in Proc : cmd'[q] # NoCmd => q \in shells' /\ pc'[q] = "idle"
    BY <1>1, <1>b, <2>1 DEF KeyStep, CmdTypes
  <2>3. QED
    BY <1>1, <1>b, <2>2 DEF KeyStep, CmdTypes
<1>2. ASSUME NEW d \in Dir, NEW b \in Box, Encrypt(p, d, b) PROVE CmdTypes'
  <2>1. asked' \in 1 .. MaxRequests /\ asked' = asked + 1 /\ pc[p] = "idle" /\ p \in shells
    BY <1>2 DEF Encrypt, Prompt, CmdTypes
  <2>2. file[d]["client"].pair \in 1 .. MaxKeys
    BY <1>2 DEF Encrypt, ClientKeyIn, ClientKeyDecodes, Key
  <2>3. cmd'[p] \in Sending
    BY <1>2, <1>a, <2>1, <2>2 DEF Encrypt, Become, Sending, Batch, Wire, Requests, CmdTypes
  <2>4. trip'[p] \in Trip \cup {NoTrip}
    BY <1>2, <1>a, <2>1 DEF Encrypt, Trip, Requests, CmdTypes
  <2>5. QED
    BY <1>2, <1>a, <1>b, <2>1, <2>3, <2>4 DEF Encrypt, Become, CmdTypes, vars
<1>3. ASSUME NEW d \in Dir, NEW b \in Box, Decrypt(p, d, b) PROVE CmdTypes'
  <2>1. cmd'[p] \in Printing
    BY <1>3, <1>a DEF Decrypt, ClientKeyIn, ClientKeyDecodes, Key, Become, Printing, CmdTypes
  <2>2. QED
    BY <1>3, <1>a, <1>b, <2>1 DEF Decrypt, Prompt, Become, CmdTypes, vars
<1>4. ASSUME NEW d \in Dir, NEW b \in Box, NEW g \in Width, Serve(p, d, b, g) PROVE CmdTypes'
  <2>1. Sent(d, b) \subseteq Requests
    BY TripShapes DEF Sent, Trip
  <2>2. cmd'[p] \in Reading
    BY <1>4, <1>a, <2>1 DEF Serve, ServerKeyIn, TfheEvaluates, Key, Become, Reading, CmdTypes
  <2>3. QED
    BY <1>4, <1>a, <1>b, <2>2 DEF Serve, Prompt, Become, CmdTypes, vars
<1>5. CASE Evaluate(p)
  <2>1. cmd[p] \in Reading /\ cmd[p] # NoCmd
    BY <1>5, <1>a, CmdShapes DEF Evaluate
  <2>2. cmd'[p] \in Sending \cup {NoCmd}
    BY <1>5, <1>a, <2>1 DEF Evaluate, Become, BatchDecodes, Batch, Reading, Sending, Wire, CmdTypes
  <2>3. QED
    BY <1>5, <1>a, <1>b, <2>1, <2>2 DEF Evaluate, Become, CmdTypes, vars
<1>6. CASE OpenWire(p)
  <2>1. cmd[p] \in Sending /\ cmd[p] # NoCmd
    BY <1>6, <1>a, CmdShapes DEF OpenWire
  <2>2. cmd'[p] \in Sending
    BY <1>6, <1>a, <2>1 DEF OpenWire, Become, Sending, CmdTypes
  <2>3. trip' \in [Proc -> Trip \cup {NoTrip}]
    BY <1>6, TouchTypes DEF OpenWire
  <2>4. wire' \in [Box -> [Wire -> Batch \cup {Absent, Torn}]]
    BY <1>6, <2>1 DEF OpenWire, Sending, CmdTypes
  <2>5. QED
    BY <1>6, <1>a, <1>b, <2>1, <2>2, <2>3, <2>4 DEF OpenWire, Become, CmdTypes, vars
<1>7. CASE FillWire(p)
  <2>1. cmd[p] \in Sending /\ cmd[p] # NoCmd
    BY <1>7, <1>a, CmdShapes DEF FillWire
  <2>2. trip' \in [Proc -> Trip \cup {NoTrip}]
    BY <1>7, TouchTypes DEF FillWire
  <2>3. wire' \in [Box -> [Wire -> Batch \cup {Absent, Torn}]]
    BY <1>7, <2>1 DEF FillWire, Sending, CmdTypes
  <2>4. QED
    BY <1>7, <1>a, <1>b, <2>1, <2>2, <2>3 DEF FillWire, Become, CmdTypes, vars
<1>8. CASE Report(p)
  <2>1. cmd[p] \in Printing /\ cmd[p] # NoCmd
    BY <1>8, <1>a, CmdShapes DEF Report
  <2>2. Awaited(p, cmd[p].dir, cmd[p].box) \in 0 .. MaxRequests
    BY <1>a, TripShapes DEF Awaited, Trip, Requests
  <2>3. cmd[p].ck \in 1 .. OwnPair
    BY <2>1 DEF Printing, OwnPair
  <2>4. printed' \in Printout \cup {NoAnswer}
    BY <1>8, <2>2, <2>3 DEF Report, BatchDecodes, Printout
  <2>5. QED
    BY <1>8, <1>a, <1>b, <2>4 DEF Report, Become, CmdTypes, vars
<1>9. CASE Predict(p)
  <2>1. asked + 1 \in 1 .. MaxRequests
    BY <1>9 DEF Predict, CmdTypes
  <2>2. printed' \in Printout
    BY <1>9, <2>1 DEF Predict, Printout, OwnPair, OwnBatch, Requests
  <2>3. QED
    BY <1>9, <1>b, <2>1, <2>2 DEF Predict, CmdTypes, vars
<1>10. CASE Kill(p)
  <2>1. \A q \in Proc \ {p} : pc'[q] = pc[q]
    BY <1>10, <1>a DEF Kill, Crash, Abandon, Goto, TypeOK
  <2>2. QED
    BY <1>10, <1>a, <1>b, <2>1 DEF Kill, Become, CmdTypes
<1>11. QED
  BY <1>1, <1>2, <1>3, <1>4, <1>5, <1>6, <1>7, <1>8, <1>9, <1>10 DEF Command

(* The invariant for the types of both layers.                             *)
THEOREM CommandTypesCorrect == CmdSpec => []CmdTypeOK
<1>1. CmdInit => CmdTypes
  BY RequestAssumption DEF CmdInit, CmdTypes
<1>2. TypeOK /\ CmdTypes /\ [CmdNext]_allvars => CmdTypes'
  <2> SUFFICES ASSUME TypeOK, CmdTypes, [CmdNext]_allvars PROVE CmdTypes'
    OBVIOUS
  <2>1. CASE CmdNext
    BY <2>1, CmdTypesStep DEF CmdNext
  <2>2. CASE UNCHANGED allvars
    BY <2>2 DEF allvars, vars, cmdvars, CmdTypes
  <2>3. QED
    BY <2>1, <2>2
<1>3. TypeOK /\ CmdTypes => CmdTypeOK
  BY DEF CmdTypes, CmdTypeOK
<1>4. QED
  BY <1>1, <1>2, <1>3, CommandsAreClients, TypeCorrect, PTL DEF CmdSpec

-----------------------------------------------------------------------------
(* What encrypt sends for a trip, and what serve makes of it.              *)
OnTrip(p) == trip[p] # NoTrip

Own(t) == file[t.dir]["client"].pair

Question(t) == [pair |-> Own(t), request |-> t.request, under |-> 0]
Reply(t)    == [pair |-> Own(t), request |-> t.request, under |-> Own(t)]

(* While a trip lasts, nobody has written its keys ...                     *)
TripKeys(p) == OnTrip(p) => steady[trip[p].dir] /\ file[trip[p].dir]["client"] \in Key

(* ... in.cts is its question, and out.cts the reply, or being written ... *)
TripFiles(p) ==
  OnTrip(p) =>
    LET t == trip[p]
    IN  /\ t.stage # "asked" => wire[t.box]["in"] = Question(t)
        /\ t.stage = "served" => wire[t.box]["out"] \in {Torn, Reply(t)}

(* ... and each request is one client's.                                   *)
Running(r) == cmd[r].at \in {"read", "open", "fill"}

TripRequests ==
  /\ \A p \in Proc : OnTrip(p) => trip[p].request <= asked
  /\ \A p, q \in Proc : OnTrip(p) /\ OnTrip(q) /\ trip[p].request = trip[q].request => p = q
  /\ \A r \in Proc : Running(r) => \A n \in cmd[r].for : n <= asked

(* A command that runs for a trip goes by its box: its own encrypt, or a   *)
(* serve that has the other half of its pair.                              *)
Serves(r, p) ==
  OnTrip(p) /\ Running(r) /\ trip[p].request \in cmd[r].for =>
    LET c == cmd[r]  t == trip[p]
    IN  /\ c.box = t.box
        /\ c.at = "read" => c.sk = Own(t) /\ t.stage # "asked"
        /\ c.at # "read" /\ c.file = "in" => r = p /\ c.batch = Question(t) /\ t.stage = "asked"
        /\ c.at # "read" /\ c.file = "out" => c.batch = Reply(t) /\ t.stage # "asked"

(* A decrypt that goes by its directory has its key.                       *)
Decrypts(p) ==
  OnTrip(p) /\ cmd[p].at = "print" /\ cmd[p].dir = trip[p].dir => cmd[p].ck = Own(trip[p])

TripInv ==
  /\ TripRequests
  /\ \A p \in Proc : TripKeys(p) /\ TripFiles(p) /\ Decrypts(p)
  /\ \A r, p \in Proc : Serves(r, p)

(* A steady directory stays steady while its files stay as they are.       *)
LEMMA SteadyKept ==
  ASSUME TypeOK, SteadyInv, NEW p \in Proc, Step(p), NEW d \in Dir,
         steady[d], file'[d] = file[d], file[d]["client"] \in Key
  PROVE  steady'[d]
<1>1. ASSUME NEW n \in Name, Open(p, n) PROVE steady'[d]
  <2>1. CASE UNCHANGED history
    BY <2>1 DEF history
  <2>2. CASE ~ UNCHANGED history
    <3>1. n = "client" /\ SetFile(job[p].dst, n, Torn) /\ Disturb(p, job[p].dst)
      BY <1>1, <2>2 DEF Open
    <3>2. job[p].dst # d
      BY <3>1, Disjoint, FileType DEF SetFile, Name
    <3>3. QED
      BY <3>1, <3>2 DEF Disturb, TypeOK
  <2>3. QED
    BY <2>1, <2>2
<1>2. ASSUME NEW n \in Name, Fill(p, n) PROVE steady'[d]
  <2>1. ~ WritingTo(p, d)
    BY DEF SteadyInv, Steady
  <2>2. job[p].dst # d
    BY <1>2, <2>1 DEF WritingTo, Writing, Fill, Filling
  <2>3. QED
    BY <1>2, <2>2 DEF Fill, TypeOK
<1>3. CASE UNCHANGED steady
  BY <1>3
<1>4. QED
  BY <1>1, <1>2, <1>3 DEF Step, Generate, NextPair, Save, Load, Run, Return, Crash, history

(* Steps of the key store keep the invariant: the trips they end are those *)
(* whose keys they touch.                                                  *)
LEMMA KeyStepTrips ==
  ASSUME TypeOK, SteadyInv, CmdTypes, TripInv, NEW p \in Proc, KeyStep(p), Step(p)
  PROVE  TripInv'
<1>1. \A q \in Proc : OnTrip(q)' => /\ OnTrip(q) /\ trip'[q] = trip[q]
                                    /\ file'[trip[q].dir] = file[trip[q].dir]
  BY DEF KeyStep, OnTrip
<1>2. \A q \in Proc : OnTrip(q) => trip[q].dir \in Dir
  BY TripShapes DEF OnTrip, Trip
<1>3. \A q \in Proc : OnTrip(q)' => file'[trip[q].dir] = file[trip[q].dir]
  BY <1>1
<1>4. UNCHANGED <<wire, cmd, asked>>
  BY DEF KeyStep
<1>5. TripRequests'
  BY <1>1, <1>4 DEF TripInv, TripRequests, Running
<1>6. ASSUME NEW q \in Proc PROVE TripKeys(q)'
  BY <1>1, <1>2, SteadyKept DEF TripInv, TripKeys
<1>7. ASSUME NEW q \in Proc PROVE TripFiles(q)'
  BY <1>1, <1>3, <1>4 DEF TripInv, TripFiles, Own, Question, Reply
<1>8. ASSUME NEW q \in Proc PROVE Decrypts(q)'
  BY <1>1, <1>3, <1>4 DEF TripInv, Decrypts, Own
<1>9. ASSUME NEW r \in Proc, NEW q \in Proc PROVE Serves(r, q)'
  BY <1>1, <1>3, <1>4 DEF TripInv, Serves, Running, Own, Question, Reply
<1>10. QED
  BY <1>5, <1>6, <1>7, <1>8, <1>9 DEF TripInv

(* A command that ends, or is killed, or reads its client key, leaves the  *)
(* trips as they are.                                                      *)
LEMMA CommandEnds ==
  ASSUME CmdTypes, TripInv, NEW p \in Proc, UNCHANGED <<file, steady, trip, wire>>, asked' >= asked,
         asked' \in Nat, asked \in Nat, cmd' = cmd \/ Become(p, NoCmd)
  PROVE  TripInv'
<1>1. \A q \in Proc : OnTrip(q)' <=> OnTrip(q)
  BY DEF OnTrip
<1>2. \A q \in Proc : cmd'[q] = cmd[q] \/ cmd'[q] = NoCmd
  BY DEF Become, CmdTypes
<1>3. \A r \in Proc : Running(r)' => Running(r) /\ cmd'[r] = cmd[r]
  BY <1>2 DEF Running, NoCmd
<1>4. TripRequests'
  <2>1. \A q \in Proc : OnTrip(q) => trip[q].request \in Nat
    BY TripShapes DEF OnTrip, Trip, Requests
  <2>2. \A r \in Proc : Running(r) => cmd[r].for \subseteq Nat
    BY CmdShapes DEF Running, Reading, Sending, Requests
  <2>3. QED
    BY <1>1, <1>3, <2>1, <2>2 DEF TripInv, TripRequests
<1>5. \A q \in Proc : TripKeys(q)' /\ TripFiles(q)'
  BY <1>1 DEF TripInv, TripKeys, TripFiles, Own, Question, Reply
<1>6. ASSUME NEW q \in Proc PROVE Decrypts(q)'
  BY <1>1, <1>2 DEF TripInv, Decrypts, NoCmd, Own
<1>7. ASSUME NEW r \in Proc, NEW q \in Proc PROVE Serves(r, q)'
  BY <1>1, <1>3 DEF TripInv, Serves, Own, Question, Reply
<1>8. QED
  BY <1>4, <1>5, <1>6, <1>7 DEF TripInv

(* encrypt begins a trip if its keys are steady, and ends the one before.  *)
LEMMA EncryptTrips ==
  ASSUME CmdTypes, TripInv, NEW p \in Proc, NEW d \in Dir, NEW b \in Box, Encrypt(p, d, b)
  PROVE  TripInv'
<1>0. /\ UNCHANGED <<file, steady, wire>> /\ asked \in Nat /\ asked' = asked + 1
      /\ ClientKeyIn(d)
  BY DEF Encrypt, vars, CmdTypes
<1>1. \A q \in Proc \ {p} : trip'[q] = trip[q] /\ cmd'[q] = cmd[q]
  BY DEF Encrypt, Become, CmdTypes
<1>2. /\ cmd'[p].at = "open" /\ cmd'[p].box = b /\ cmd'[p].file = "in"
      /\ cmd'[p].for = {asked + 1}
      /\ cmd'[p].batch = [pair |-> file[d]["client"].pair, request |-> asked + 1, under |-> 0]
  BY DEF Encrypt, Become, CmdTypes
<1>3. OnTrip(p)' => /\ trip'[p] = [dir |-> d, box |-> b, request |-> asked + 1, stage |-> "asked"]
                    /\ steady[d]
  BY DEF Encrypt, OnTrip, CmdTypes
<1>4. \A q \in Proc : OnTrip(q) => trip[q].request \in Nat /\ trip[q].request <= asked
  BY TripShapes DEF OnTrip, Trip, Requests, TripInv, TripRequests
<1>5. \A r \in Proc : Running(r) => \A n \in cmd[r].for : n \in Nat /\ n <= asked
  BY CmdShapes DEF Running, Reading, Sending, Requests, TripInv, TripRequests
<1>6. TripRequests'
  <2>1. ASSUME NEW q \in Proc, OnTrip(q)' PROVE trip'[q].request <= asked'
    BY <1>0, <1>1, <1>3, <1>4, <2>1 DEF OnTrip
  <2>2. ASSUME NEW q \in Proc, NEW r \in Proc, OnTrip(q)', OnTrip(r)',
               trip'[q].request = trip'[r].request
        PROVE  q = r
    <3>1. q # p /\ r # p => q = r
      BY <1>1, <2>2 DEF OnTrip, TripInv, TripRequests
    <3>2. q = p => r = p
      BY <1>0, <1>1, <1>3, <1>4, <2>2 DEF OnTrip
    <3>3. r = p => q = p
      BY <1>0, <1>1, <1>3, <1>4, <2>2 DEF OnTrip
    <3>4. QED
      BY <3>1, <3>2, <3>3
  <2>3. ASSUME NEW r \in Proc, Running(r)', NEW n \in cmd'[r].for PROVE n <= asked'
    BY <1>0, <1>1, <1>2, <1>5, <2>3 DEF Running
  <2>4. QED
    BY <2>1, <2>2, <2>3 DEF TripRequests
<1>7. ASSUME NEW q \in Proc PROVE TripKeys(q)' /\ TripFiles(q)' /\ Decrypts(q)'
  <2>1. CASE q = p
    BY <1>0, <1>2, <1>3, <2>1 DEF TripKeys, TripFiles, Decrypts, ClientKeyIn, ClientKeyDecodes
  <2>2. CASE q # p
    BY <1>0, <1>1, <2>2 DEF TripInv, TripKeys, TripFiles, Decrypts, OnTrip, Own, Question, Reply
  <2>3. QED
    BY <2>1, <2>2
<1>8. ASSUME NEW r \in Proc, NEW q \in Proc PROVE Serves(r, q)'
  <2> SUFFICES ASSUME OnTrip(q)', Running(r)', trip'[q].request \in cmd'[r].for
               PROVE  Serves(r, q)'
    BY DEF Serves
  <2>1. CASE r = p
    <3>1. q = p
      BY <1>0, <1>1, <1>2, <1>4, <2>1 DEF OnTrip
    <3>2. QED
      BY <1>0, <1>2, <1>3, <2>1, <3>1 DEF Serves, Own, Question
  <2>2. CASE r # p
    <3>1. Running(r)
      BY <1>1, <2>2 DEF Running
    <3>2. q # p
      BY <1>0, <1>1, <1>3, <1>5, <2>2, <3>1
    <3>3. QED
      BY <1>0, <1>1, <2>2, <3>1, <3>2 DEF TripInv, Serves, Running, OnTrip, Own, Question, Reply
  <2>3. QED
    BY <2>1, <2>2
<1>9. QED
  BY <1>6, <1>7, <1>8 DEF TripInv

(* A step that only gives one command a new shape.                         *)
LEMMA CommandMoves ==
  ASSUME CmdTypes, TripInv, NEW p \in Proc, UNCHANGED <<file, steady, trip, wire, asked>>,
         NEW c, Become(p, c), c.at # "print" \/ Decrypts(p)',
         c.at \in {"read", "open", "fill"} => \A n \in c.for : n <= asked,
         \A q \in Proc : Serves(p, q)'
  PROVE  TripInv'
<1>1. cmd'[p] = c /\ \A r \in Proc \ {p} : cmd'[r] = cmd[r]
  BY DEF Become, CmdTypes
<1>2. \A q \in Proc : OnTrip(q)' <=> OnTrip(q)
  BY DEF OnTrip
<1>3. TripRequests'
  BY <1>1, <1>2 DEF TripInv, TripRequests, Running
<1>4. \A q \in Proc : TripKeys(q)' /\ TripFiles(q)'
  BY <1>2 DEF TripInv, TripKeys, TripFiles, Own, Question, Reply
<1>5. ASSUME NEW q \in Proc PROVE Decrypts(q)'
  <2>1. CASE q = p
    BY <1>1, <2>1 DEF Decrypts
  <2>2. CASE q # p
    BY <1>1, <1>2, <2>2 DEF TripInv, Decrypts, Own
  <2>3. QED
    BY <2>1, <2>2
<1>6. ASSUME NEW r \in Proc, NEW q \in Proc, r # p PROVE Serves(r, q)'
  BY <1>1, <1>2, <1>6 DEF TripInv, Serves, Running, Own, Question, Reply
<1>7. QED
  BY <1>3, <1>4, <1>5, <1>6 DEF TripInv

(* serve starts for the trips whose in.cts is complete, with their pair.   *)
LEMMA ServeTrips ==
  ASSUME SteadyInv, CmdTypes, TripInv, NEW p \in Proc, NEW d \in Dir, NEW b \in Box,
         NEW g \in Width, Serve(p, d, b, g)
  PROVE  TripInv'
<1> DEFINE c == [at |-> "read", box |-> b, for |-> Sent(d, b), sk |-> file[d]["server"].pair]
<1>1. Become(p, c) /\ UNCHANGED <<file, steady, trip, wire, asked>>
  BY DEF Serve, vars
<1>2. cmd'[p] = c
  BY <1>1 DEF Become, CmdTypes
<1>3. \A n \in c.for : n <= asked
  BY DEF Sent, TripInv, TripRequests, OnTrip
<1>4. ASSUME NEW q \in Proc PROVE Serves(p, q)'
  <2> SUFFICES ASSUME OnTrip(q), trip[q].request \in Sent(d, b)
               PROVE  /\ b = trip[q].box /\ trip[q].stage # "asked"
                      /\ file[d]["server"].pair = Own(trip[q])
    BY <1>1, <1>2 DEF Serves, OnTrip, Own
  <2>1. trip[q].dir = d /\ trip[q].box = b /\ trip[q].stage # "asked"
    BY DEF Sent, TripInv, TripRequests, OnTrip
  <2>2. steady[d] /\ file[d]["client"] \in Key
    BY <2>1 DEF TripInv, TripKeys
  <2>3. file[d]["server"] \in Key
    BY DEF Serve, ServerKeyIn, TfheEvaluates
  <2>4. QED
    BY <2>1, <2>2, <2>3 DEF SteadyInv, Steady, Agree, Own
<1>5. QED
  BY <1>1, <1>3, <1>4, CommandMoves

(* decrypt reads the key of its directory's trip.                          *)
LEMMA DecryptTrips ==
  ASSUME CmdTypes, TripInv, NEW p \in Proc, NEW d \in Dir, NEW b \in Box, Decrypt(p, d, b)
  PROVE  TripInv'
<1> DEFINE c == [at |-> "print", dir |-> d, box |-> b, ck |-> file[d]["client"].pair]
<1>1. Become(p, c) /\ UNCHANGED <<file, steady, trip, wire, asked>>
  BY DEF Decrypt, vars
<1>2. cmd'[p] = c
  BY <1>1 DEF Become, CmdTypes
<1>3. Decrypts(p)'
  BY <1>1, <1>2 DEF Decrypts, Own
<1>4. \A q \in Proc : Serves(p, q)'
  BY <1>2 DEF Serves, Running
<1>5. QED
  BY <1>1, <1>3, <1>4, CommandMoves

(* The walk makes the reply of the question.                               *)
LEMMA EvaluateTrips ==
  ASSUME CmdTypes, TripInv, NEW p \in Proc, Evaluate(p)
  PROVE  TripInv'
<1> DEFINE given == wire[cmd[p].box]["in"]
           c == [at |-> "open", box |-> cmd[p].box, file |-> "out", for |-> cmd[p].for,
                 batch |-> [given EXCEPT !.under = cmd[p].sk]]
<1>1. UNCHANGED <<file, steady, trip, wire, asked>> /\ cmd[p].at = "read"
  BY DEF Evaluate, vars
<1>2. CASE Become(p, NoCmd)
  BY <1>1, <1>2, CommandEnds DEF CmdTypes
<1>3. CASE Become(p, c)
  <2>1. cmd'[p] = c
    BY <1>3 DEF Become, CmdTypes
  <2>2. \A n \in c.for : n <= asked
    BY <1>1 DEF TripInv, TripRequests, Running
  <2>3. ASSUME NEW q \in Proc PROVE Serves(p, q)'
    <3> SUFFICES ASSUME OnTrip(q), trip[q].request \in cmd[p].for
                 PROVE  /\ cmd[p].box = trip[q].box /\ trip[q].stage # "asked"
                        /\ c.batch = Reply(trip[q])
      BY <1>1, <2>1 DEF Serves, OnTrip, Own, Reply
    <3>1. cmd[p].box = trip[q].box /\ trip[q].stage # "asked" /\ cmd[p].sk = Own(trip[q])
      BY <1>1 DEF TripInv, Serves, Running
    <3>2. given = Question(trip[q])
      BY <3>1 DEF TripInv, TripFiles
    <3>3. QED
      BY <3>1, <3>2 DEF Question, Reply
  <2>4. QED
    BY <1>1, <1>3, <2>2, <2>3, CommandMoves
<1>4. QED
  BY <1>2, <1>3 DEF Evaluate

(* A write takes the trips it is for further, and ends the others there.   *)
LEMMA WriteTrips ==
  ASSUME CmdTypes, TripInv, NEW p \in Proc, OpenWire(p) \/ FillWire(p)
  PROVE  TripInv'
<1> DEFINE c == cmd[p]
           For(q) == trip[q].request \in c.for
<1>1. /\ UNCHANGED <<file, steady, asked>> /\ c.at \in {"open", "fill"} /\ c \in Sending
      /\ Touch(c) /\ Running(p)
  BY CmdShapes DEF OpenWire, FillWire, vars, Running
<1>2. c.box \in Box /\ c.file \in {"in", "out"}
  BY <1>1 DEF Sending, Wire
<1>3. ASSUME NEW q \in Proc, OnTrip(q)'
      PROVE  /\ OnTrip(q) /\ trip[q] \in Trip
             /\ trip'[q].dir = trip[q].dir /\ trip'[q].box = trip[q].box
             /\ trip'[q].request = trip[q].request
             /\ trip[q].box # c.box => ~ For(q) /\ trip'[q] = trip[q]
             /\ trip[q].box = c.box => For(q) /\ trip'[q] = Further(trip[q], c)
  <2>1. OnTrip(q) /\ trip[q] \in Trip
    BY <1>1, <1>3, TripShapes DEF Touch, OnTrip
  <2>2. For(q) => trip[q].box = c.box
    BY <1>1, <2>1 DEF TripInv, Serves
  <2>3. trip[q].box # c.box => trip'[q] = trip[q]
    BY <1>1, <2>1 DEF Touch, OnTrip
  <2>4. trip[q].box = c.box => For(q) /\ trip'[q] = Further(trip[q], c)
    BY <1>1, <1>3, <2>1 DEF Touch, OnTrip
  <2>5. /\ Further(trip[q], c).dir = trip[q].dir /\ Further(trip[q], c).box = trip[q].box
        /\ Further(trip[q], c).request = trip[q].request
    BY <2>1 DEF Further, Trip
  <2>6. QED
    BY <2>1, <2>2, <2>3, <2>4, <2>5
<1>4. \A q \in Proc : OnTrip(q)' => /\ Own(trip[q])' = Own(trip[q])
                                    /\ Question(trip[q])' = Question(trip[q])
                                    /\ Reply(trip[q])' = Reply(trip[q])
  BY <1>1, <1>3 DEF Own, Question, Reply
<1>5. \A r \in Proc \ {p} : cmd'[r] = cmd[r]
  BY DEF OpenWire, FillWire, Become, CmdTypes
<1>6. Running(p)' => cmd'[p] = [c EXCEPT !.at = "fill"] /\ OpenWire(p)
  BY DEF OpenWire, FillWire, Become, CmdTypes, Running, NoCmd
<1>7. ASSUME NEW q \in Proc, OnTrip(q)', c.file = "in", trip[q].box = c.box
      PROVE  p = q /\ c.batch = Question(trip[q]) /\ trip[q].stage = "asked"
  BY <1>1, <1>3, <1>7 DEF TripInv, Serves
<1>8. ASSUME NEW q \in Proc, OnTrip(q)', c.file = "out", trip[q].box = c.box
      PROVE  c.batch = Reply(trip[q]) /\ trip[q].stage # "asked"
  BY <1>1, <1>3, <1>8 DEF TripInv, Serves
<1>9. TripRequests'
  <2>1. ASSUME NEW r \in Proc, Running(r)', NEW n \in cmd'[r].for PROVE n <= asked'
    <3>1. Running(r) /\ n \in cmd[r].for
      BY <1>1, <1>5, <1>6, <2>1 DEF Running, Sending
    <3>2. QED
      BY <1>1, <3>1 DEF TripInv, TripRequests
  <2>2. QED
    BY <1>1, <1>3, <2>1 DEF TripInv, TripRequests
<1>10. ASSUME NEW q \in Proc PROVE TripKeys(q)'
  BY <1>1, <1>3 DEF TripInv, TripKeys
<1>11. ASSUME NEW q \in Proc PROVE Decrypts(q)'
  <2>1. cmd'[p].at # "print"
    BY <1>1 DEF OpenWire, FillWire, Become, CmdTypes, NoCmd, Sending
  <2>2. QED
    BY <1>1, <1>3, <1>4, <1>5, <2>1 DEF TripInv, Decrypts
<1>12. ASSUME NEW q \in Proc PROVE TripFiles(q)'
  <2> SUFFICES ASSUME OnTrip(q)' PROVE TripFiles(q)'
    BY DEF TripFiles
  <2>1. trip[q].box \in Box /\ wire \in [Box -> [Wire -> Batch \cup {Absent, Torn}]]
    BY <1>3 DEF Trip, CmdTypes
  <2>2. CASE trip[q].box # c.box
    <3>1. wire'[trip[q].box] = wire[trip[q].box]
      BY <1>2, <2>1, <2>2 DEF OpenWire, FillWire
    <3>2. QED
      BY <1>3, <1>4, <2>2, <3>1 DEF TripInv, TripFiles
  <2>3. CASE trip[q].box = c.box /\ c.file = "in"
    <3>1. CASE OpenWire(p)
      <4>1. trip'[q].stage = "asked"
        BY <1>3, <1>7, <2>3, <3>1 DEF OpenWire, Further
      <4>2. QED
        BY <4>1 DEF TripFiles
    <3>2. CASE FillWire(p)
      <4>1. trip'[q].stage = "sent"
        BY <1>3, <2>3, <3>2 DEF FillWire, Further, Trip
      <4>2. wire'[trip[q].box]["in"] = Question(trip[q])
        BY <1>2, <1>7, <2>1, <2>3, <3>2 DEF FillWire, Wire
      <4>3. QED
        BY <1>3, <1>4, <4>1, <4>2 DEF TripFiles
    <3>3. QED
      BY <3>1, <3>2
  <2>4. CASE trip[q].box = c.box /\ c.file = "out"
    <3>1. wire[trip[q].box]["in"] = Question(trip[q])
      BY <1>3, <1>8, <2>4 DEF TripInv, TripFiles
    <3>2. wire'[trip[q].box]["in"] = Question(trip[q])
      BY <1>2, <2>1, <2>4, <3>1 DEF OpenWire, FillWire, Wire
    <3>3. wire'[trip[q].box]["out"] \in {Torn, Reply(trip[q])}
      BY <1>2, <1>8, <2>1, <2>4 DEF OpenWire, FillWire, Wire
    <3>4. QED
      BY <1>3, <1>4, <3>2, <3>3 DEF TripFiles
  <2>5. QED
    BY <1>2, <2>2, <2>3, <2>4
<1>13. ASSUME NEW r \in Proc, NEW q \in Proc PROVE Serves(r, q)'
  <2> SUFFICES ASSUME OnTrip(q)', Running(r)', trip'[q].request \in cmd'[r].for
               PROVE  Serves(r, q)'
    BY DEF Serves
  <2>1. CASE r = p
    <3>1. /\ OpenWire(p) /\ cmd'[p].box = c.box /\ cmd'[p].file = c.file
          /\ cmd'[p].batch = c.batch /\ cmd'[p].at = "fill" /\ cmd'[p].for = c.for
      BY <1>1, <1>6, <2>1 DEF Sending
    <3>2. For(q) /\ trip[q].box = c.box
      BY <1>3, <2>1, <3>1
    <3>3. trip'[q] = trip[q]
      BY <1>3, <3>1, <3>2 DEF OpenWire, Further
    <3>4. QED
      BY <1>3, <1>4, <1>7, <1>8, <2>1, <3>1, <3>2, <3>3 DEF Serves
  <2>2. CASE r # p
    <3>1. Running(r) /\ cmd'[r] = cmd[r] /\ trip[q].request \in cmd[r].for
      BY <1>3, <1>5, <2>2 DEF Running
    <3>2. CASE trip[q].box # c.box
      BY <1>3, <1>4, <3>1, <3>2 DEF TripInv, Serves
    <3>3. CASE trip[q].box = c.box /\ OpenWire(p)
      <4>1. trip'[q] = trip[q]
        BY <1>3, <3>3 DEF OpenWire, Further
      <4>2. QED
        BY <1>3, <1>4, <3>1, <4>1 DEF TripInv, Serves
    <3>4. CASE trip[q].box = c.box /\ FillWire(p) /\ c.file = "in"
      BY <1>3, <1>7, <2>2, <3>1, <3>4 DEF TripInv, Serves, Running
    <3>5. CASE trip[q].box = c.box /\ FillWire(p) /\ c.file = "out"
      <4>1. trip'[q].stage = "served" /\ trip[q].stage # "asked"
        BY <1>3, <1>8, <3>5 DEF FillWire, Further, Trip
      <4>2. QED
        BY <1>3, <1>4, <3>1, <4>1 DEF TripInv, Serves
    <3>6. QED
      BY <1>2, <3>2, <3>3, <3>4, <3>5
  <2>3. QED
    BY <2>1, <2>2
<1>14. QED
  BY <1>9, <1>10, <1>11, <1>12, <1>13 DEF TripInv

(* Every step keeps the invariant.                                         *)
LEMMA TripStep ==
  ASSUME TypeOK, SteadyInv, CmdTypes, TripInv, CmdNext, NEW p \in users, KeyStep(p) \/ Command(p)
  PROVE  TripInv'
<1>0. p \in Proc
  BY DEF TypeOK
<1>1. CASE KeyStep(p)
  <2>1. CASE p \in shells
    BY <1>0, <1>1, <2>1, KeyStepTrips DEF KeyStep, Keygen, Step, Scheme
  <2>2. CASE p \notin shells
    BY <1>0, <1>1, <2>2, KeyStepTrips DEF KeyStep
  <2>3. QED
    BY <2>1, <2>2
<1>2. CASE Evaluate(p) \/ OpenWire(p) \/ FillWire(p)
  BY <1>0, <1>2, EvaluateTrips, WriteTrips
<1>3. CASE Report(p)
  BY <1>0, <1>3, CommandEnds DEF Report, vars, CmdTypes
<1>4. CASE Predict(p)
  <2>1. asked \in Nat /\ asked' = asked + 1
    BY <1>4 DEF Predict, CmdTypes
  <2>2. QED
    BY <1>0, <1>4, <2>1, CommandEnds DEF Predict, vars
<1>5. CASE Kill(p)
  BY <1>0, <1>5, CommandEnds DEF Kill, Crash, history, CmdTypes
<1>6. QED
  BY <1>0, <1>1, <1>2, <1>3, <1>4, <1>5, EncryptTrips, ServeTrips, DecryptTrips DEF Command

(* What decrypt prints for a trip that has been served is its reply, and   *)
(* what predict prints is right by itself.                                 *)
LEMMA PrintedStep ==
  ASSUME TypeOK, CmdTypes, TripInv, CmdNext, NEW p \in users, KeyStep(p) \/ Command(p)
  PROVE  RightAnswer'
<1>0. p \in Proc
  BY DEF TypeOK
<1>1. CASE Report(p)
  <2>1. cmd[p] \in Printing
    BY <1>0, <1>1, CmdShapes DEF Report
  <2> DEFINE c == cmd[p]
             got == wire[c.box]["out"]
  <2>2. CASE /\ BatchDecodes(got)
             /\ printed' = [ck |-> c.ck, batch |-> got, awaited |-> Awaited(p, c.dir, c.box)]
    <3> SUFFICES ASSUME Awaited(p, c.dir, c.box) # 0
                 PROVE  /\ got.request = Awaited(p, c.dir, c.box)
                        /\ got.pair = c.ck /\ got.under = c.ck
      BY <2>2 DEF RightAnswer
    <3>1. OnTrip(p) /\ trip[p].stage = "served" /\ trip[p].dir = c.dir /\ trip[p].box = c.box
      BY DEF Awaited, OnTrip
    <3>2. Awaited(p, c.dir, c.box) = trip[p].request
      BY <3>1 DEF Awaited, OnTrip
    <3>3. c.ck = Own(trip[p])
      BY <1>0, <1>1, <3>1 DEF TripInv, Decrypts, Report
    <3>4. got \in {Torn, Reply(trip[p])}
      BY <1>0, <3>1 DEF TripInv, TripFiles
    <3>5. got # Torn
      BY <2>2, WireAssumption DEF BatchDecodes
    <3>6. QED
      BY <3>2, <3>3, <3>4, <3>5 DEF Reply
  <2>3. CASE printed' = NoAnswer
    BY <2>3 DEF RightAnswer
  <2>4. QED
    BY <1>1, <2>2, <2>3 DEF Report
<1>2. CASE Predict(p)
  BY <1>2 DEF Predict, RightAnswer
<1>3. CASE printed' = NoAnswer
  BY <1>3 DEF RightAnswer
<1>4. QED
  BY <1>1, <1>2, <1>3 DEF KeyStep, Command, Encrypt, Serve, Decrypt, Evaluate, OpenWire, FillWire,
     Kill

(* A client that goes by files nobody else has written since, except to    *)
(* answer it, prints the answer to its own rows, computed under its own    *)
(* keys: for any number of clients, servers, directories, boxes and kills  *)
(* (encrypt.rs:33, serve.rs:63, decrypt.rs:31).                            *)
THEOREM AnswerIsRight == CmdSpec => []RightAnswer
<1>1. CmdInit => CmdTypes /\ TripInv /\ RightAnswer
  <2> SUFFICES ASSUME CmdInit PROVE CmdTypes /\ TripInv /\ RightAnswer
    OBVIOUS
  <2>1. CmdTypes
    BY RequestAssumption DEF CmdInit, CmdTypes
  <2>2. \A p \in Proc : ~ OnTrip(p) /\ ~ Running(p)
    BY DEF CmdInit, OnTrip, Running, NoCmd
  <2>3. TripInv
    BY <2>2 DEF TripInv, TripRequests, TripKeys, TripFiles, Decrypts, Serves
  <2>4. QED
    BY <2>1, <2>3 DEF CmdInit, RightAnswer
<1>2. KeyInv /\ CmdTypes /\ TripInv /\ RightAnswer /\ [CmdNext]_allvars
        => CmdTypes' /\ TripInv' /\ RightAnswer'
  <2> SUFFICES ASSUME KeyInv, CmdTypes, TripInv, RightAnswer, [CmdNext]_allvars
               PROVE  CmdTypes' /\ TripInv' /\ RightAnswer'
    OBVIOUS
  <2>1. TypeOK /\ SteadyInv
    BY DEF KeyInv, DirectoryInv
  <2>2. CASE CmdNext
    <3>1. PICK p \in users : KeyStep(p) \/ Command(p)
      BY <2>2 DEF CmdNext
    <3>2. QED
      BY <2>1, <2>2, <3>1, CmdTypesStep, TripStep, PrintedStep
  <2>3. CASE UNCHANGED allvars
    <3> USE <2>3 DEF allvars, vars, cmdvars
    <3>1. CmdTypes' /\ RightAnswer'
      BY DEF CmdTypes, RightAnswer
    <3>2. TripRequests'
      BY DEF TripInv, TripRequests, OnTrip, Running
    <3>3. \A p \in Proc : TripKeys(p)' /\ TripFiles(p)' /\ Decrypts(p)'
      BY DEF TripInv, TripKeys, TripFiles, Decrypts, OnTrip, Own, Question, Reply
    <3>4. \A r, p \in Proc : Serves(r, p)'
      BY DEF TripInv, Serves, OnTrip, Running, Own, Question, Reply
    <3>5. QED
      BY <3>1, <3>2, <3>3, <3>4 DEF TripInv
  <2>4. QED
    BY <2>2, <2>3
<1>3. QED
  BY <1>1, <1>2, CommandsAreClients, KeyInvHolds, PTL DEF CmdSpec
=============================================================================

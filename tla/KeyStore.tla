------------------------------ MODULE KeyStore ------------------------------
(***************************************************************************)
(* Key directories and the client/server split of run_encrypted:           *)
(* python/penumbra/client.py over the bridge in crates/penumbra-py and the *)
(* key envelopes of crates/penumbra-tfhe/src/keys.rs.  A directory holds   *)
(* client.key and server.key; each is written by opening it (which empties *)
(* it) and filling it, client.key first, and every reader reads the two    *)
(* one after the other.  Nothing locks a directory, and a process may die  *)
(* at any point.                                                           *)
(***************************************************************************)
EXTENDS Naturals, FiniteSets

CONSTANTS Proc,         \* client processes sharing the file system
          Dir,          \* key directories
          Width,        \* num_blocks of keys and models
          MaxKeys,      \* bound: key pairs ever generated
          MaxCrash,     \* bound: processes killed
          Absent,       \* the contents of a file that does not exist
          Torn          \* ... of one created or emptied, and not filled

ASSUME BoundsAssumption ==
  /\ MaxKeys \in Nat /\ MaxCrash \in Nat
  /\ Width \subseteq Nat \ {0}
  /\ IsFiniteSet(Proc)

Scheme == {"tfhe", "ckks"}
Name == {"client", "server"}

(* A key file's contents: the pair it was generated in, and the metadata   *)
(* of its envelope.  A CKKS key has no radix width.                        *)
Key == {k \in [pair : 1 .. MaxKeys, scheme : Scheme, width : Width \cup {0}] :
          (k.width = 0) = (k.scheme = "ckks")}

ASSUME FileAssumption == Absent \notin Key /\ Torn \notin Key /\ Absent # Torn /\ Absent \notin Dir

Content == Key \cup {Absent, Torn}

VARIABLES users,        \* the processes that use the directories, from the start
          file,         \* the key directories
          minted,       \* key pairs generated so far
          crashes,      \* processes killed so far
          pc,           \* what each process is doing
          job,          \* the arguments and locals of that call
          handle,       \* the KeySet a process holds, if any
          result        \* what its last run_encrypted returned, if anything

(* History, of use to the properties only: the directories whose last      *)
(* write was finished undisturbed, and the processes whose current call    *)
(* nobody has disturbed so far.                                            *)
VARIABLES steady, calm

vars == <<users, file, minted, crashes, pc, job, handle, result, steady, calm>>
history == <<steady, calm>>

NoJob == [dst |-> Absent, src |-> Absent, key |-> Absent]
NoHandle == [dir |-> Absent]
NoResult == [ck |-> Absent]

Init ==
  /\ users \in SUBSET Proc \ {{}}
  /\ file = [d \in Dir |-> [n \in Name |-> Absent]]
  /\ minted = 0
  /\ crashes = 0
  /\ pc = [p \in Proc |-> "idle"]
  /\ job = [p \in Proc |-> NoJob]
  /\ handle = [p \in Proc |-> NoHandle]
  /\ result = [p \in Proc |-> NoResult]
  /\ steady = [d \in Dir |-> FALSE]
  /\ calm = [p \in Proc |-> FALSE]

Goto(p, label) == pc' = [pc EXCEPT ![p] = label]

SetFile(d, n, c) == file' = [file EXCEPT ![d][n] = c]

HandleOn(d, key) == [dir |-> d, scheme |-> key.scheme, width |-> key.width]

(* Seeded fault: a call that fails leaves its locals to the next one. *)
AbandonKeepingLocals(p) == Goto(p, "idle") /\ UNCHANGED job

(* An exception: the call is over, its locals gone, the handle kept. *)
Abandon(p) ==
  /\ Goto(p, "idle")
  /\ job' = [job EXCEPT ![p] = NoJob]

-----------------------------------------------------------------------------
(* What the bridge generates: a pair nobody has, marked with its scheme    *)
(* and its width.                                                          *)
NextPair(s, w) == [pair |-> minted + 1, scheme |-> s, width |-> w]

(* KeySet.generate up to the first write. *)
Generate(p, d, s, w) ==
  /\ pc[p] = "idle"
  /\ minted < MaxKeys
  /\ (w = 0) = (s = "ckks")
  /\ minted' = minted + 1
  /\ job' = [job EXCEPT ![p] = [dst |-> d, src |-> Absent, key |-> NextPair(s, w)]]
  /\ Goto(p, "open client")
  /\ result' = [result EXCEPT ![p] = NoResult]
  /\ UNCHANGED <<file, crashes, handle, history>>

(* KeySet.save of the handle the process holds, into another directory. *)
Save(p, d) ==
  /\ pc[p] = "idle"
  /\ handle[p] # NoHandle
  /\ d # handle[p].dir
  /\ job' = [job EXCEPT ![p] = [dst |-> d, src |-> handle[p].dir, key |-> Absent]]
  /\ Goto(p, "open client")
  /\ result' = [result EXCEPT ![p] = NoResult]
  /\ UNCHANGED <<file, minted, crashes, handle, history>>

Opening(p, n) == pc[p] = IF n = "client" THEN "open client" ELSE "open server"
Filling(p, n) == pc[p] = IF n = "client" THEN "fill client" ELSE "fill server"

(* The directory a call reads keys from. *)
Source(p) == IF pc[p] = "read server" THEN handle[p].dir ELSE job[p].src

Writing(p) == pc[p] \in {"fill client", "open server", "fill server"}

(* p starts writing d: that disturbs whoever reads or writes d at the time, *)
(* and p is disturbed if someone is writing d or p copies unsteady files.  *)
Disturb(p, d) ==
  LET alone == ~ \E q \in Proc \ {p} : Writing(q) /\ job[q].dst = d
      copied == job[p].src = Absent \/ steady[job[p].src]
  IN  /\ steady' = [steady EXCEPT ![d] = FALSE]
      /\ calm' = [q \in Proc |->
                    IF q = p THEN alone /\ copied
                    ELSE calm[q] /\ Source(q) # d /\ ~ (Writing(q) /\ job[q].dst = d)]

(* Opening a key file for writing empties it; save first looks whether it  *)
(* has something to copy.                                                  *)
Open(p, n) ==
  /\ Opening(p, n)
  /\ IF job[p].src # Absent /\ file[job[p].src][n] = Absent
     THEN Abandon(p) /\ UNCHANGED <<file, history>>
     ELSE /\ SetFile(job[p].dst, n, Torn)
          /\ Goto(p, IF n = "client" THEN "fill client" ELSE "fill server")
          /\ IF n = "client" THEN Disturb(p, job[p].dst) ELSE UNCHANGED history
          /\ UNCHANGED job
  /\ UNCHANGED <<minted, crashes, handle, result>>

(* The bytes written: the generated key, or what the source holds now. *)
Written(p, n) == IF job[p].src = Absent THEN job[p].key ELSE file[job[p].src][n]

(* Seeded faults: a server.key that exists is kept; save copies one file. *)
FollowingIfNew(p, n) ==
  IF n = "client" /\ file[job[p].dst]["server"] = Absent THEN "open server" ELSE "idle"

FollowingGenerated(p, n) ==
  IF n = "client" /\ job[p].src = Absent THEN "open server" ELSE "idle"

(* Both writers do client.key, then server.key. *)
Following(p, n) == IF n = "client" THEN "open server" ELSE "idle"

Fill(p, n) ==
  /\ Filling(p, n)
  /\ SetFile(job[p].dst, n, Written(p, n))
  /\ Goto(p, Following(p, n))
  /\ IF Following(p, n) = "idle"
     THEN /\ handle' = [handle EXCEPT ![p] =
                          IF job[p].src = Absent THEN HandleOn(job[p].dst, job[p].key)
                                                 ELSE [@ EXCEPT !.dir = job[p].dst]]
          /\ job' = [job EXCEPT ![p] = NoJob]
          /\ steady' = [steady EXCEPT ![job[p].dst] = calm[p]]
     ELSE UNCHANGED <<handle, job, steady>>
  /\ UNCHANGED <<minted, crashes, result, calm>>

(* KeySet.load: both files must exist; the metadata is client.key's. *)
Load(p, d) ==
  /\ pc[p] = "idle"
  /\ file[d]["client"] \in Key
  /\ file[d]["server"] # Absent
  /\ handle' = [handle EXCEPT ![p] = HandleOn(d, file[d]["client"])]
  /\ result' = [result EXCEPT ![p] = NoResult]
  /\ UNCHANGED <<file, minted, crashes, pc, job, history>>

-----------------------------------------------------------------------------
(* run_encrypted's own checks look at the handle, which is as old as its   *)
(* load.                                                                   *)
HandleFits(h, s, g) == h.scheme = s /\ (h.width # 0 => h.width = g)

(* It then reads client.key ... *)
Run(p, s, g) ==
  /\ pc[p] = "idle"
  /\ handle[p] # NoHandle
  /\ HandleFits(handle[p], s, g)
  /\ job' = [job EXCEPT ![p] = [scheme |-> s, model |-> g,
                                ck |-> file[handle[p].dir]["client"]]]
  /\ Goto(p, "read server")
  /\ result' = [result EXCEPT ![p] = NoResult]
  /\ calm' = [calm EXCEPT ![p] = steady[handle[p].dir]]
  /\ UNCHANGED <<file, minted, crashes, handle, steady>>

(* ... and server.key, and the bridge decodes them: encrypt and decrypt    *)
(* with the first, evaluate with the second, which alone is compared with  *)
(* the model's width.                                                      *)
ClientKeyDecodes(ck, s) == ck \in Key /\ ck.scheme = s

TfheEvaluates(sk, g) == sk \in Key /\ sk.scheme = "tfhe" /\ sk.width = g

CkksEvaluates(sk) == sk \in Key /\ sk.scheme = "ckks"

Decodes(ck, sk, s, g) ==
  /\ ClientKeyDecodes(ck, s)
  /\ IF s = "tfhe" THEN TfheEvaluates(sk, g) ELSE CkksEvaluates(sk)

Return(p) ==
  /\ pc[p] = "read server"
  /\ LET j == job[p]  sk == file[handle[p].dir]["server"]
     IN  result' = [result EXCEPT ![p] =
                      IF Decodes(j.ck, sk, j.scheme, j.model)
                      THEN [ck |-> j.ck, sk |-> sk, scheme |-> j.scheme, model |-> j.model,
                            calm |-> calm[p]]
                      ELSE NoResult]
  /\ Abandon(p)
  /\ UNCHANGED <<file, minted, crashes, handle, history>>

(* A process dies and is started again: files stay as they are. *)
Crash(p) ==
  /\ crashes < MaxCrash
  /\ crashes' = crashes + 1
  /\ Abandon(p)
  /\ handle' = [handle EXCEPT ![p] = NoHandle]
  /\ result' = [result EXCEPT ![p] = NoResult]
  /\ UNCHANGED <<file, minted, history>>

Step(p) ==
  \/ \E d \in Dir, s \in Scheme, w \in Width \cup {0} : Generate(p, d, s, w)
  \/ \E d \in Dir : Save(p, d) \/ Load(p, d)
  \/ \E n \in Name : Open(p, n) \/ Fill(p, n)
  \/ \E s \in Scheme, g \in Width : Run(p, s, g)
  \/ Return(p)
  \/ Crash(p)

Next == UNCHANGED users /\ \E p \in users : Step(p)

Spec == Init /\ [][Next]_vars

-----------------------------------------------------------------------------
Handle == [dir : Dir, scheme : Scheme, width : Width \cup {0}]
Write  == [dst : Dir, src : Dir \cup {Absent}, key : Key \cup {Absent}]
Read   == [scheme : Scheme, model : Width, ck : Content]
Answer == [ck : Key, sk : Key, scheme : Scheme, model : Width, calm : BOOLEAN]

(* What a process holds in the middle of a call: nothing between calls, a  *)
(* key to write or the directory of its handle to copy, a handle to run.   *)
Midcall(p) ==
  CASE pc[p] = "idle" -> job[p] = NoJob
    [] pc[p] = "read server" -> job[p] \in Read /\ handle[p] # NoHandle
    [] OTHER -> /\ job[p] \in Write
                /\ IF job[p].src = Absent THEN job[p].key \in Key
                   ELSE handle[p].dir = job[p].src /\ job[p].src # job[p].dst

(* Types, and no call leaves its locals to the next one. *)
TypeOK ==
  /\ users \in SUBSET Proc
  /\ file \in [Dir -> [Name -> Content]]
  /\ minted \in 0 .. MaxKeys /\ crashes \in 0 .. MaxCrash
  /\ pc \in [Proc -> {"idle", "open client", "fill client", "open server", "fill server",
                      "read server"}]
  /\ job \in [Proc -> Write \cup Read \cup {NoJob}]
  /\ handle \in [Proc -> Handle \cup {NoHandle}]
  /\ result \in [Proc -> Answer \cup {NoResult}]
  /\ steady \in [Dir -> BOOLEAN] /\ calm \in [Proc -> BOOLEAN]
  /\ \A p \in Proc : Midcall(p)

Returned(p) == result[p] # NoResult

(* Nobody interferes: one client, that has not been killed. *)
Alone == Cardinality(users) = 1 /\ crashes = 0

(* A client with the directories to itself never mixes keys, whatever it   *)
(* generates, saves, loads and runs, on handles however old: what it       *)
(* decrypts was computed under the same pair.                              *)
RightResult ==
  Alone => \A p \in users : Returned(p) => result[p].ck.pair = result[p].sk.pair

(* The exact protection there is, for any number of clients that share     *)
(* directories and may die half way through a write: a result can be noise *)
(* only if the keys it used were left by a write that another one          *)
(* overlapped, or that died, or that copied such keys, or if a write began *)
(* between the two reads.  Everything else, old handles included, is right.*)
RightWhenUndisturbed ==
  \A p \in Proc : Returned(p) /\ result[p].calm =>
    result[p].ck.pair = result[p].sk.pair

(* Between a lone client's calls a directory holds one pair, or nothing:   *)
(* generating over an old pair and copying over one leave no file of it    *)
(* behind (client.py:100, client.py:110).                                  *)
Quiet == \A p \in Proc : pc[p] \in {"idle", "read server"}

DirectoriesArePairs ==
  Alone /\ Quiet => \A d \in Dir : \A n, m \in Name :
    /\ file[d][n] \in Key /\ file[d][m] \in Key => file[d][n].pair = file[d][m].pair
    /\ file[d][n] = Absent => file[d][m] = Absent

(* run_encrypted "fails loudly if the keys' radix width or backend doesn't *)
(* match the model/run" (client.py:169): both keys' width is the model's.  *)
WidthMismatchIsLoud ==
  \A p \in Proc : Returned(p) =>
    LET r == result[p]
    IN  r.scheme = "tfhe" => r.ck.width = r.model /\ r.sk.width = r.model
=============================================================================

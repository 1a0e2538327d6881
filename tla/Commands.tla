------------------------------ MODULE Commands ------------------------------
(***************************************************************************)
(* The command line of src/runtime/src/bin beside the Python clients:      *)
(* keygen, encrypt, serve, decrypt and predict, each a process of its own, *)
(* which pass keys through the directories of KeyStore and batches of      *)
(* ciphertexts through wire files, one in.cts and one out.cts to a box.  A *)
(* command reads its files one after the other, opens the one it writes    *)
(* last of all (which empties it) and fills it; one that fails leaves the  *)
(* files as they are.                                                      *)
(***************************************************************************)
EXTENDS KeyStore

CONSTANTS Box,          \* places that hold an in.cts and an out.cts
          MaxRequests   \* bound: batches of rows ever encrypted

ASSUME RequestAssumption == MaxRequests \in Nat

VARIABLES shells,       \* the processes that run commands; the others are Python clients
          wire,         \* the wire files
          cmd,          \* the command each shell is running, after its first read
          asked,        \* batches of rows encrypted so far; the number stands for the rows
          printed       \* what the last step printed, if it printed an answer

(* History, of use to the property only: the request a shell encrypted     *)
(* last, as long as nobody has written the files it goes by, except to     *)
(* answer it.                                                              *)
VARIABLE trip

cmdvars == <<shells, wire, cmd, asked, printed, trip>>
allvars == <<vars, cmdvars>>

Wire == {"in", "out"}

(* A batch: the pair it is encrypted under, the rows it stands for, and    *)
(* the pair of the server key it was evaluated with, 0 before that.  The   *)
(* pair after the last is the one predict keeps to itself.                 *)
Batch == [pair : 1 .. MaxKeys, request : 1 .. MaxRequests, under : 0 .. MaxKeys]
OwnPair == MaxKeys + 1

ASSUME WireAssumption == Absent \notin Batch /\ Torn \notin Batch

NoCmd    == [at |-> "none"]
NoAnswer == [ck |-> 0]
NoTrip   == [dir |-> Absent]

CmdInit ==
  /\ Init
  /\ shells \in SUBSET users
  /\ wire = [b \in Box |-> [n \in Wire |-> Absent]]
  /\ cmd = [p \in Proc |-> NoCmd]
  /\ asked = 0
  /\ printed = NoAnswer
  /\ trip = [p \in Proc |-> NoTrip]

Prompt(p) == p \in shells /\ pc[p] = "idle" /\ cmd[p] = NoCmd

Become(p, c) == cmd' = [cmd EXCEPT ![p] = c]

(* The keys a command can use: serve compares the width of its own with    *)
(* the model's, encrypt and decrypt have no model.                         *)
ClientKeyIn(d) == ClientKeyDecodes(file[d]["client"], "tfhe")

ServerKeyIn(d, g) == TfheEvaluates(file[d]["server"], g)

-----------------------------------------------------------------------------
(* keygen writes its two files as KeySet.generate does. *)
Keygen(p, d, w) == Generate(p, d, "tfhe", w)

(* A change of a key directory ends every trip that goes by it. *)
KeyStep(p) ==
  /\ cmd[p] = NoCmd
  /\ IF p \in shells
     THEN \/ \E d \in Dir, w \in Width : Keygen(p, d, w)
          \/ \E n \in Name : Open(p, n) \/ Fill(p, n)
     ELSE Step(p)
  /\ trip' = [q \in Proc |-> IF trip[q] # NoTrip /\ file'[trip[q].dir] # file[trip[q].dir]
                             THEN NoTrip ELSE trip[q]]
  /\ printed' = NoAnswer
  /\ UNCHANGED <<wire, cmd, asked>>

-----------------------------------------------------------------------------
(* encrypt: the client key, then the rows, then in.cts. *)
Encrypt(p, d, b) ==
  /\ Prompt(p)
  /\ asked < MaxRequests
  /\ ClientKeyIn(d)
  /\ asked' = asked + 1
  /\ Become(p, [at |-> "open", box |-> b, file |-> "in", for |-> {asked + 1},
                batch |-> [pair |-> file[d]["client"].pair, request |-> asked + 1, under |-> 0]])
  /\ trip' = [trip EXCEPT ![p] = IF steady[d]
                                 THEN [dir |-> d, box |-> b, request |-> asked + 1,
                                       stage |-> "asked"]
                                 ELSE NoTrip]
  /\ printed' = NoAnswer
  /\ UNCHANGED <<vars, wire>>

(* The requests whose in.cts is complete when a serve command starts. *)
Sent(d, b) ==
  {trip[q].request : q \in {r \in Proc : /\ trip[r] # NoTrip
                                         /\ trip[r].dir = d /\ trip[r].box = b
                                         /\ trip[r].stage # "asked"}}

(* serve: the server key ... *)
Serve(p, d, b, g) ==
  /\ Prompt(p)
  /\ ServerKeyIn(d, g)
  /\ Become(p, [at |-> "read", box |-> b, for |-> Sent(d, b), sk |-> file[d]["server"].pair])
  /\ printed' = NoAnswer
  /\ UNCHANGED <<vars, wire, asked, trip>>

(* The bytes read decode if they are a whole batch: no other scheme's are  *)
(* written here.                                                           *)
BatchDecodes(c) == c \in Batch

(* ... then in.cts, and the walk of the graph on every row of it.  A batch *)
(* under another pair evaluates to noise, or panics if the widths differ.  *)
Evaluate(p) ==
  /\ cmd[p].at = "read"
  /\ LET c == cmd[p]  given == wire[c.box]["in"]
     IN  \/ /\ BatchDecodes(given)
            /\ Become(p, [at |-> "open", box |-> c.box, file |-> "out", for |-> c.for,
                          batch |-> [given EXCEPT !.under = c.sk]])
         \/ /\ BatchDecodes(given) => given.pair # c.sk
            /\ Become(p, NoCmd)
  /\ printed' = NoAnswer
  /\ UNCHANGED <<vars, wire, asked, trip>>

(* Filling a file takes the trips it is for a stage further; opening or    *)
(* filling it ends the others that go by the box.                          *)
Further(t, c) ==
  IF c.at = "open" THEN t
  ELSE [t EXCEPT !.stage = IF c.file = "in" THEN "sent" ELSE "served"]

Touch(c) ==
  trip' = [q \in Proc |-> IF trip[q] = NoTrip \/ trip[q].box # c.box THEN trip[q]
                          ELSE IF trip[q].request \in c.for THEN Further(trip[q], c)
                          ELSE NoTrip]

(* The write of encrypt and of serve: the file is emptied ... *)
OpenWire(p) ==
  /\ cmd[p].at = "open"
  /\ wire' = [wire EXCEPT ![cmd[p].box][cmd[p].file] = Torn]
  /\ Become(p, [cmd[p] EXCEPT !.at = "fill"])
  /\ Touch(cmd[p])
  /\ printed' = NoAnswer
  /\ UNCHANGED <<vars, asked>>

(* ... and filled. *)
FillWire(p) ==
  /\ cmd[p].at = "fill"
  /\ wire' = [wire EXCEPT ![cmd[p].box][cmd[p].file] = cmd[p].batch]
  /\ Become(p, NoCmd)
  /\ Touch(cmd[p])
  /\ printed' = NoAnswer
  /\ UNCHANGED <<vars, asked>>

(* The request whose answer this is: the command's own trip, if it is not  *)
(* over and has been served.                                               *)
Awaited(p, d, b) ==
  IF trip[p] # NoTrip /\ trip[p].stage = "served" /\ trip[p].dir = d /\ trip[p].box = b
  THEN trip[p].request ELSE 0

(* decrypt: the client key ... *)
Decrypt(p, d, b) ==
  /\ Prompt(p)
  /\ ClientKeyIn(d)
  /\ Become(p, [at |-> "print", dir |-> d, box |-> b, ck |-> file[d]["client"].pair])
  /\ printed' = NoAnswer
  /\ UNCHANGED <<vars, wire, asked, trip>>

(* ... then out.cts.  A batch under another pair decrypts to noise, or     *)
(* panics if the widths differ.                                            *)
Report(p) ==
  /\ cmd[p].at = "print"
  /\ LET c == cmd[p]  got == wire[c.box]["out"]
     IN  \/ /\ BatchDecodes(got)
            /\ printed' = [ck |-> c.ck, batch |-> got, awaited |-> Awaited(p, c.dir, c.box)]
         \/ /\ BatchDecodes(got) => got.pair # c.ck
            /\ printed' = NoAnswer
  /\ Become(p, NoCmd)
  /\ UNCHANGED <<vars, wire, asked, trip>>

(* predict: a pair of its own, and no file but the model. *)
Predict(p) ==
  /\ Prompt(p)
  /\ asked < MaxRequests
  /\ asked' = asked + 1
  /\ printed' = [ck |-> OwnPair, awaited |-> asked + 1,
                 batch |-> [pair |-> OwnPair, request |-> asked + 1, under |-> OwnPair]]
  /\ UNCHANGED <<vars, wire, cmd, trip>>

(* A command is killed, keygen too: the files stay as they are. *)
Kill(p) ==
  /\ p \in shells
  /\ Crash(p)
  /\ Become(p, NoCmd)
  /\ printed' = NoAnswer
  /\ UNCHANGED <<wire, asked, trip>>

Command(p) ==
  \/ \E d \in Dir, b \in Box : Encrypt(p, d, b) \/ Decrypt(p, d, b)
  \/ \E d \in Dir, b \in Box, g \in Width : Serve(p, d, b, g)
  \/ Evaluate(p) \/ OpenWire(p) \/ FillWire(p) \/ Report(p) \/ Predict(p) \/ Kill(p)

CmdNext == UNCHANGED <<users, shells>> /\ \E p \in users : KeyStep(p) \/ Command(p)

CmdSpec == CmdInit /\ [][CmdNext]_allvars

-----------------------------------------------------------------------------
Requests == 1 .. MaxRequests

Reading == [at : {"read"}, box : Box, for : SUBSET Requests, sk : 1 .. MaxKeys]
Sending == [at : {"open", "fill"}, box : Box, file : Wire, for : SUBSET Requests, batch : Batch]
Printing == [at : {"print"}, dir : Dir, box : Box, ck : 1 .. MaxKeys]
OwnBatch == [pair : {OwnPair}, request : Requests, under : {OwnPair}]
Printout == [ck : 1 .. OwnPair, batch : Batch \cup OwnBatch, awaited : 0 .. MaxRequests]
Trip == [dir : Dir, box : Box, request : Requests, stage : {"asked", "sent", "served"}]

(* Types of the command line's state and of the key store's under it; a    *)
(* shell runs one thing at a time.                                         *)
CmdTypeOK ==
  /\ TypeOK
  /\ shells \subseteq users
  /\ wire \in [Box -> [Wire -> Batch \cup {Absent, Torn}]]
  /\ cmd \in [Proc -> Reading \cup Sending \cup Printing \cup {NoCmd}]
  /\ asked \in 0 .. MaxRequests
  /\ printed \in Printout \cup {NoAnswer}
  /\ trip \in [Proc -> Trip \cup {NoTrip}]
  /\ \A p \in Proc : cmd[p] # NoCmd => p \in shells /\ pc[p] = "idle"

(* encrypt, serve and decrypt leave no more than file names to tie the     *)
(* answer to the question.  That is enough for a client whose keys were    *)
(* left by an undisturbed write: once a serve command that was started on  *)
(* its complete in.cts, whoever ran it, has filled out.cts, decrypt prints *)
(* the answer to its own rows, computed under its own keys, as long as     *)
(* nobody else has written those four files since; whatever is killed on   *)
(* the way, and whatever runs in between, is of no consequence.            *)
RightAnswer ==
  printed # NoAnswer /\ printed.awaited # 0 =>
    /\ printed.batch.request = printed.awaited
    /\ printed.batch.pair = printed.ck
    /\ printed.batch.under = printed.ck
=============================================================================

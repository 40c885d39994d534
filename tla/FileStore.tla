----------------------------- MODULE FileStore -----------------------------
(***************************************************************************)
(* What the file calls promise their caller, with no clusters in sight:    *)
(* a file is a sequence of bytes and a handle is a position in one.  A     *)
(* write is not atomic: its bytes are stored in order, the ones that       *)
(* replace old bytes visible at once, the new length only when it returns  *)
(* true.  A crash leaves each file its bytes up to the length saved last.  *)
(***************************************************************************)
EXTENDS Integers, Sequences

CONSTANTS
  Names,    \* names of files
  Handles,  \* the FAT32_FILE objects of the program
  Buffers,  \* what the program writes in one call
  NoName    \* the name of a handle that is not open

VARIABLES
  content,  \* content[n]: the bytes of file n
  saved,    \* saved[n]: the length in n's directory entry, -1 if n has none
  at,       \* at[h]: the file h is open on and its position
  writing,  \* the write in progress and the bytes it has stored
  result    \* what the last call returned

storeVars == <<saved, at, writing, result, content>>

Smaller(m, n) == IF m <= n THEN m ELSE n

Closed == [name |-> NoName, pos |-> 0]

NotWriting == [name |-> NoName, buffer |-> <<>>, done |-> 0]

Returned(ok, out, asked) == result' = [ok |-> ok, out |-> out, asked |-> asked]

File(h) == at[h].name

Open(h) == File(h) # NoName

Idle == writing = NotWriting

\* s with the first k bytes of b stored from position p on.
Overlay(s, p, b, k) ==
  [i \in 1 .. (IF p + k > Len(s) THEN p + k ELSE Len(s)) |->
     IF p < i /\ i <= p + k THEN b[i - p] ELSE s[i]]

\* The same without a change of the length.
Within(s, p, b, k) == SubSeq(Overlay(s, p, b, k), 1, Len(s))

-----------------------------------------------------------------------------
Init ==
  /\ content = [n \in Names |-> <<>>]
  /\ saved = [n \in Names |-> -1]
  /\ at = [h \in Handles |-> Closed]
  /\ writing = NotWriting
  /\ result = [ok |-> TRUE, out |-> <<>>, asked |-> 0]

\* A file that does not exist is created empty.
OpenFile(h, n) ==
  /\ Idle /\ ~Open(h)
  /\ at' = [at EXCEPT ![h] = [name |-> n, pos |-> 0]]
  /\ saved' = [saved EXCEPT ![n] = IF @ = -1 THEN 0 ELSE @]
  /\ Returned(TRUE, <<>>, 0)
  /\ UNCHANGED <<writing, content>>

Save(h) == saved' = [saved EXCEPT ![File(h)] = Len(content[File(h)])]

Close(h) ==
  /\ Idle /\ Open(h)
  /\ at' = [at EXCEPT ![h] = Closed]
  /\ Returned(TRUE, <<>>, 0)
  /\ Save(h)
  /\ UNCHANGED <<writing, content>>

Sync(h) ==
  /\ Idle /\ Open(h)
  /\ UNCHANGED <<at, writing>>
  /\ Returned(TRUE, <<>>, 0)
  /\ Save(h)
  /\ UNCHANGED content

\* All the bytes asked for that exist from the position on.
Read(h) ==
  LET k == Smaller(result'.asked, Len(content[File(h)]) - at[h].pos) IN
  /\ Idle /\ Open(h)
  /\ UNCHANGED <<saved, writing>>
  /\ result'.ok
  /\ at' = [at EXCEPT ![h].pos = @ + k]
  /\ result'.out = SubSeq(content[File(h)], at[h].pos + 1, at[h].pos + k)
  /\ UNCHANGED content

Seek(h) ==
  /\ Idle /\ Open(h)
  /\ UNCHANGED <<saved, writing>>
  /\ Returned(TRUE, <<>>, 0)
  /\ \E p \in 0 .. Len(content[File(h)]) : at' = [at EXCEPT ![h].pos = p]
  /\ UNCHANGED content

BeginWrite(h) ==
  /\ Idle /\ Open(h)
  /\ \E b \in Buffers : writing' = [name |-> File(h), buffer |-> b, done |-> 0]
  /\ UNCHANGED <<saved, at, result, content>>

WritePart(h) ==
  LET n == writing.name IN
  /\ n # NoName /\ File(h) = n
  /\ UNCHANGED <<saved, at, result>>
  /\ \E k \in writing.done + 1 .. Len(writing.buffer) - 1 :
       /\ writing' = [writing EXCEPT !.done = k]
       /\ content' = [content EXCEPT ![n] = Within(@, at[h].pos, writing.buffer, k)]

EndWrite(h) ==
  LET n == writing.name
      k == Len(writing.buffer) IN
  /\ n # NoName /\ File(h) = n
  /\ at' = [at EXCEPT ![h].pos = @ + k]
  /\ writing' = NotWriting
  /\ Returned(TRUE, <<>>, 0)
  /\ UNCHANGED saved
  /\ content' = [content EXCEPT ![n] = Overlay(@, at[h].pos, writing.buffer, k)]

\* The bytes stored so far stay; position and length are as before the call.
FailWrite ==
  /\ ~Idle
  /\ writing' = NotWriting
  /\ Returned(FALSE, <<>>, 0)
  /\ UNCHANGED <<saved, at, content>>

Truncate(h) ==
  /\ Idle /\ Open(h)
  /\ UNCHANGED <<saved, at, writing>>
  /\ Returned(TRUE, <<>>, 0)
  /\ content' = [content EXCEPT ![File(h)] = SubSeq(@, 1, at[h].pos)]

\* It takes effect before it returns.
Unlink(n) ==
  /\ Idle /\ saved[n] # -1
  /\ \A h \in Handles : File(h) # n
  /\ saved' = [saved EXCEPT ![n] = -1]
  /\ UNCHANGED <<at, writing, result>>
  /\ content' = [content EXCEPT ![n] = <<>>]

Stat(n) ==
  /\ Idle /\ saved[n] # -1
  /\ Returned(TRUE, <<saved[n]>>, 0)
  /\ UNCHANGED <<saved, at, writing, content>>

\* A call that changes nothing: f_expand, the end of f_unlink, a call that fails.
Nothing ==
  /\ Idle
  /\ \E ok \in BOOLEAN : Returned(ok, <<>>, 0)
  /\ UNCHANGED <<saved, at, writing, content>>

Crash ==
  /\ writing' = NotWriting
  /\ at' = [h \in Handles |-> Closed]
  /\ UNCHANGED saved
  /\ Returned(TRUE, <<>>, 0)
  /\ content' = [n \in Names |-> SubSeq(content[n], 1, Smaller(saved[n], Len(content[n])))]

Next ==
  \/ \E h \in Handles :
       \/ \E n \in Names : OpenFile(h, n)
       \/ Close(h) \/ Sync(h) \/ Read(h) \/ Seek(h) \/ Truncate(h)
       \/ BeginWrite(h) \/ WritePart(h) \/ EndWrite(h)
  \/ \E n \in Names : Unlink(n) \/ Stat(n)
  \/ FailWrite \/ Nothing \/ Crash

StoreSpec == Init /\ [][Next]_storeVars
=============================================================================

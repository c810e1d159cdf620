----------------------------- MODULE Snapshot -----------------------------
(***************************************************************************)
(* Saving and loading the index (src/snapshot.cpp, Engine::saveEncrypted   *)
(* and its siblings): a console that saves and loads, plain or encrypted,  *)
(* under one path, and a server program that loads the encrypted file of   *)
(* that path at its start (--load), perhaps while the console writes it.   *)
(*                                                                         *)
(* A file is the sequence of the fields written to it.  Writing appends,   *)
(* and a file that ends in the middle of a field reads like one that ends  *)
(* before it.  An authenticated ciphertext is a sequence of blocks, each   *)
(* with its key, nonce and part of the plaintext: it decrypts only as a    *)
(* whole and under the same key.  Salt and nonce are fresh random values,  *)
(* numbered by the saves.                                                  *)
(***************************************************************************)
EXTENDS Integers, Sequences, FiniteSets, SequencesExt

CONSTANTS
    Docs,        \* documents
    Demo,        \* those a console starts with (seedDemoData)
    Passwords,
    NoPassword,  \* of save-state and load-state
    MaxCount,    \* the largest document count that is accepted
    MaxSaves,    \* bound: save commands
    NoJob, NoResult

\* What a save command writes: the documents, and how.
Job == [kind : {"plain", "encrypted"}, pw : Passwords \cup {NoPassword},
        docs : SUBSET Docs, salt : 1..MaxSaves]

ASSUME SnapshotAssumption ==
    /\ Demo \in SUBSET Docs /\ IsFiniteSet(Demo)
    /\ MaxCount \in Nat /\ MaxSaves \in Nat
    /\ NoPassword \notin Passwords
    /\ \A docs \in SUBSET Docs : docs # NoResult
    /\ NoJob \notin Job

VARIABLES
    exists,  \* is there a file?
    file,    \* its fields
    index,   \* documents of the console's index
    console, \* where the console is
    job,     \* what it is saving
    todo,    \* fields it has still to write
    good,    \* state of its output stream
    server,  \* where the server program is
    buffer,  \* what it has read so far
    loaded,  \* what it got: a set of documents, or NoResult
    saves,
    begun,   \* history: every job whose file was opened
    last     \* history: the job that the file holds, if its save succeeded

disk == <<exists, file>>
reading == <<server, buffer, loaded>>
vars == <<disk, index, console, job, todo, good, reading, saves, begun, last>>

\* save-state and load-state, or save and load with a password.
Commands == ({"plain"} \X {NoPassword}) \cup ({"encrypted"} \X Passwords)

----------------------------------------------------------------------------
(* The format *)

Field(tag, value) == [tag |-> tag, value |-> value]

\* Two fields per document stand for the six of serializeOne.
SerializeOne(d) == <<Field("head", d), Field("body", d)>>

SerializeDocuments(docs) ==
    LET order == SetToSeq(docs) IN
    <<Field("magic", 0), Field("version", 1), Field("count", Cardinality(docs))>>
        \o [k \in 1..2 * Cardinality(docs) |-> SerializeOne(order[(k + 1) \div 2])[2 - (k % 2)]]

\* Mutant: a snapshot that ends early yields the documents before its end.
AcceptTruncated(data, n) == TRUE

\* All reads of the loop over the documents find their bytes.
BodyComplete(data, n) == Len(data) >= 3 + 2 * n

\* deserializeDocuments: magic, version, count, documents; what follows them
\* is ignored.
Deserialize(data) ==
    IF /\ Len(data) >= 3
       /\ data[1].tag = "magic" /\ data[2].tag = "version" /\ data[3].tag = "count"
       /\ data[3].value <= MaxCount
       /\ BodyComplete(data, data[3].value)
    THEN {data[i].value : i \in {k \in 4..Len(data) : k <= 3 + 2 * data[3].value}}
    ELSE NoResult

\* Blocks of a ciphertext, and the part of the plaintext in each.
NumBlocks == 2

Part(plain, b) == IF b = 1 THEN SubSeq(plain, 1, Len(plain) \div 2)
                  ELSE SubSeq(plain, Len(plain) \div 2 + 1, Len(plain))

\* CryptoBox::encrypt
Block(j, b) == [tag |-> "cipher", block |-> b, key |-> <<j.pw, j.salt>>, nonce |-> j.salt,
                plain |-> Part(SerializeDocuments(j.docs), b)]

\* saveEncryptedSnapshot: a header and the ciphertext.
Encrypted(j) ==
    <<Field("magic", 0), Field("salt", j.salt), Field("nonce", j.salt),
      Field("clen", NumBlocks), Block(j, 1), Block(j, 2)>>

Contents(j) == IF j.kind = "encrypted" THEN Encrypted(j) ELSE SerializeDocuments(j.docs)

\* Mutant: only the first block is authenticated.
FirstAuthentic(data, pw, n) ==
    /\ \A b \in 1..n : data[4 + b].tag = "cipher"
    /\ data[5].key = <<pw, data[2].value>> /\ data[5].nonce = data[3].value

\* CryptoBox::decrypt accepts the blocks of one encryption under this key and
\* nonce, all of them and in their order.
Authentic(data, pw, n) ==
    /\ n = NumBlocks
    /\ \A b \in 1..n :
          LET c == data[4 + b] IN
          /\ c.tag = "cipher" /\ c.block = b
          /\ c.key = <<pw, data[2].value>> /\ c.nonce = data[3].value

\* loadEncryptedSnapshot: length, magic, the length field, decryption.  In a
\* plain file the bytes in the place of salt and nonce decrypt nothing.
DecryptFile(data, pw) ==
    IF /\ Len(data) >= 4
       /\ data[1].tag = "magic" /\ data[4].tag = "clen"
       /\ data[4].value <= Len(data) - 4
       /\ Authentic(data, pw, data[4].value)
    THEN Deserialize(data[5].plain \o data[6].plain)
    ELSE NoResult

LoadFile(kind, pw, data) == IF kind = "encrypted" THEN DecryptFile(data, pw) ELSE Deserialize(data)

----------------------------------------------------------------------------
(* The console: save, save-state, load, load-state *)

\* The engine's crawler indexes a page, while the console waits or saves.
IndexDocument(d) ==
    /\ d \notin index
    /\ index' = index \cup {d}
    /\ UNCHANGED <<disk, console, job, todo, good, reading, saves, begun, last>>

\* allDocuments() copies the index under its lock.  Key derivation and
\* encryption come before the file is touched and may fail.
BeginSave(kind, pw) ==
    /\ console = "prompt" /\ saves < MaxSaves
    /\ saves' = saves + 1
    /\ LET j == [kind |-> kind, pw |-> pw, docs |-> index, salt |-> saves + 1] IN
       \/ /\ console' = "open"
          /\ job' = j /\ todo' = Contents(j)
       \/ /\ kind = "encrypted"
          /\ UNCHANGED <<console, job, todo>>
    /\ UNCHANGED <<disk, index, good, reading, begun, last>>

\* Mutant: the file is opened without trunc.
OpenToAppend ==
    /\ console = "open"
    /\ console' = "write"
    /\ exists' = TRUE
    /\ good' = TRUE
    /\ begun' = begun \cup {job} /\ last' = NoJob
    /\ UNCHANGED <<file, index, job, todo, reading, saves>>

\* std::ofstream with trunc: the old contents are gone.
OpenFile ==
    /\ console = "open"
    /\ console' = "write"
    /\ exists' = TRUE /\ file' = <<>>
    /\ good' = TRUE
    /\ begun' = begun \cup {job} /\ last' = NoJob
    /\ UNCHANGED <<index, job, todo, reading, saves>>

OpenFails ==
    /\ console = "open"
    /\ console' = "prompt"
    /\ job' = NoJob /\ todo' = <<>>
    /\ UNCHANGED <<disk, index, good, reading, saves, begun, last>>

WriteField ==
    /\ console = "write" /\ todo # <<>>
    /\ file' = Append(file, Head(todo))
    /\ todo' = Tail(todo)
    /\ UNCHANGED <<exists, index, console, job, good, reading, saves, begun, last>>

\* The disk is full: the stream goes bad and drops what follows.
WriteFails ==
    /\ console = "write" /\ todo # <<>>
    /\ good' = FALSE
    /\ todo' = <<>>
    /\ UNCHANGED <<disk, index, console, job, reading, saves, begun, last>>

\* Mutant: the state of the stream is not looked at.
AssumeWritten == TRUE

\* if (!ofs) after close()
Written == good

CloseFile ==
    /\ console = "write" /\ todo = <<>>
    /\ console' = "prompt"
    /\ last' = IF Written THEN job ELSE NoJob
    /\ job' = NoJob /\ good' = TRUE
    /\ UNCHANGED <<disk, index, todo, reading, saves, begun>>

\* replaceAll, when the file could be loaded.
Replaced(result) == IF result = NoResult THEN index ELSE result

Load(kind, pw) ==
    /\ console = "prompt" /\ exists
    /\ index' = Replaced(LoadFile(kind, pw, file))
    /\ UNCHANGED <<disk, console, job, todo, good, reading, saves, begun, last>>

\* The console dies and is started again: its index is the demo corpus.
Crash ==
    /\ console' = "prompt" /\ index' = Demo
    /\ job' = NoJob /\ todo' = <<>> /\ good' = TRUE
    /\ UNCHANGED <<disk, reading, saves, begun, last>>

----------------------------------------------------------------------------
(* A server program started with --load *)

StartServer ==
    /\ server = "off" /\ exists
    /\ server' = "reading" /\ buffer' = <<>>
    /\ UNCHANGED <<disk, index, console, job, todo, good, loaded, saves, begun, last>>

\* The file is read from front to back, whatever the console does to it.
ReadField ==
    /\ server = "reading" /\ Len(buffer) < Len(file)
    /\ buffer' = Append(buffer, file[Len(buffer) + 1])
    /\ UNCHANGED <<disk, index, console, job, todo, good, server, loaded, saves, begun, last>>

\* End of file: the program serves what it has loaded, or gives up.
EndOfFile(pw) ==
    /\ server = "reading" /\ Len(buffer) >= Len(file)
    /\ loaded' = LoadFile("encrypted", pw, buffer)
    /\ server' = IF loaded' = NoResult THEN "off" ELSE "serving"
    /\ buffer' = <<>>
    /\ UNCHANGED <<disk, index, console, job, todo, good, saves, begun, last>>

Init ==
    /\ exists = FALSE /\ file = <<>>
    /\ index = Demo /\ console = "prompt" /\ job = NoJob /\ todo = <<>> /\ good = TRUE
    /\ server = "off" /\ buffer = <<>> /\ loaded = NoResult
    /\ saves = 0 /\ begun = {} /\ last = NoJob

Next ==
    \/ \E d \in Docs : IndexDocument(d)
    \/ \E c \in Commands : BeginSave(c[1], c[2]) \/ Load(c[1], c[2])
    \/ OpenFile \/ OpenFails \/ WriteField \/ WriteFails \/ CloseFile
    \/ Crash
    \/ StartServer \/ ReadField \/ \E pw \in Passwords : EndOfFile(pw)

Spec == Init /\ [][Next]_vars
----------------------------------------------------------------------------
(* Properties *)

\* The values each variable ranges over; what the file holds and what is
\* still to be written are together the contents of the job.
TypeOK ==
    /\ exists \in BOOLEAN /\ good \in BOOLEAN
    /\ index \subseteq Docs
    /\ console \in {"prompt", "open", "write"}
    /\ job \in Job \cup {NoJob} /\ last \in Job \cup {NoJob} /\ begun \subseteq Job
    /\ console = "prompt" <=> job = NoJob
    /\ console = "write" /\ good => file \o todo = Contents(job)
    /\ server \in {"off", "reading", "serving"}
    /\ server = "serving" => loaded \in SUBSET Docs
    /\ saves \in 0..MaxSaves

\* A save that reported success left a file that loads, with the same command
\* and password, to the documents the index held when the save began, until
\* the next save opens the file, through crashes and loads by others.  The
\* one exception is a snapshot above the count that deserializeDocuments
\* accepts.
SavedIsLoadable ==
    last # NoJob /\ Cardinality(last.docs) <= MaxCount
        => LoadFile(last.kind, last.pw, file) = last.docs

\* load and load-state take all of a snapshot or leave the index alone: a file
\* cut short by a crash or a full disk, of the other kind or under another
\* password, never yields a part of what was saved.
LoadsAreWhole ==
    [][\A c \in Commands :
         Load(c[1], c[2]) => \/ index' = index
                             \/ \E j \in begun : <<j.kind, j.pw, j.docs>> = <<c[1], c[2], index'>>]_vars

\* The same for a server that reads the file while the console rewrites it:
\* old and new fields in one buffer never pass for a snapshot.
ServedIsWhole ==
    [][\A pw \in Passwords :
         EndOfFile(pw) /\ loaded' # NoResult =>
             \E j \in begun : <<j.kind, j.pw, j.docs>> = <<"encrypted", pw, loaded'>>]_vars
=============================================================================

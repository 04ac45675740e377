------------------------------ MODULE ArtifactStore ------------------------------
(***************************************************************************)
(* sheath/artifacts.py: any number of ArtifactStore objects, in one        *)
(* process or several, over one root directory.  What a store has          *)
(* registered is its own memory; the objects under the root are shared,    *)
(* one file per content, and a store's lock keeps out only callers of the  *)
(* same store, so the calls of different stores interleave.                *)
(***************************************************************************)
EXTENDS Naturals, FiniteSets

CONSTANTS
    Stores,
    Contents,
    Empty,     \* the contents that have no bytes
    Faults     \* what may go wrong in this instance

\* "crash": the process of a store dies and another opens the root.  "disk": a
\* write fails.  "tamper": somebody else alters or removes an object.
ASSUME StoreAssumption ==
    /\ Empty \subseteq Contents
    /\ Faults \subseteq {"crash", "disk", "tamper"}

VARIABLES
    file,          \* the object of each content
    known,         \* _artifacts of each store
    call,          \* the store_bytes call each store is in
    interrupted,   \* history: contents whose write was broken off
    tampered       \* history: contents whose object somebody else touched

vars == <<file, known, call, interrupted, tampered>>

\* An artifact is its content.  Its kind is one more part of its id, and storing
\* the same content under another kind is what another store does with it; its
\* redacted flag only makes a call for a known id raise, and nothing changes.
Call == [step : {"create", "write", "verify"}, content : Contents]

Idle == [step |-> "idle"]

Init ==
    /\ file = [c \in Contents |-> "absent"]
    /\ known = [s \in Stores |-> {}]
    /\ call = [s \in Stores |-> Idle]
    /\ interrupted = {}
    /\ tampered = {}

InStep(s, step) == call[s].step = step

Asked(s) == call[s].content

Writing(s, c) == InStep(s, "write") /\ Asked(s) = c

Proceed(s, step) == call' = [call EXCEPT ![s] = [step |-> step, content |-> Asked(s)]]

\* The call returns, or raises and changes nothing.
Return(s) == call' = [call EXCEPT ![s] = Idle]

-------------------------------------------------------------------------------
(* store_bytes *)

\* A call that finds a prior artifact with its id verifies it, and returns it or
\* raises: it changes nothing and has no action here.
StoreBytes(s, c) ==
    /\ call[s] = Idle
    /\ c \notin known[s]
    /\ call' = [call EXCEPT ![s] = [step |-> "create", content |-> c]]
    /\ UNCHANGED <<file, known, interrupted, tampered>>

\* A file just created holds none of its bytes yet.
Created(c) == IF c \in Empty THEN "whole" ELSE "partial"

\* Mutant: the file is opened for writing whether it exists or not.
CreateOrTruncate(s) ==
    /\ InStep(s, "create")
    /\ file' = [file EXCEPT ![Asked(s)] = Created(Asked(s))]
    /\ Proceed(s, "write")
    /\ UNCHANGED <<known, interrupted, tampered>>

\* Mutant: the bytes are to be written after the file was verified.
CreateAndVerify(s) ==
    /\ InStep(s, "create")
    /\ IF file[Asked(s)] = "absent"
         THEN file' = [file EXCEPT ![Asked(s)] = Created(Asked(s))]
         ELSE UNCHANGED file
    /\ Proceed(s, "verify")
    /\ UNCHANGED <<known, interrupted, tampered>>

\* open("xb"), which finds the file or makes it
Create(s) ==
    /\ InStep(s, "create")
    /\ IF file[Asked(s)] = "absent"
         THEN /\ file' = [file EXCEPT ![Asked(s)] = Created(Asked(s))]
              /\ Proceed(s, "write")
         ELSE /\ Proceed(s, "verify")
              /\ UNCHANGED file
    /\ UNCHANGED <<known, interrupted, tampered>>

Write(s) ==
    /\ InStep(s, "write")
    /\ file' = [file EXCEPT ![Asked(s)] = "whole"]
    /\ Proceed(s, "verify")
    /\ UNCHANGED <<known, interrupted, tampered>>

\* Mutant: a file that can be read is taken to be right.
Present(c) == file[c] # "absent"

\* _verify_file: size and digest of what is there now
Verifies(c) == file[c] = "whole"

Register(s) ==
    /\ InStep(s, "verify")
    /\ Verifies(Asked(s))
    /\ known' = [known EXCEPT ![s] = @ \cup {Asked(s)}]
    /\ Return(s)
    /\ UNCHANGED <<file, interrupted, tampered>>

Reject(s) ==
    /\ InStep(s, "verify")
    /\ ~Verifies(Asked(s))
    /\ Return(s)
    /\ UNCHANGED <<file, known, interrupted, tampered>>

-------------------------------------------------------------------------------
(* Faults *)

\* What a call in the middle of a write leaves when it is broken off.
BreakOff(s) ==
    interrupted' = IF InStep(s, "write") THEN interrupted \cup {Asked(s)}
                   ELSE interrupted

\* The write raises: an OSError, which store_bytes lets through.
WriteFails(s) ==
    /\ "disk" \in Faults
    /\ InStep(s, "write")
    /\ BreakOff(s)
    /\ Return(s)
    /\ UNCHANGED <<file, known, tampered>>

\* A new store over the same root knows nothing of what the old one stored.
Crash(s) ==
    /\ "crash" \in Faults
    /\ BreakOff(s)
    /\ known' = [known EXCEPT ![s] = {}]
    /\ Return(s)
    /\ UNCHANGED <<file, tampered>>

\* A store that was writing the object goes on to no effect: its bytes are lost
\* with a file that was removed, and do not make one whole that was altered.
Tamper(c) ==
    /\ "tamper" \in Faults
    /\ file[c] # "absent"
    /\ file' \in {[file EXCEPT ![c] = "altered"], [file EXCEPT ![c] = "absent"]}
    /\ call' = [s \in Stores |->
                  IF Writing(s, c) THEN [step |-> "verify", content |-> c] ELSE call[s]]
    /\ tampered' = tampered \cup {c}
    /\ UNCHANGED <<known, interrupted>>

Advance(s) == Create(s) \/ Write(s) \/ Register(s) \/ Reject(s)

Next ==
    \/ \E s \in Stores :
          Advance(s) \/ WriteFails(s) \/ Crash(s) \/ \E c \in Contents : StoreBytes(s, c)
    \/ \E c \in Contents : Tamper(c)

Spec == Init /\ [][Next]_vars

\* A call that has begun goes on: nothing it waits for depends on another call.
FairSpec == Spec /\ \A s \in Stores : WF_vars(Advance(s))

-------------------------------------------------------------------------------
(* What the stores promise: one map for all, ContentMap *)

Whole == {c \in Contents : file[c] = "whole"}

AskedFor == [s \in Stores |-> IF call[s] = Idle THEN {} ELSE {Asked(s)}]

Promise == INSTANCE ContentMap
             WITH stored <- Whole, held <- known, asked <- AskedFor, spoiled <- tampered

\* However the calls of stores interleave, break off or fail, together they are
\* one map: bytes come into it because a store was asked for them, no step of a
\* store takes them out, and a store answers only for what the map has then.
KeepsOneMap == Promise!Spec

-------------------------------------------------------------------------------
TypeOK ==
    /\ file \in [Contents -> {"absent", "partial", "whole", "altered"}]
    /\ known \in [Stores -> SUBSET Contents]
    /\ call \in [Stores -> Call \cup {Idle}]
    /\ interrupted \subseteq Contents
    /\ tampered \subseteq Contents

\* Stored once: whatever other stores do and whoever crashes, bytes that are
\* whole stay whole until somebody other than a store touches them.
WriteOnce ==
    [][\A c \in Contents :
          file[c] = "whole" /\ file'[c] # "whole" => c \in tampered']_vars

\* What any store has registered is still there and right, unless somebody
\* other than a store touched it: no store registers what another has half
\* written, or a crash has left half written.
RegisteredIsWhole ==
    \A s \in Stores : \A c \in known[s] : c \notin tampered => file[c] = "whole"

\* An object half written does not stay so, unless its write was broken off
\* (it then stays for ever: no store repairs it) or it was touched.
HalfWrittenHeals ==
    \A c \in Contents :
        file[c] = "partial" ~> (file[c] = "whole" \/ c \in interrupted \cup tampered)
===============================================================================

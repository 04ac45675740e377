-------------------------- MODULE ArtifactStoreProofs --------------------------
(***************************************************************************)
(* Any number of artifact stores over one root, any contents, any faults.  *)
(***************************************************************************)
EXTENDS ArtifactStore, TLAPS

\* Exclusive creation gives each object one writer, and while it writes the
\* object is as it was created; nothing else could make whole bytes less.
OneWriter ==
    /\ \A s \in Stores, c \in Contents : Writing(s, c) => file[c] = Created(c)
    /\ \A s, t \in Stores, c \in Contents : Writing(s, c) /\ Writing(t, c) => s = t

Inv == TypeOK /\ OneWriter /\ RegisteredIsWhole

\* What one step of a system of stores is.
LEMMA StepIsOneOf ==
    ASSUME Next
    PROVE  \/ \E s \in Stores :
                \/ \E c \in Contents : StoreBytes(s, c)
                \/ Create(s) \/ Write(s) \/ Register(s) \/ Reject(s)
                \/ WriteFails(s) \/ Crash(s)
           \/ \E c \in Contents : Tamper(c)
  BY DEF Next, Advance

\* A call that is under way is one of a store's steps on a content.
LEMMA CallUnderWay ==
    ASSUME TypeOK, NEW s \in Stores,
           NEW step \in {"create", "write", "verify"}, InStep(s, step)
    PROVE  call[s] \in Call /\ Asked(s) \in Contents /\ call[s].step = step
  BY DEF TypeOK, InStep, Asked, Call, Idle

\* No object, no call, nothing registered.
LEMMA InitHolds == Init => Inv
  BY StoreAssumption
     DEF Init, Inv, TypeOK, OneWriter, RegisteredIsWhole, Writing, InStep, Idle

\* The types of the five variables, step by step.
LEMMA TypePreserved ==
    ASSUME TypeOK, [Next]_vars
    PROVE  TypeOK'
  <1>1. ASSUME NEW s \in Stores, NEW c \in Contents, StoreBytes(s, c)
        PROVE  TypeOK'
    BY <1>1 DEF TypeOK, StoreBytes, Call
  <1>2. ASSUME NEW s \in Stores, Create(s)
        PROVE  TypeOK'
    BY <1>2, CallUnderWay DEF TypeOK, Create, Created, Proceed, Call
  <1>3. ASSUME NEW s \in Stores, Write(s)
        PROVE  TypeOK'
    BY <1>3, CallUnderWay DEF TypeOK, Write, Proceed, Call
  <1>4. ASSUME NEW s \in Stores, Register(s) \/ Reject(s) \/ WriteFails(s) \/ Crash(s)
        PROVE  TypeOK'
    BY <1>4, CallUnderWay
       DEF TypeOK, Register, Reject, WriteFails, Crash, Return, BreakOff
  <1>5. ASSUME NEW c \in Contents, Tamper(c)
        PROVE  TypeOK'
    BY <1>5 DEF TypeOK, Tamper, Call, Writing, InStep, Idle
  <1>6. CASE UNCHANGED vars
    BY <1>6 DEF TypeOK, vars
  <1>7. QED
    BY <1>1, <1>2, <1>3, <1>4, <1>5, <1>6, StepIsOneOf

\* A step of a store changes an object only from absent, by creating it, or as
\* its one writer.
LEMMA WriterPreserved ==
    ASSUME Inv, TypeOK', [Next]_vars
    PROVE  OneWriter'
  <1>1. ASSUME NEW s \in Stores, NEW c \in Contents, StoreBytes(s, c)
        PROVE  OneWriter'
    BY <1>1 DEF Inv, TypeOK, OneWriter, StoreBytes, Writing, InStep, Asked, Idle, Call
  <1>2. ASSUME NEW s \in Stores, Create(s)
        PROVE  OneWriter'
    <2>1. Asked(s) \in Contents /\ call[s] \in Call
      BY <1>2, CallUnderWay DEF Create, Inv
    <2>2. CASE file[Asked(s)] = "absent"
      <3>1. \A t \in Stores : ~Writing(t, Asked(s))
        BY <2>1, <2>2 DEF Inv, OneWriter, Created
      <3>2. QED
        BY <1>2, <2>1, <2>2, <3>1
           DEF Inv, TypeOK, OneWriter, Create, Proceed, Writing, InStep, Asked, Idle, Call
    <2>3. CASE file[Asked(s)] # "absent"
      BY <1>2, <2>1, <2>3
         DEF Inv, TypeOK, OneWriter, Create, Proceed, Writing, InStep, Asked, Idle, Call
    <2>4. QED
      BY <2>2, <2>3
  <1>3. ASSUME NEW s \in Stores, Write(s)
        PROVE  OneWriter'
    <2>1. Asked(s) \in Contents /\ call[s] \in Call /\ Writing(s, Asked(s))
      BY <1>3, CallUnderWay DEF Write, Inv, Writing
    <2>2. \A t \in Stores \ {s} : ~Writing(t, Asked(s))
      BY <2>1 DEF Inv, OneWriter
    <2>3. QED
      BY <1>3, <2>1, <2>2
         DEF Inv, TypeOK, OneWriter, Write, Proceed, Writing, InStep, Asked, Idle, Call
  <1>4. ASSUME NEW s \in Stores, Register(s) \/ Reject(s) \/ WriteFails(s) \/ Crash(s)
        PROVE  OneWriter'
    BY <1>4 DEF Inv, TypeOK, OneWriter, Register, Reject, WriteFails, Crash, Return,
                Writing, InStep, Asked, Idle, Call
  <1>5. ASSUME NEW c \in Contents, Tamper(c)
        PROVE  OneWriter'
    <2>1. \A s \in Stores, d \in Contents : Writing(s, d)' => Writing(s, d) /\ d # c
      BY <1>5 DEF Inv, TypeOK, Tamper, Writing, InStep, Asked, Idle, Call
    <2>2. \A d \in Contents \ {c} : file'[d] = file[d]
      BY <1>5 DEF Inv, TypeOK, Tamper
    <2>3. QED
      BY <2>1, <2>2 DEF Inv, OneWriter
  <1>6. CASE UNCHANGED vars
    BY <1>6 DEF Inv, OneWriter, Writing, InStep, Asked, vars
  <1>7. QED
    BY <1>1, <1>2, <1>3, <1>4, <1>5, <1>6, StepIsOneOf

\* One step takes bytes that are whole away only by tampering.
LEMMA WholeStaysWhole ==
    ASSUME Inv, [Next]_vars, NEW c \in Contents,
           file[c] = "whole", file'[c] # "whole"
    PROVE  c \in tampered'
  <1>1. ASSUME NEW s \in Stores, Create(s)
        PROVE  FALSE
    BY <1>1, CallUnderWay DEF Inv, TypeOK, Create
  <1>2. ASSUME NEW s \in Stores, Write(s)
        PROVE  FALSE
    BY <1>2, CallUnderWay DEF Inv, TypeOK, Write
  <1>3. ASSUME NEW d \in Contents, Tamper(d)
        PROVE  c \in tampered'
    BY <1>3 DEF Inv, TypeOK, Tamper
  <1>4. CASE UNCHANGED file
    BY <1>4
  <1>5. QED
    BY <1>1, <1>2, <1>3, <1>4, StepIsOneOf
       DEF vars, StoreBytes, Register, Reject, WriteFails, Crash

\* What is newly registered was verified in the same step; what was registered
\* before stays whole.
LEMMA RegisteredPreserved ==
    ASSUME Inv, [Next]_vars
    PROVE  RegisteredIsWhole'
  <1>1. tampered \subseteq tampered'
    BY StepIsOneOf DEF vars, StoreBytes, Create, Write, Register, Reject, WriteFails, Crash,
                       Tamper
  <1>2. SUFFICES ASSUME NEW s \in Stores, NEW c \in known'[s], c \notin tampered'
                 PROVE  file'[c] = "whole"
    BY DEF RegisteredIsWhole
  <1>3. CASE c \in known[s]
    <2>1. file[c] = "whole" /\ c \in Contents
      BY <1>1, <1>2, <1>3 DEF Inv, TypeOK, RegisteredIsWhole
    <2>2. QED
      BY <1>2, <2>1, WholeStaysWhole
  <1>4. CASE c \notin known[s]
    <2>1. PICK t \in Stores : Register(t)
      BY <1>2, <1>4, StepIsOneOf
         DEF Inv, TypeOK, vars, StoreBytes, Create, Write, Reject, WriteFails, Crash, Tamper
    <2>2. c = Asked(t) /\ file[c] = "whole" /\ file' = file
      BY <1>2, <1>4, <2>1 DEF Inv, TypeOK, Register, Verifies
    <2>3. QED
      BY <2>2
  <1>5. QED
    BY <1>3, <1>4

\* The inductive invariant of any number of stores.
LEMMA InvHolds == Spec => []Inv
  <1>1. Inv /\ [Next]_vars => Inv'
    BY TypePreserved, WriterPreserved, RegisteredPreserved DEF Inv
  <1>2. QED
    BY <1>1, InitHolds, PTL DEF Spec

\* What a store has registered is there and right, unless somebody other than
\* a store touched it (store_bytes registers after _verify_file only, and
\* open("xb") never opens what is there).
THEOREM RegisteredStaysWhole == Spec => []RegisteredIsWhole
  <1>1. Inv => RegisteredIsWhole
    BY DEF Inv
  <1>2. QED
    BY <1>1, InvHolds, PTL

\* Bytes that are whole stay whole under every interleaving of stores and any
\* crashes and failed writes (artifacts.py, open("xb")).
THEOREM StoredOnce == Spec => WriteOnce
  <1>1. Inv /\ [Next]_vars =>
            [\A c \in Contents :
                file[c] = "whole" /\ file'[c] # "whole" => c \in tampered']_vars
    BY WholeStaysWhole
  <1>2. QED
    BY <1>1, InvHolds, PTL DEF Spec, WriteOnce
-------------------------------------------------------------------------------
(* The stores implement one map *)

\* No file is an empty map; nobody was asked for anything.
LEMMA MapStarts == Init => Promise!Init
  <1> SUFFICES ASSUME Init PROVE Promise!Init
    OBVIOUS
  <1>1. Whole = {} /\ AskedFor = [s \in Stores |-> {}]
    BY DEF Init, Whole, AskedFor
  <1>2. QED
    BY <1>1 DEF Init, Promise!Init

\* What a store is asked for shows in its call.
LEMMA AskedInCall ==
    ASSUME TypeOK
    PROVE  /\ AskedFor \in [Stores -> SUBSET Contents]
           /\ \A s \in Stores : call[s] = Idle => AskedFor[s] = {}
           /\ \A s \in Stores : call[s] \in Call => AskedFor[s] = {Asked(s)}
  BY DEF TypeOK, AskedFor, Asked, Call, Idle

\* A call that goes on is still about the same content.
LEMMA ProceedAsksTheSame ==
    ASSUME TypeOK, NEW s \in Stores, call[s] \in Call,
           NEW step \in {"create", "write", "verify"}, Proceed(s, step)
    PROVE  AskedFor' = AskedFor
  <1>1. \A t \in Stores : t # s => call'[t] = call[t]
    BY DEF TypeOK, Proceed
  <1>2. call'[s] = [step |-> step, content |-> call[s].content]
    BY DEF TypeOK, Proceed, Asked
  <1>3. call'[s] # Idle /\ call[s] # Idle /\ call'[s].content = call[s].content
    BY <1>2 DEF Idle, Call
  <1>4. \A t \in Stores : (IF call'[t] = Idle THEN {} ELSE {call'[t].content})
                            = (IF call[t] = Idle THEN {} ELSE {call[t].content})
    BY <1>1, <1>3
  <1>5. QED
    BY <1>4 DEF AskedFor, Asked

\* After a call that ended, nothing is asked of its store.
LEMMA ReturnAsksNothing ==
    ASSUME TypeOK, NEW s \in Stores, Return(s)
    PROVE  AskedFor' = [AskedFor EXCEPT ![s] = {}]
  BY DEF TypeOK, Return, AskedFor, Asked

\* Each step of a store is one of the map or leaves the map as it is. The map
\* grows in the step in which the bytes are all there: a write, or the creation
\* of an object that has none.
LEMMA MapKept ==
    ASSUME TypeOK, [Next]_vars
    PROVE  [Promise!Next]_Promise!vars
  <1>1. ASSUME NEW s \in Stores, NEW c \in Contents, StoreBytes(s, c)
        PROVE  Promise!Ask(s, c)
    <2>1. AskedFor' = [AskedFor EXCEPT ![s] = {c}] /\ AskedFor[s] = {}
      BY <1>1 DEF TypeOK, StoreBytes, AskedFor, Asked, Idle
    <2>2. Whole' = Whole
      BY <1>1 DEF StoreBytes, Whole
    <2>3. QED
      BY <1>1, <2>1, <2>2 DEF StoreBytes, Promise!Ask
  <1>2. ASSUME NEW s \in Stores, Create(s) \/ Write(s)
        PROVE  (\E c \in Contents : Promise!Keep(s, c)) \/ UNCHANGED Promise!vars
    <2>1. call[s] \in Call /\ Asked(s) \in Contents
      BY <1>2, CallUnderWay DEF Create, Write
    <2>2. AskedFor' = AskedFor /\ AskedFor[s] = {Asked(s)}
      BY <1>2, <2>1, ProceedAsksTheSame, AskedInCall DEF Create, Write
    <2>3. known' = known /\ tampered' = tampered
      BY <1>2 DEF Create, Write
    <2>4. Whole' = Whole \/ Whole' = Whole \cup {Asked(s)}
      BY <1>2, <2>1 DEF TypeOK, Create, Write, Created, Whole
    <2>5. CASE Whole' = Whole
      BY <2>2, <2>3, <2>5 DEF Promise!vars
    <2>6. CASE Whole' # Whole
      <3>1. Asked(s) \notin Whole /\ Whole' = Whole \cup {Asked(s)}
        BY <2>4, <2>6
      <3>2. Promise!Keep(s, Asked(s))
        BY <2>2, <2>3, <3>1 DEF Promise!Keep
      <3>3. QED
        BY <2>1, <3>2
    <2>7. QED
      BY <2>5, <2>6
  <1>3. ASSUME NEW s \in Stores, Register(s)
        PROVE  \E c \in Contents : Promise!Answer(s, c)
    <2>1. call[s] \in Call /\ Asked(s) \in Contents
      BY <1>3, CallUnderWay DEF Register
    <2>2. AskedFor' = [AskedFor EXCEPT ![s] = {}] /\ AskedFor[s] = {Asked(s)}
      BY <1>3, <2>1, ReturnAsksNothing, AskedInCall DEF Register
    <2>3. Whole' = Whole /\ Asked(s) \in Whole
      BY <1>3, <2>1 DEF Register, Verifies, Whole
    <2>4. Promise!Answer(s, Asked(s))
      BY <1>3, <2>2, <2>3 DEF Register, Promise!Answer
    <2>5. QED
      BY <2>1, <2>4
  <1>4. ASSUME NEW s \in Stores, Reject(s) \/ WriteFails(s)
        PROVE  Promise!Refuse(s)
    <2>1. call[s] \in Call
      BY <1>4, CallUnderWay DEF Reject, WriteFails
    <2>2. AskedFor' = [AskedFor EXCEPT ![s] = {}] /\ AskedFor[s] # {}
      BY <1>4, <2>1, ReturnAsksNothing, AskedInCall DEF Reject, WriteFails
    <2>3. Whole' = Whole /\ known' = known /\ tampered' = tampered
      BY <1>4 DEF Reject, WriteFails, Whole
    <2>4. QED
      BY <2>2, <2>3 DEF Promise!Refuse
  <1>5. ASSUME NEW s \in Stores, Crash(s)
        PROVE  Promise!Reopen(s)
    <2>1. AskedFor' = [AskedFor EXCEPT ![s] = {}]
      BY <1>5, ReturnAsksNothing DEF Crash
    <2>2. Whole' = Whole
      BY <1>5 DEF Crash, Whole
    <2>3. QED
      BY <1>5, <2>1, <2>2 DEF Crash, Promise!Reopen
  <1>6. ASSUME NEW c \in Contents, Tamper(c)
        PROVE  Promise!Spoil(c)
    <2>1. Whole' = Whole \ {c}
      BY <1>6 DEF TypeOK, Tamper, Whole
    <2>2. \A s \in Stores : call'[s] = call[s] \/ (Writing(s, c) /\ call'[s] = [step |-> "verify", content |-> c])
      BY <1>6 DEF Tamper
    <2>3. \A s \in Stores : (IF call'[s] = Idle THEN {} ELSE {call'[s].content})
                              = (IF call[s] = Idle THEN {} ELSE {call[s].content})
      <3>1. SUFFICES ASSUME NEW s \in Stores, Writing(s, c), call'[s] = [step |-> "verify", content |-> c]
                     PROVE  call'[s] # Idle /\ call[s] # Idle /\ call'[s].content = call[s].content
        BY <2>2
      <3>2. call[s].step = "write" /\ call[s].content = c
        BY <3>1 DEF Writing, InStep, Asked
      <3>3. call[s] # Idle /\ call'[s].step = "verify"
        BY <3>1, <3>2 DEF Idle
      <3>4. QED
        BY <3>1, <3>2, <3>3 DEF Idle
    <2>4. AskedFor' = AskedFor
      BY <2>3 DEF AskedFor, Asked
    <2>5. QED
      BY <1>6, <2>1, <2>4 DEF Tamper, Promise!Spoil
  <1>7. CASE UNCHANGED vars
    <2>1. Whole' = Whole /\ AskedFor' = AskedFor
      BY <1>7 DEF vars, Whole, AskedFor, Asked
    <2>2. QED
      BY <1>7, <2>1 DEF vars, Promise!vars
  <1>8. QED
    BY <1>1, <1>2, <1>3, <1>4, <1>5, <1>6, <1>7, StepIsOneOf DEF Promise!Next

\* Every behaviour of any number of stores over one root is one of a single map
\* that is only ever added to (artifacts.py, store_bytes).
THEOREM StoresKeepOneMap == Spec => KeepsOneMap
  <1>1. Inv => TypeOK
    BY DEF Inv
  <1>2. QED
    BY <1>1, InvHolds, MapStarts, MapKept, PTL DEF Spec, KeepsOneMap, Promise!Spec
===============================================================================

--------------------------- MODULE HostCallProofs ---------------------------
(* Theorems about HostCall, for every set of blocks, requests and replies. *)
EXTENDS HostCall, TLAPS

\* What an encoded reply decodes to is an answer.
LEMMA DecodeType ==
    ASSUME NEW reply \in Replies \cup {Nil}
    PROVE  decode(reply) \in Answers
BY DEF decode, Replies, Answers, Value, Failure, codeToError

\* An answer carries the data of a reply that says ok and otherwise fails
\* with the sentinel of its code, if there is one.
LEMMA DecodeIsFaithful ==
    ASSUME NEW reply \in Replies \cup {Nil},
           NEW accepted, accepted = (reply # Nil /\ reply.parses /\ reply.ok)
    PROVE  /\ ~decode(reply).failed <=> accepted
           /\ ~decode(reply).failed => decode(reply).data = reply.data
           /\ \A s \in Sentinels :
                s \in decode(reply).is <=>
                    reply # Nil /\ reply.parses /\ ~reply.ok /\ reply.code = s
<1>1. Nil \notin Replies /\ Nil \notin Sentinels
  BY NilAssumption DEF Messages, Codes
<1>2. CASE reply = Nil
  BY <1>1, <1>2 DEF decode, Failure
<1>3. CASE reply # Nil
  <2>1. reply \in Replies /\ reply.parses \in BOOLEAN /\ reply.ok \in BOOLEAN
    BY <1>3 DEF Replies
  <2>2. CASE ~reply.parses
    BY <1>3, <2>1, <2>2 DEF decode, Failure
  <2>3. CASE reply.parses /\ reply.ok
    BY <1>3, <2>1, <2>3 DEF decode, Value
  <2>4. CASE reply.parses /\ ~reply.ok
    BY <1>1, <1>3, <2>1, <2>4 DEF decode, Failure, codeToError
  <2> QED BY <2>1, <2>2, <2>3, <2>4
<1> QED BY <1>2, <1>3

\* So is what a client makes of it.
LEMMA UnderstoodType ==
    ASSUME NEW reply \in Replies \cup {Nil}
    PROVE  Understood(reply) \in Answers
BY DecodeType DEF Understood, Failure, Answers

\* A client adds one failure, of its own, to those of the reply.
LEMMA UnderstoodIsFaithful ==
    ASSUME NEW reply \in Replies \cup {Nil}
    PROVE  LET heard == reply # Nil /\ reply.parses IN
           /\ ~Understood(reply).failed <=>
                heard /\ reply.ok /\ (Kind[operation] = "typed" => reply.data \in Fitting)
           /\ ~Understood(reply).failed => Understood(reply).data = reply.data
           /\ \A s \in Sentinels :
                s \in Understood(reply).is <=> heard /\ ~reply.ok /\ reply.code = s
<1> DEFINE accepted == reply # Nil /\ reply.parses /\ reply.ok
<1>1. /\ ~decode(reply).failed <=> accepted
      /\ ~decode(reply).failed => decode(reply).data = reply.data
      /\ \A s \in Sentinels :
           s \in decode(reply).is <=>
               reply # Nil /\ reply.parses /\ ~reply.ok /\ reply.code = s
  BY DecodeIsFaithful
<1>2. CASE Kind[operation] = "typed" /\ ~decode(reply).failed /\ decode(reply).data \notin Fitting
  BY <1>1, <1>2 DEF Understood, Failure
<1>3. CASE ~(Kind[operation] = "typed" /\ ~decode(reply).failed /\ decode(reply).data \notin Fitting)
  BY <1>1, <1>3 DEF Understood
<1> QED BY <1>2, <1>3

LEMMA Initially == Init => IInv
<1> SUFFICES ASSUME Init PROVE IInv
  OBVIOUS
<1>1. TypeOK
  BY DEF Init, TypeOK, Operations, Kind
<1>2. NothingLeaks /\ InputHeld /\ OutputHeld /\ ServedRequest /\ AnswerIsTheHosts
  BY DEF Init, NothingLeaks, Free, InputHeld, Waiting, OutputHeld, ServedRequest, Answered,
         AnswerIsTheHosts
<1> QED BY <1>1, <1>2 DEF IInv

LEMMA StartStep ==
    ASSUME NEW name \in Operations, NEW encodings \in SUBSET (Requests \cup {Nil}),
           IInv, Start(name, encodings)
    PROVE  IInv'
<1> USE DEF IInv, Start
<1>1. TypeOK'
  BY DEF TypeOK
<1>2. NothingLeaks' /\ InputHeld' /\ OutputHeld' /\ ServedRequest' /\ AnswerIsTheHosts'
  BY DEF NothingLeaks, Free, InputHeld, Waiting, OutputHeld, ServedRequest, Answered,
         AnswerIsTheHosts
<1> QED BY <1>1, <1>2

LEMMA ClientStep == IInv /\ Client => IInv'
<1> SUFFICES ASSUME IInv, Client PROVE IInv'
  OBVIOUS
<1>1. PICK name \in Operations, encodings \in SUBSET (Requests \cup {Nil}) : Start(name, encodings)
  BY DEF Client, ReadSecret, GenerateDownloadUrl, Execute, QueryRecords, httpDo, PostJSON,
         GetToken, InvokeMethod, emitLog, Operations, Kind
<1> QED BY <1>1, StartStep

LEMMA NotSentStep == IInv /\ NotSent => IInv'
<1> SUFFICES ASSUME IInv, NotSent PROVE IInv'
  OBVIOUS
<1> USE DEF IInv, NotSent, call
<1>0. Failure({}) \in Answers
  BY DEF Failure, Answers
<1>1. TypeOK'
  BY <1>0 DEF TypeOK, Give
<1>2. NothingLeaks' /\ InputHeld' /\ OutputHeld' /\ ServedRequest'
  BY DEF NothingLeaks, Free, Give, InputHeld, Waiting, OutputHeld, ServedRequest, Answered
<1>3. AnswerIsTheHosts'
  <2>1. served' = Nil
    BY DEF ServedRequest
  <2>2. operation' # "log" => answer' = Failure({})
    BY DEF Give, TypeOK, Operations, Kind
  <2> QED BY <2>1, <2>2 DEF AnswerIsTheHosts, Failure
<1> QED BY <1>1, <1>2, <1>3

LEMMA AllocateStep == IInv /\ Allocate => IInv'
<1> SUFFICES ASSUME IInv, Allocate PROVE IInv'
  OBVIOUS
<1> USE DEF IInv, Allocate, call
<1>1. PICK block \in Blocks : Free(block) /\ in' = block /\ memory' = [memory EXCEPT ![block] = request]
  OBVIOUS
<1>2. TypeOK'
  BY <1>1 DEF TypeOK, Messages
<1>3. InputHeld'
  BY <1>1 DEF TypeOK, InputHeld, Waiting
<1>4. NothingLeaks' /\ OutputHeld'
  BY <1>1 DEF TypeOK, NothingLeaks, Free, OutputHeld
<1>5. ServedRequest' /\ AnswerIsTheHosts'
  BY DEF ServedRequest, Answered, AnswerIsTheHosts
<1> QED BY <1>2, <1>3, <1>4, <1>5

LEMMA HostRepliesStep == IInv /\ HostReplies => IInv'
<1> SUFFICES ASSUME IInv, HostReplies PROVE IInv'
  OBVIOUS
<1> USE DEF IInv, call
<1>1. pc = "calling" /\ pc' = "replied" /\ UNCHANGED <<wired, operation, request, in, bytes, answer>>
  BY DEF HostReplies
<1>2. in \in Blocks /\ request \in Requests /\ memory[in] = request /\ out = Nil
  BY <1>1 DEF InputHeld, Waiting, OutputHeld
<1>3. request # Nil /\ Nil \notin Blocks
  BY <1>2, NilAssumption DEF Messages
<1>4. AnswerIsTheHosts'
  BY <1>1 DEF AnswerIsTheHosts
<1>5. CASE \E block \in Blocks, reply \in Replies :
            /\ Free(block)
            /\ out' = block
            /\ memory' = [memory EXCEPT ![block] = reply]
            /\ served' = [request |-> memory[in], reply |-> reply]
  <2>1. PICK block \in Blocks, reply \in Replies :
            /\ Free(block)
            /\ out' = block
            /\ memory' = [memory EXCEPT ![block] = reply]
            /\ served' = [request |-> memory[in], reply |-> reply]
    BY <1>5
  <2>2. block # in /\ block # Nil
    BY <1>2, <1>3, <2>1 DEF Free
  <2>3. memory'[block] = reply /\ memory'[in] = request
    BY <1>2, <2>1, <2>2 DEF TypeOK
  <2>4. TypeOK'
    BY <1>1, <1>2, <2>1 DEF TypeOK, Messages, Services
  <2>5. NothingLeaks'
    <3>1. ASSUME NEW b \in Blocks, memory'[b] # Nil PROVE b = in' \/ b = out'
      BY <1>1, <1>2, <1>3, <2>1, <3>1 DEF TypeOK, NothingLeaks, Free
    <3> QED BY <1>1, <3>1 DEF NothingLeaks, Free
  <2>6. InputHeld' /\ OutputHeld'
    BY <1>1, <1>2, <2>1, <2>2, <2>3 DEF InputHeld, Waiting, OutputHeld
  <2>7. ServedRequest'
    BY <1>1, <1>2, <2>1 DEF ServedRequest, Answered, Services
  <2> QED BY <1>4, <2>4, <2>5, <2>6, <2>7
<1>6. CASE /\ out' = Nil
           /\ served' = [request |-> memory[in], reply |-> Nil]
           /\ UNCHANGED memory
  <2>1. TypeOK'
    BY <1>1, <1>2, <1>6 DEF TypeOK, Services
  <2>2. NothingLeaks'
    BY <1>1, <1>2, <1>6 DEF NothingLeaks, Free
  <2>3. InputHeld' /\ OutputHeld'
    BY <1>1, <1>2, <1>6 DEF InputHeld, Waiting, OutputHeld
  <2>4. ServedRequest'
    BY <1>1, <1>2, <1>6 DEF ServedRequest, Answered, Services
  <2> QED BY <1>4, <2>1, <2>2, <2>3, <2>4
<1> QED BY <1>5, <1>6 DEF HostReplies

LEMMA HostTrapsStep == IInv /\ HostTraps => IInv'
<1> SUFFICES ASSUME IInv, HostTraps PROVE IInv'
  OBVIOUS
<1> USE DEF IInv, HostTraps, call
<1>1. TypeOK'
  BY DEF TypeOK
<1>2. NothingLeaks' /\ InputHeld' /\ OutputHeld' /\ ServedRequest' /\ AnswerIsTheHosts'
  BY DEF NothingLeaks, Free, InputHeld, Waiting, OutputHeld, ServedRequest, Answered,
         AnswerIsTheHosts
<1> QED BY <1>1, <1>2

LEMMA ReadStep == IInv /\ Read => IInv'
<1> SUFFICES ASSUME IInv, Read PROVE IInv'
  OBVIOUS
<1> USE DEF IInv, Read, call
<1>1. bytes' = served.reply /\ served \in Services
  BY DEF OutputHeld, ServedRequest, Answered
<1>2. TypeOK'
  BY <1>1 DEF TypeOK, Services
<1>3. NothingLeaks' /\ InputHeld' /\ OutputHeld' /\ AnswerIsTheHosts'
  BY DEF NothingLeaks, Free, InputHeld, Waiting, OutputHeld, AnswerIsTheHosts
<1>4. ServedRequest'
  BY <1>1 DEF ServedRequest, Answered
<1> QED BY <1>2, <1>3, <1>4

LEMMA FreeOutStep == IInv /\ FreeOut => IInv'
<1> SUFFICES ASSUME IInv, FreeOut PROVE IInv'
  OBVIOUS
<1> USE DEF IInv, FreeOut, call
<1>1. in \in Blocks /\ request \in Requests /\ memory[in] = request /\ in # out
  BY NilAssumption DEF InputHeld, Waiting, OutputHeld
<1>2. memory'[in] = request
  BY <1>1
<1>3. TypeOK'
  BY DEF TypeOK
<1>4. NothingLeaks'
  BY <1>1 DEF NothingLeaks, Free
<1>5. InputHeld' /\ OutputHeld' /\ AnswerIsTheHosts'
  BY <1>1, <1>2 DEF InputHeld, Waiting, OutputHeld, AnswerIsTheHosts
<1>6. ServedRequest'
  BY DEF ServedRequest, Answered
<1> QED BY <1>3, <1>4, <1>5, <1>6

LEMMA FreeInStep == IInv /\ FreeIn => IInv'
<1> SUFFICES ASSUME IInv, FreeIn PROVE IInv'
  OBVIOUS
<1> USE DEF IInv, FreeIn, call
<1>1. served \in Services /\ served.request = request /\ bytes = served.reply
  BY DEF ServedRequest, Answered
<1>2. served.reply \in Replies \cup {Nil}
  BY <1>1 DEF Services
<1>3. out = Nil /\ in \in Blocks
  BY DEF OutputHeld, InputHeld, Waiting
<1>4. Understood(bytes) \in Answers
  BY <1>1, <1>2, UnderstoodType
<1>5. TypeOK'
  BY <1>4 DEF TypeOK, Give
<1>6. NothingLeaks'
  BY <1>3 DEF TypeOK, NothingLeaks, Free, Give
<1>7. InputHeld' /\ OutputHeld' /\ ServedRequest'
  BY <1>3 DEF InputHeld, Waiting, OutputHeld, ServedRequest, Answered, Give
<1>8. AnswerIsTheHosts'
  <2>1. served # Nil
    BY <1>1, NilAssumption DEF TypeOK, Services
  <2>2. SUFFICES ASSUME operation # "log"
                 PROVE  AnswerIsTheHosts'
    BY DEF AnswerIsTheHosts
  <2>3. answer' = Understood(bytes) /\ served' = served /\ request' = request
        /\ operation' = operation
    BY <2>2 DEF Give, TypeOK, Operations, Kind
  <2>4. LET said == served.reply
            heard == said # Nil /\ said.parses IN
        /\ ~answer'.failed <=>
             heard /\ said.ok /\ (Kind[operation] = "typed" => said.data \in Fitting)
        /\ ~answer'.failed => answer'.data = said.data
        /\ \A s \in Sentinels :
             s \in answer'.is <=> heard /\ ~said.ok /\ said.code = s
    BY <1>1, <1>2, <2>3, UnderstoodIsFaithful
  <2> QED BY <1>1, <2>1, <2>3, <2>4 DEF AnswerIsTheHosts
<1> QED BY <1>5, <1>6, <1>7, <1>8

LEMMA StutterStep == IInv /\ UNCHANGED vars => IInv'
<1> SUFFICES ASSUME IInv, UNCHANGED vars PROVE IInv'
  OBVIOUS
<1> USE DEF IInv, vars, call
<1>1. TypeOK'
  BY DEF TypeOK
<1>2. NothingLeaks' /\ InputHeld' /\ OutputHeld' /\ ServedRequest' /\ AnswerIsTheHosts'
  BY DEF NothingLeaks, Free, InputHeld, Waiting, OutputHeld, ServedRequest, Answered,
         AnswerIsTheHosts
<1> QED BY <1>1, <1>2

LEMMA Step == IInv /\ [Next]_vars => IInv'
BY ClientStep, NotSentStep, AllocateStep, HostRepliesStep, HostTrapsStep, ReadStep,
   FreeOutStep, FreeInStep, StutterStep DEF Next

\* The two blocks of a call hold its request and the host's reply for as long
\* as they are in use, and what is read is what the host wrote
\* (transport_wasip1.go:71-78).
THEOREM Invariant == Spec => []IInv
BY Initially, Step, PTL DEF Spec

\* Every variable of a host call keeps its type (transport_wasip1.go:71-78).
THEOREM TypeCorrect == Spec => []TypeOK
<1>1. IInv => TypeOK
  BY DEF IInv
<1> QED BY Invariant, <1>1, PTL

\* No block outlives its call, whatever the host answers
\* (transport_wasip1.go:66-78).
THEOREM NoLeak == Spec => []NothingLeaks
<1>1. IInv => NothingLeaks
  BY DEF IInv
<1> QED BY Invariant, <1>1, PTL

\* A caller is told what the host said about its request, and no error it was
\* not told matches a sentinel (envelope.go:25-47, errors.go:22-42).
THEOREM Faithful == Spec => []AnswerIsTheHosts
<1>1. IInv => AnswerIsTheHosts
  BY DEF IInv
<1> QED BY Invariant, <1>1, PTL

\* A call starts with all of memory free, however many came before it and
\* whatever they ended in: it cannot fail to find a block
\* (transport_wasip1.go:66-78).
THEOREM FindsMemory == Spec => [](pc = "started" => \A b \in Blocks : Free(b))
<1>1. IInv /\ pc = "started" => \A b \in Blocks : Free(b)
  BY NilAssumption DEF IInv, NothingLeaks
<1> QED BY Invariant, <1>1, PTL
=============================================================================

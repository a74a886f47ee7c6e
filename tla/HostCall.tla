------------------------------ MODULE HostCall ------------------------------
(***************************************************************************)
(* A guest's calls into the host: call and callDecode (fn/transport.go,    *)
(* fn/envelope.go), wasipCall (fn/transport_wasip1.go) and the clients     *)
(* that make one call each (fn/secrets.go, storage.go, query.go, http.go,  *)
(* connections.go, log.go).                                                *)
(*                                                                         *)
(* A request crosses in a block of guest memory and the reply comes back   *)
(* in another, which the host allocates.  Both are freed by deferred       *)
(* calls, output first.  The memory and the host are external: memory is a *)
(* set of blocks, each free or holding one message, and the host may say   *)
(* anything, answer with no block at all, or end the instance.             *)
(***************************************************************************)
CONSTANTS
    Blocks,       \* blocks of guest memory
    Requests,     \* encoded requests
    Payloads,     \* data a reply may carry
    Fitting,      \* the data that decode into what a client returns
    OtherCodes,   \* error codes the guest does not know
    Nil           \* no block, no message, no data, no code

\* The codes with a sentinel error of their own.
Sentinels == {"not_found", "permission_denied", "bad_input", "conflict", "internal"}
Codes == Sentinels \cup OtherCodes

\* The bytes of a reply: whether they parse as an envelope, its ok flag, its
\* data and the code of its err, if any.
Replies == [parses: BOOLEAN, ok: BOOLEAN, data: Payloads \cup {Nil},
            code: Codes \cup {Nil}]

\* What a caller gets: the data, or an error and the sentinels it wraps.
Answers == [failed: BOOLEAN, data: Payloads \cup {Nil}, is: SUBSET Sentinels]

Messages == Requests \cup Replies

\* What the host saw of a call and what it replied, Nil for no block.
Services == [request: Requests, reply: Replies \cup {Nil}]

\* What a client makes of the data: decodes it, hands it on as it is, or
\* reports nothing.
Kind == [secretsRead |-> "typed", storageGenerateDownloadUrl |-> "typed",
         queryExecute |-> "typed", queryRecords |-> "typed", httpRequest |-> "typed",
         httpPostJSON |-> "typed", connectionsGetToken |-> "typed",
         connectionsInvokeMethod |-> "raw", log |-> "log"]
Operations == DOMAIN Kind

ASSUME NilAssumption ==
    Nil \notin Blocks \cup Messages \cup Payloads \cup Codes \cup Answers \cup Services
ASSUME FittingAssumption == Fitting \subseteq Payloads

VARIABLES
    wired,        \* the transport table has been filled by this build's init
    memory,       \* what each block holds, Nil when it is free
    pc,           \* where the call under way is
    operation,    \* its operation
    request,      \* its encoded request
    in, out,      \* its two blocks
    bytes,        \* the reply as read
    answer,       \* what the caller was given
    served        \* history: the request the host saw and what it replied

call == <<operation, request>>
vars == <<wired, memory, pc, call, in, out, bytes, answer, served>>

Free(block) == memory[block] = Nil

Init ==
    /\ wired \in BOOLEAN
    /\ memory = [b \in Blocks |-> Nil]
    /\ pc = "idle"
    /\ operation = "log"
    /\ request = Nil
    /\ in = Nil /\ out = Nil
    /\ bytes = Nil
    /\ answer = Nil
    /\ served = Nil

-----------------------------------------------------------------------------
(* The reply envelope.                                                     *)

Value(data) == [failed |-> FALSE, data |-> data, is |-> {}]
Failure(sentinels) == [failed |-> TRUE, data |-> Nil, is |-> sentinels]

\* Faulty variant: any code is taken for a sentinel's.
CodeToErrorVerbatim(code) == Failure({code})

\* An unknown code is an error that no sentinel matches.
codeToError(code) == Failure({code} \cap Sentinels)

\* Faulty variant: data counts even when the host refused.
DecodeByData(reply) ==
    IF reply = Nil THEN Failure({})
    ELSE IF ~reply.parses THEN Failure({})
    ELSE IF reply.ok \/ reply.data # Nil THEN Value(reply.data)
    ELSE IF reply.code = Nil THEN Failure({})
    ELSE codeToError(reply.code)

\* No bytes at all do not parse either.
decode(reply) ==
    IF reply = Nil THEN Failure({})
    ELSE IF ~reply.parses THEN Failure({})
    ELSE IF reply.ok THEN Value(reply.data)
    ELSE IF reply.code = Nil THEN Failure({})
    ELSE codeToError(reply.code)

\* Faulty variant: data that do not decode are handed over half decoded.
UnderstoodAnyhow(reply) == decode(reply)

\* Data that are missing or do not decode are an error of the client's own.
Understood(reply) ==
    IF Kind[operation] = "typed" /\ ~decode(reply).failed /\ decode(reply).data \notin Fitting
    THEN Failure({})
    ELSE decode(reply)

-----------------------------------------------------------------------------
(* The clients.  Nil is a request that does not encode: some take a value  *)
(* of the author's to encode, the others strings only.                     *)

Start(name, encodings) ==
    /\ pc \in {"idle", "returned"}
    /\ operation' = name
    /\ request' \in encodings
    /\ pc' = "started"
    /\ bytes' = Nil /\ answer' = Nil /\ served' = Nil
    /\ UNCHANGED <<wired, memory, in, out>>

ReadSecret == Start("secretsRead", Requests)
GenerateDownloadUrl == Start("storageGenerateDownloadUrl", Requests)
Execute == Start("queryExecute", Requests)
\* One row that does not decode fails them all.
QueryRecords == Start("queryRecords", Requests)
httpDo == Start("httpRequest", Requests)
PostJSON == Start("httpPostJSON", Requests \cup {Nil})
GetToken == Start("connectionsGetToken", Requests)
InvokeMethod == Start("connectionsInvokeMethod", Requests \cup {Nil})
emitLog == Start("log", Requests \cup {Nil})

Client ==
    \/ ReadSecret \/ GenerateDownloadUrl \/ Execute \/ QueryRecords \/ httpDo
    \/ PostJSON \/ GetToken \/ InvokeMethod \/ emitLog

-----------------------------------------------------------------------------
(* The call.                                                               *)

\* The client returns this; a log line gives nothing, whatever happened.
Give(outcome) ==
    /\ answer' = IF Kind[operation] = "log" THEN Nil ELSE outcome
    /\ pc' = "returned"

\* The request does not encode, or no transport is wired in: the host is not
\* reached.
NotSent ==
    /\ pc = "started"
    /\ request = Nil \/ ~wired
    /\ Give(Failure({}))
    /\ UNCHANGED <<wired, memory, call, in, out, bytes, served>>

\* pdk.AllocateBytes(in)
Allocate ==
    /\ pc = "started"
    /\ request # Nil /\ wired
    /\ \E block \in Blocks :
         /\ Free(block)
         /\ in' = block
         /\ memory' = [memory EXCEPT ![block] = request]
    /\ pc' = "calling"
    /\ UNCHANGED <<wired, call, out, bytes, answer, served>>

\* The host reads the request, does what it does and replies in a block of
\* its choosing, or in none.
HostReplies ==
    /\ pc = "calling"
    /\ \/ \E block \in Blocks, reply \in Replies :
            /\ Free(block)
            /\ out' = block
            /\ memory' = [memory EXCEPT ![block] = reply]
            /\ served' = [request |-> memory[in], reply |-> reply]
       \/ /\ out' = Nil
          /\ served' = [request |-> memory[in], reply |-> Nil]
          /\ UNCHANGED memory
    /\ pc' = "replied"
    /\ UNCHANGED <<wired, call, in, bytes, answer>>

\* The host ends the instance instead.
HostTraps ==
    /\ pc = "calling"
    /\ pc' = "trapped"
    /\ UNCHANGED <<wired, memory, call, in, out, bytes, answer, served>>

\* Faulty variant: the output block is freed at once, and what is read from
\* it is whatever its memory now holds.
ReadFreed ==
    /\ pc = "replied"
    /\ IF out = Nil THEN bytes' = Nil ELSE bytes' \in Replies
    /\ pc' = "read"
    /\ UNCHANGED <<wired, memory, call, in, out, answer, served>>

\* pdk.FindMemory and out.ReadBytes(), which copies the bytes.
Read ==
    /\ pc = "replied"
    /\ bytes' = IF out = Nil THEN Nil ELSE memory[out]
    /\ pc' = "read"
    /\ UNCHANGED <<wired, memory, call, in, out, answer, served>>

\* Faulty variant: only the input block is freed.
FreeOutNot ==
    /\ pc = "read"
    /\ out' = Nil
    /\ pc' = "freed_out"
    /\ UNCHANGED <<wired, memory, call, in, bytes, answer, served>>

\* The deferred out.Free().
FreeOut ==
    /\ pc = "read"
    /\ memory' = [b \in Blocks |-> IF b = out THEN Nil ELSE memory[b]]
    /\ out' = Nil
    /\ pc' = "freed_out"
    /\ UNCHANGED <<wired, call, in, bytes, answer, served>>

\* Faulty variant: only the output block is freed.
FreeInNot ==
    /\ pc = "freed_out"
    /\ in' = Nil
    /\ Give(Understood(bytes))
    /\ UNCHANGED <<wired, memory, call, out, bytes, served>>

\* The deferred mem.Free(), with which wasipCall returns; the client decodes.
FreeIn ==
    /\ pc = "freed_out"
    /\ memory' = [memory EXCEPT ![in] = Nil]
    /\ in' = Nil
    /\ Give(Understood(bytes))
    /\ UNCHANGED <<wired, call, out, bytes, served>>

Next ==
    \/ Client \/ NotSent \/ Allocate \/ HostReplies \/ HostTraps
    \/ Read \/ FreeOut \/ FreeIn

Spec == Init /\ [][Next]_vars

\* Go code runs on to its next host call or its end; nothing is assumed of the
\* host, nor that a guest makes another call.
GuestStep == NotSent \/ Allocate \/ Read \/ FreeOut \/ FreeIn
FairSpec == Spec /\ WF_vars(GuestStep)

-----------------------------------------------------------------------------
(* Properties.                                                             *)

\* Every variable holds a value of its type.
TypeOK ==
    /\ wired \in BOOLEAN
    /\ memory \in [Blocks -> Messages \cup {Nil}]
    /\ pc \in {"idle", "started", "calling", "replied", "read", "freed_out",
               "returned", "trapped"}
    /\ operation \in Operations
    /\ request \in Requests \cup {Nil}
    /\ in \in Blocks \cup {Nil}
    /\ out \in Blocks \cup {Nil}
    /\ bytes \in Replies \cup {Nil}
    /\ answer \in Answers \cup {Nil}
    /\ served \in Services \cup {Nil}

\* However many calls a guest makes and whatever they end in, the blocks in
\* use are those of the call under way: none between calls, so a guest never
\* runs out of memory by calling (transport_wasip1.go:66-78).
NothingLeaks ==
    /\ \A b \in Blocks : ~Free(b) => b = in \/ b = out
    /\ pc \in {"idle", "started", "returned"} => in = Nil /\ out = Nil

\* The caller is given what the host said about this very request: its data
\* if and only if the host said ok and the client understands the data,
\* otherwise an error that is exactly the sentinel of the host's code; and an
\* error the host had no part in matches no sentinel (envelope.go:22-25;
\* errors.go:8-11, 19-22; secrets.go:14-15).
AnswerIsTheHosts ==
    pc = "returned" /\ operation # "log" =>
        IF served = Nil THEN answer.failed /\ answer.is = {}
        ELSE LET said == served.reply
                 heard == said # Nil /\ said.parses IN
             /\ served.request = request
             /\ ~answer.failed <=>
                  heard /\ said.ok /\ (Kind[operation] = "typed" => said.data \in Fitting)
             /\ ~answer.failed => answer.data = said.data
             /\ \A s \in Sentinels : s \in answer.is <=> heard /\ ~said.ok /\ said.code = s

\* However many calls came before, a call finds the memory to reach the host,
\* or returns without it, and one the host has replied to returns
\* (transport_wasip1.go:66-78).
EveryCallGetsThrough ==
    /\ pc = "started" ~> pc \in {"calling", "returned"}
    /\ pc = "replied" ~> pc = "returned"

-----------------------------------------------------------------------------
(* The inductive invariant behind the two properties.                      *)

Waiting == pc \in {"idle", "started", "returned"}
Answered == pc \in {"replied", "read", "freed_out"}

\* The input block holds the request from its allocation to its release.
InputHeld ==
    IF Waiting THEN in = Nil
    ELSE in \in Blocks /\ request \in Requests /\ memory[in] = request

\* The output block is another one and holds the reply until it is freed.
OutputHeld ==
    IF pc \in {"replied", "read"}
    THEN IF out = Nil THEN served.reply = Nil
         ELSE out # in /\ served.reply \in Replies /\ memory[out] = served.reply
    ELSE out = Nil

\* The host has served this request once it has answered, and not before;
\* what was read is what it replied.
ServedRequest ==
    /\ pc \in {"idle", "started", "calling", "trapped"} => served = Nil
    /\ Answered => served \in Services /\ served.request = request
    /\ pc \in {"read", "freed_out"} => bytes = served.reply

\* The inductive invariant of the proofs.
IInv == TypeOK /\ NothingLeaks /\ InputHeld /\ OutputHeld /\ ServedRequest /\ AnswerIsTheHosts
=============================================================================

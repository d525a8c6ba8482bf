----------------------------- MODULE RpcClient -----------------------------
(***************************************************************************)
(* Asking the external consensus: ecconnector/ecrpcclient.go, called by    *)
(* the verification of headers (consensus/ecpon/ecponbada.go) and by the   *)
(* connector's loop.                                                       *)
(*                                                                         *)
(* All callers share one RpcClient without a lock.  A call stores its      *)
(* block's number and hash in the client, marshals its request from what   *)
(* the client then holds, and a verification finally looks at, or leaves   *)
(* behind, the last successful request.  Every access to a shared field is *)
(* an action of its own.                                                   *)
(*                                                                         *)
(* A header is its hash.  A request is the record that is marshaled; the   *)
(* same record gives the same JSON and different records different ones.   *)
(***************************************************************************)
EXTENDS Naturals

CONSTANTS
    Callers,    \* goroutines that use the client
    Headers,    \* headers, each standing for its hash
    NumberOf,   \* the number of each header
    ProofOf,    \* the block proof in the extra data of each header...
    Decodable,  \* ... of those whose extra data can be decoded
    MaxCalls,   \* bound: calls of one goroutine
    Nil         \* nil, and the zero value of a string or a proof

ASSUME HeadersAssumption ==
    /\ NumberOf \in [Headers -> Nat]
    /\ Decodable \subseteq Headers
    /\ MaxCalls \in Nat

VARIABLES
    blockno,   \* RpcClient.blockno
    bhash,     \* RpcClient.bhash
    cachesvs,  \* RpcClient.cachesvs
    pc,        \* where each goroutine is in its call
    path,      \* the path it posts to
    header,    \* the header it calls for
    request,   \* what it marshaled
    reply,     \* how its latest call ended
    calls,     \* how many calls it made
    agreed,    \* what the external consensus answered with success (history)
    alone      \* goroutines whose latest call overlapped with no other (history)

clientVars == <<blockno, bhash, cachesvs>>
rpcVars == <<clientVars, pc, path, header, request, reply, calls, agreed, alone>>

Proofs == {ProofOf[h] : h \in Headers}

\* BlockParam, the request of SendNewHead and of SendVerifySeal.
BlockParam == [blockno : Nat, bhash : Headers \cup {Nil}, bproof : Proofs \cup {Nil}]
NoParam    == [blockno |-> 0, bhash |-> Nil, bproof |-> Nil]

\* The request that is about h and nothing else.
ParamOf(h) == [blockno |-> NumberOf[h], bhash |-> h, bproof |-> ProofOf[h]]

\* cacheSendVerifySeal: the caller's number and hash, and the marshaled request.
CacheEntry == [blkno : Nat, bhash : Headers, bproof : BlockParam]

ASSUME NoneAssumption == Nil \notin Headers \cup Proofs \cup CacheEntry

Paths == {"newhead", "verifyseal"}
Pcs == {"idle", "setNumber", "setHash", "getNumber", "getHash", "cacheNumber",
        "cacheHash", "cacheProof", "post", "accepted", "rejected", "store"}

ClientType ==
    /\ blockno \in Nat
    /\ bhash \in Headers \cup {Nil}
    /\ cachesvs \in CacheEntry \cup {Nil}
    /\ pc \in [Callers -> Pcs]
    /\ path \in [Callers -> Paths]
    /\ header \in [Callers -> Headers \cup {Nil}]
    /\ request \in [Callers -> BlockParam]
    /\ reply \in [Callers -> {"none", "ok", "error"}]
    /\ calls \in [Callers -> 0 .. MaxCalls]
    /\ agreed \subseteq Paths \X BlockParam
    /\ alone \subseteq Callers

\* NewRpcClient.
ClientInit ==
    /\ blockno = 0 /\ bhash = Nil /\ cachesvs = Nil
    /\ pc = [c \in Callers |-> "idle"]
    /\ path = [c \in Callers |-> "newhead"]
    /\ header = [c \in Callers |-> Nil]
    /\ request = [c \in Callers |-> NoParam]
    /\ reply = [c \in Callers |-> "none"]
    /\ calls = [c \in Callers |-> 0]
    /\ agreed = {}
    /\ alone = Callers

-----------------------------------------------------------------------------

\* A step of c inside a call: from one place to another, the call is the same.
Move(c, from, to) ==
    /\ pc[c] = from
    /\ pc' = [pc EXCEPT ![c] = to]
    /\ UNCHANGED <<path, header, reply, calls, alone>>

Return(c, from, how) ==
    /\ pc[c] \in from
    /\ pc' = [pc EXCEPT ![c] = "idle"]
    /\ reply' = [reply EXCEPT ![c] = how]
    /\ UNCHANGED <<path, header, calls, alone>>

Call(c, h, p) ==
    /\ pc[c] = "idle"
    /\ calls[c] < MaxCalls
    /\ calls' = [calls EXCEPT ![c] = @ + 1]
    /\ path' = [path EXCEPT ![c] = p]
    /\ header' = [header EXCEPT ![c] = h]
    /\ request' = [request EXCEPT ![c] = NoParam]
    /\ alone' = IF \A d \in Callers : pc[d] = "idle"
                THEN alone \cup {c}
                ELSE {d \in alone \ {c} : pc[d] = "idle"}
    /\ UNCHANGED <<clientVars, agreed>>

\* verifyHeader up to the remote call: a header of the future and one whose
\* extra data cannot be decoded are refused, the genesis header is fine.
VerifyHeader(c, h) ==
    /\ Call(c, h, "verifyseal")
    /\ \/ /\ pc' = [pc EXCEPT ![c] = "idle"]
          /\ reply' = [reply EXCEPT ![c] = "error"]
       \/ /\ NumberOf[h] = 0
          /\ pc' = [pc EXCEPT ![c] = "idle"]
          /\ reply' = [reply EXCEPT ![c] = "ok"]
       \/ /\ NumberOf[h] # 0
          /\ h \in Decodable
          /\ pc' = [pc EXCEPT ![c] = "setNumber"]
          /\ reply' = [reply EXCEPT ![c] = "none"]

\* SendNewHead for a head whose extra data was decoded.
SendNewHead(c, h) ==
    /\ h \in Decodable
    /\ Call(c, h, "newhead")
    /\ pc' = [pc EXCEPT ![c] = "setNumber"]
    /\ reply' = [reply EXCEPT ![c] = "none"]

\* Mutant of SetNumber: fields that seem to be set already are left alone.
SetNumberOnce(c) ==
    /\ pc[c] = "setNumber"
    /\ IF blockno = NumberOf[header[c]]
       THEN Move(c, "setNumber", "getNumber")
       ELSE Move(c, "setNumber", "setHash")
    /\ blockno' = NumberOf[header[c]]
    /\ UNCHANGED <<bhash, cachesvs, request, agreed>>

SetNumber(c) ==
    /\ Move(c, "setNumber", "setHash")
    /\ blockno' = NumberOf[header[c]]
    /\ UNCHANGED <<bhash, cachesvs, request, agreed>>

SetHash(c) ==
    /\ Move(c, "setHash", "getNumber")
    /\ bhash' = header[c]
    /\ UNCHANGED <<blockno, cachesvs, request, agreed>>

GetNumber(c) ==
    /\ Move(c, "getNumber", "getHash")
    /\ request' = [request EXCEPT ![c].blockno = blockno]
    /\ UNCHANGED <<clientVars, agreed>>

\* The proof is the caller's own.  Only a verification looks at the cache.
GetHash(c) ==
    /\ Move(c, "getHash", IF path[c] = "verifyseal" THEN "cacheNumber" ELSE "post")
    /\ request' = [request EXCEPT ![c].bhash = bhash, ![c].bproof = ProofOf[header[c]]]
    /\ UNCHANGED <<clientVars, agreed>>

\* The three comparisons read the cache one after the other; it never turns
\* nil again.
CacheNumber(c) ==
    /\ Move(c, "cacheNumber",
            IF cachesvs # Nil /\ cachesvs.blkno = NumberOf[header[c]]
            THEN "cacheHash" ELSE "post")
    /\ UNCHANGED <<clientVars, request, agreed>>

CacheHash(c) ==
    /\ Move(c, "cacheHash",
            IF cachesvs.bhash = header[c] THEN "cacheProof" ELSE "post")
    /\ UNCHANGED <<clientVars, request, agreed>>

\* bytes.Equal of the two marshaled requests.
CacheProof(c) ==
    /\ pc[c] = "cacheProof"
    /\ IF cachesvs.bproof = request[c]
       THEN Return(c, {"cacheProof"}, "ok")
       ELSE Move(c, "cacheProof", "post")
    /\ UNCHANGED <<clientVars, request, agreed>>

-----------------------------------------------------------------------------
(* The POST, and the external consensus (external)                         *)

\* The external consensus receives the request and takes its decision.
EcAccepts(c) ==
    /\ Move(c, "post", "accepted")
    /\ agreed' = agreed \cup {<<path[c], request[c]>>}
    /\ UNCHANGED <<clientVars, request>>

EcRejects(c) ==
    /\ Move(c, "post", "rejected")
    /\ UNCHANGED <<clientVars, request, agreed>>

\* The answer arrives: a verification keeps the request, see Store.
Answered(c) ==
    /\ \/ path[c] = "verifyseal" /\ Move(c, "accepted", "store")
       \/ path[c] = "newhead" /\ Return(c, {"accepted"}, "ok")
       \/ Return(c, {"rejected"}, "error")
    /\ UNCHANGED <<clientVars, request, agreed>>

\* Mutant of Unanswered: the http.Client without its Timeout.
Refused(c) ==
    /\ Return(c, {"accepted", "rejected"}, "error")
    /\ UNCHANGED <<clientVars, request, agreed>>

\* No answer within the client's Timeout, or no connection: the external
\* consensus may or may not have received the request.
Unanswered(c) ==
    /\ Return(c, {"post", "accepted", "rejected"}, "error")
    /\ UNCHANGED <<clientVars, request, agreed>>

\* Mutant of Store: what the client now holds is remembered.
StoreShared(c) ==
    /\ Return(c, {"store"}, "ok")
    /\ cachesvs' = [blkno |-> NumberOf[header[c]], bhash |-> header[c],
                    bproof |-> [request[c] EXCEPT !.blockno = blockno, !.bhash = bhash]]
    /\ UNCHANGED <<blockno, bhash, request, agreed>>

Store(c) ==
    /\ Return(c, {"store"}, "ok")
    /\ cachesvs' = [blkno |-> NumberOf[header[c]], bhash |-> header[c],
                    bproof |-> request[c]]
    /\ UNCHANGED <<blockno, bhash, request, agreed>>

-----------------------------------------------------------------------------

\* What the goroutine does by itself once it is in a call.
CallStep(c) ==
    \/ SetNumber(c) \/ SetHash(c) \/ GetNumber(c) \/ GetHash(c)
    \/ CacheNumber(c) \/ CacheHash(c) \/ CacheProof(c)
    \/ Answered(c) \/ Unanswered(c) \/ Store(c)

ClientNext ==
    \E c \in Callers :
        \/ \E h \in Headers : VerifyHeader(c, h) \/ SendNewHead(c, h)
        \/ CallStep(c)
        \/ EcAccepts(c) \/ EcRejects(c)

\* A goroutine goes on, and its POST ends by the timeout if nothing else;
\* nothing obliges the external consensus to answer.
ClientSpec == ClientInit /\ [][ClientNext]_rpcVars /\ \A c \in Callers : WF_rpcVars(CallStep(c))

-----------------------------------------------------------------------------

\* A success stands on a success of the external consensus, to the very request
\* that this call marshaled, whoever posted it and however the cache was being
\* replaced between the three comparisons (ecrpcclient.go:247).
SuccessIsAgreed ==
    \A c \in Callers :
        reply[c] = "ok" =>
            \/ NumberOf[header[c]] = 0
            \/ <<path[c], request[c]>> \in agreed

\* verifySeal and SendNewHead succeed when the external consensus agreed to the
\* number, the hash and the proof of the very header they were given
\* (ecponbada.go:223, ecconnector.go:199), whatever earlier calls left in the
\* client's fields and in the cache; and provided that no other call overlaps, whose
\* fields they would marshal (ecrpcclient.go:190, 239).
SuccessIsForHeader ==
    \A c \in Callers :
        c \in alone /\ reply[c] = "ok" =>
            \/ NumberOf[header[c]] = 0
            \/ <<path[c], ParamOf(header[c])>> \in agreed

\* A call ends whether or not the external consensus ever answers.
CallsEnd == \A c \in Callers : pc[c] # "idle" ~> pc[c] = "idle"

-----------------------------------------------------------------------------
(* The inductive invariants                                                *)

\* For any number of callers: the cache and the calls about to succeed hold
\* requests the external consensus agreed to.
AgreedInv ==
    /\ cachesvs # Nil => <<"verifyseal", cachesvs.bproof>> \in agreed
    /\ \A c \in Callers :
          /\ pc[c] # "idle" => header[c] \in Headers /\ reply[c] = "none"
          /\ pc[c] \in {"cacheHash", "cacheProof"} => cachesvs # Nil
          /\ pc[c] \in {"cacheNumber", "cacheHash", "cacheProof", "store"} =>
                path[c] = "verifyseal"
          /\ pc[c] \in {"accepted", "store"} => <<path[c], request[c]>> \in agreed
          /\ reply[c] = "ok" =>
                \/ NumberOf[header[c]] = 0
                \/ <<path[c], request[c]>> \in agreed

SharedInv == ClientType /\ AgreedInv

\* A call that no other overlaps finds in the client what it left there.
Own(c) ==
    /\ pc[c] # "idle" => \A d \in Callers \ {c} : pc[d] = "idle"
    /\ pc[c] \in {"setHash", "getNumber"} => blockno = NumberOf[header[c]]
    /\ pc[c] = "getNumber" => bhash = header[c]
    /\ pc[c] = "getHash" =>
          request[c].blockno = NumberOf[header[c]] /\ bhash = header[c]
    /\ pc[c] \in {"cacheNumber", "cacheHash", "cacheProof", "post", "accepted",
                  "rejected", "store"} => request[c] = ParamOf(header[c])
    /\ reply[c] = "ok" => NumberOf[header[c]] = 0 \/ request[c] = ParamOf(header[c])

OwnInv == \A c \in alone : Own(c)

ClientInv == SharedInv /\ OwnInv
=============================================================================

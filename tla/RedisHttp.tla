----------------------------- MODULE RedisHttp ------------------------------
(***************************************************************************)
(* c++11/libevent_redis: an HTTP server of one thread that opens a         *)
(* connection to Redis for each request, increments a key and replies with *)
(* its new value.  A request is request_func with func as its exec; every  *)
(* call that can fail or throw may do so, and other clients of Redis       *)
(* increment the key at any time.                                          *)
(***************************************************************************)
EXTENDS Integers, Sequences

CONSTANTS
    INT_MAX,                    \* 2^31 - 1, the largest int
    MaxRequests, MaxCounter     \* bounds: how long the server is watched

VARIABLES
    pc,          \* the next call of request_func or func; "crashed" for ever
    c, r,        \* the redisContext and func's redisReply: NULL and NoAnswer if there is none
    status,      \* cb.status
    buffer,      \* returnbuffer is allocated
    counter,     \* the key in Redis
    requests,    \* history: how many requests have come
    replies      \* history: the replies to each, with the number they carry

vars == <<pc, c, r, status, buffer, counter, requests, replies>>

NULL == "NULL"
NONE == 0        \* the value of a reply that carries none
Answer(type, integer) == [type |-> type, integer |-> integer]
NoAnswer == Answer(NULL, NONE)
HTTP_OK == 200
HTTP_INTERNAL == 500
HTTP_SERVUNAVAIL == 503

Init ==
    /\ pc = "idle" /\ c = NULL /\ r = NoAnswer /\ status = HTTP_INTERNAL /\ buffer = FALSE
    /\ counter = 0 /\ requests = 0 /\ replies = <<>>

\* Another client of Redis.
Incremented ==
    /\ counter < MaxCounter
    /\ counter' = counter + 1
    /\ UNCHANGED <<pc, c, r, status, buffer, requests, replies>>

\* evhttp_send_reply, of request_msg.
send_reply(code, value) ==
    replies' = [replies EXCEPT ![requests] = Append(@, [code |-> code, value |-> value])]

request_handler ==
    /\ pc = "idle" /\ requests < MaxRequests
    /\ pc' = "redisConnect"
    /\ buffer' = TRUE /\ status' = HTTP_INTERNAL
    /\ requests' = requests + 1 /\ replies' = Append(replies, <<>>)
    /\ UNCHANGED <<c, r, counter>>

\* redisConnect returns NULL only if it is out of memory; c->err is read then.
redisConnect ==
    /\ pc = "redisConnect"
    /\ \/ c' = "open" /\ pc' = "redisSetTimeout" /\ UNCHANGED replies
       \/ c' = "err" /\ pc' = "free" /\ send_reply(HTTP_SERVUNAVAIL, NONE)
       \/ pc' = "crashed" /\ UNCHANGED <<c, replies>>
    /\ UNCHANGED <<r, status, buffer, counter, requests>>

redisSetTimeout ==
    /\ pc = "redisSetTimeout"
    /\ \/ pc' = "redisCommand" /\ UNCHANGED replies
       \/ pc' = "free" /\ send_reply(HTTP_INTERNAL, NONE)
    /\ UNCHANGED <<c, r, status, buffer, counter, requests>>

\* func: Redis may increment the key though its answer is late or lost.
redisCommand ==
    /\ pc = "redisCommand"
    /\ counter < MaxCounter
    /\ \/ counter' = counter + 1 /\ r' \in {Answer("integer", counter + 1), NoAnswer}
       \/ r' \in {Answer("error", NONE), NoAnswer} /\ UNCHANGED counter
    /\ pc' = "string_format"
    /\ UNCHANGED <<c, status, buffer, requests, replies>>

reply_integer == r.type = "integer"

\* What %d makes of a long long: its low bits, as an int.
printed(integer) ==
    LET low == integer % (2 * (INT_MAX + 1))
    IN  IF low > INT_MAX THEN low - 2 * (INT_MAX + 1) ELSE low

\* The rest of func, and the reply; string_format may throw, and is caught.
string_format ==
    /\ pc = "string_format"
    /\ \E thrown \in BOOLEAN :
          /\ status' = IF reply_integer /\ ~thrown THEN HTTP_OK ELSE HTTP_INTERNAL
          /\ send_reply(status', IF status' = HTTP_OK THEN printed(r.integer) ELSE NONE)
    /\ r' = NoAnswer /\ pc' = "free"
    /\ UNCHANGED <<c, buffer, counter, requests>>

\* The copy of cb into cfg->cb.res throws before the reply: catch sends one.
Copy ==
    /\ pc = "string_format" /\ reply_integer
    /\ send_reply(HTTP_INTERNAL, NONE)
    /\ status' = HTTP_OK /\ r' = NoAnswer /\ pc' = "free"
    /\ UNCHANGED <<c, buffer, counter, requests>>

\* Mutant: only a good connection is freed.
c_kept == IF c = "err" THEN c ELSE NULL
c_freed == NULL

Free ==
    /\ pc = "free"
    /\ buffer' = FALSE /\ c' = c_freed /\ pc' = "idle"
    /\ UNCHANGED <<r, status, counter, requests, replies>>

Next == Incremented \/ request_handler \/ redisConnect \/ redisSetTimeout \/ redisCommand
          \/ string_format \/ Copy \/ Free

Spec == Init /\ [][Next]_vars

-----------------------------------------------------------------------------
\* Whichever calls fail or throw, a request that is over has had one reply,
\* and its buffer, its connection and the answer of Redis are freed.  Where the
\* process crashes, because redisConnect returned NULL, the request it was
\* serving has no reply, and all before it have one.
OneReplyNoLeak ==
    /\ \A k \in 1 .. Len(replies) :
         Len(replies[k]) = IF k < requests \/ pc \in {"free", "idle"} THEN 1 ELSE 0
    /\ pc = "crashed" => c = NULL
    /\ pc = "idle" => c = NULL /\ r = NoAnswer /\ ~buffer

\* As long as the key fits an int, the numbers that HTTP_OK carries are the
\* key's own, in the order of the requests, and none is given twice, whatever
\* answers were lost in between and whoever else increments the key.
ValuesIncrease ==
    counter <= INT_MAX =>
        \A j, k \in 1 .. Len(replies) :
            /\ \A a \in 1 .. Len(replies[j]) : replies[j][a].code = HTTP_OK =>
                  replies[j][a].value \in 1 .. counter
            /\ j < k => \A a \in 1 .. Len(replies[j]), b \in 1 .. Len(replies[k]) :
                  replies[j][a].code = HTTP_OK /\ replies[k][b].code = HTTP_OK =>
                      replies[j][a].value < replies[k][b].value
=============================================================================

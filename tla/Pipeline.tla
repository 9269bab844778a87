------------------------------ MODULE Pipeline ------------------------------
(***************************************************************************)
(* What the global filter and interceptors of app.module.ts make of the    *)
(* end of a request: the envelope of StandardResponse, as far as a client  *)
(* can branch on it, and the request id that answer and log carry.         *)
(***************************************************************************)
EXTENDS Naturals

CONSTANTS Ids,     \* request ids that clients send
          NoId,    \* no header, or no id in the answer
          Blank,   \* a header that is there and empty
          Fresh    \* what randomUUID draws, none of Ids

\* An exception: an HttpException with an object or a text for its response,
\* or any other Error.  name is what the object's "error" or the exception's
\* class says; messages are left out.
HttpError(status, name) == [class |-> "http", status |-> status, name |-> name,
                            object |-> TRUE]
HttpText(status, name)  == [class |-> "http", status |-> status, name |-> name,
                            object |-> FALSE]
PlainError(name)        == [class |-> "error", status |-> 500, name |-> name,
                            object |-> FALSE]

\* The filter without its first branch: every exception is a server error.
FilterStatusBlind(x) == 500

\* HttpExceptionFilter.catch: the status, and the name of the error.  A text
\* response leaves the name at its first value.
FilterStatus(x) == IF x.class = "http" THEN x.status ELSE 500
FilterError(x)  == IF x.class = "http" /\ ~x.object THEN "InternalServerError"
                   ELSE x.name

\* resolveSuccessMessage.
SuccessMessage(method, status) ==
    CASE status = 201 -> "CREATED"
      [] status = 202 -> "ACCEPTED"
      [] status = 204 -> "NO_CONTENT"
      [] OTHER -> CASE method = "GET"              -> "RETRIEVED"
                    [] method \in {"PATCH", "PUT"} -> "UPDATED"
                    [] method = "DELETE"           -> "DELETED"
                    [] OTHER                       -> "SUCCESS"

\* The correlation id before the request id.
AnswerIdSwapped(h) == IF h.correlation # NoId THEN h.correlation ELSE h.request

\* getRequestId, of the two headers it knows: x-request-id when present, even
\* blank, hides x-correlation-id.
AnswerId(h) ==
    LET id == IF h.request = NoId THEN h.correlation ELSE h.request
    IN IF id = Blank THEN NoId ELSE id

\* LoggingInterceptor: x-request-id when present and not blank, or a new id; it
\* does not look at x-correlation-id.
LogId(h) == IF h.request \in {NoId, Blank} THEN Fresh ELSE h.request

\* The body of an answer: TransformInterceptor sends none with 204.
SuccessBody(h, method, status) ==
    [status |-> status, success |-> TRUE, empty |-> status = 204,
     word |-> SuccessMessage(method, status), id |-> AnswerId(h)]
ErrorBody(h, x) ==
    [status |-> FilterStatus(x), success |-> FALSE, empty |-> FALSE,
     word |-> FilterError(x), id |-> AnswerId(h)]
=============================================================================

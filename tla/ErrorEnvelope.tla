---------------------------- MODULE ErrorEnvelope ----------------------------
(* What the backend answers (errors.py): a response is a status with either a  *)
(* body or the error envelope that its exception handlers build.  Messages are *)
(* left out; `error' is the code a client may test.                            *)
EXTENDS Integers

Ok(body) == [status |-> 200, body |-> body]

Envelope(status, error) == [status |-> status, error |-> error]

(* An HTTPException keeps its status; the code tells 404, 5xx and the rest.    *)
HttpException(status) ==
  Envelope(status, CASE status = 404 -> "not_found"
                     [] status \in 500..599 -> "internal"
                     [] OTHER -> "http_error")

ValidationFailed == Envelope(422, "validation")

UpstreamUnreachable == Envelope(502, "upstream_unreachable")

Unhandled == Envelope(500, "internal")

(* register_exception_handlers: the handler of the most specific class.        *)
Handle(exception) ==
  CASE exception.class = "HTTPException"          -> HttpException(exception.status)
    [] exception.class = "RequestValidationError" -> ValidationFailed
    [] exception.class = "UpstreamUnreachable"    -> UpstreamUnreachable
    [] OTHER                                      -> Unhandled

Raise(class) == Handle([class |-> class])
=============================================================================

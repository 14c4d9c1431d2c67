----------------------------- MODULE HttpAnswers -----------------------------
(* How an HTTP request of the providers ends, and what they make of it: a    *)
(* response, or one of seven errors. The client bounds every request in time *)
(* (CONNECT_TIMEOUT and REQUEST_TIMEOUT), so each one ends.                  *)

NetworkError == {"not_found", "unauthorized", "insufficient_permissions", "rate_limited",
                 "timeout", "request_failed", "invalid_response"}

\* A request that ends without a response.
Unanswered == {"timed_out", "broken"}

\* The statuses that are told apart; "other" is every further failure.
StatusClass == {"success", "not_found", "unauthorized", "forbidden", "too_many_requests", "other"}

\* What the body of a success holds: nothing that can be read as JSON, a list
\* of GraphQL errors, a reply without the value asked for, or all of it.
Body == {"unreadable", "errors", "lacking", "whole"}

\* The body of a failure is never read.
Answer == {a \in [status : StatusClass \cup Unanswered, body : Body] :
             a.status # "success" => a.body = "unreadable"}

\* An Answer that says that its request was refused, and so not carried out.
Refusal == {"not_found", "unauthorized", "forbidden", "too_many_requests"}

TransportError(a) == IF a.status = "timed_out" THEN "timeout" ELSE "request_failed"

StatusError(a) ==
    CASE a.status = "not_found"         -> "not_found"
      [] a.status = "unauthorized"      -> "unauthorized"
      [] a.status = "forbidden"         -> "insufficient_permissions"
      [] a.status = "too_many_requests" -> "rate_limited"
      [] OTHER                          -> "request_failed"

\* into_response, into_json and into_graphql_data return "ok" or the error.
IntoResponse(a) ==
    CASE a.status \in Unanswered -> TransportError(a)
      [] a.status = "success"    -> "ok"
      [] OTHER                   -> StatusError(a)

\* The reply is deserialised into a type that the bodies in readable fit.
IntoJson(a, readable) ==
    IF IntoResponse(a) = "ok" /\ a.body \notin readable THEN "invalid_response"
                                                        ELSE IntoResponse(a)

\* A graphql_client::Response holds optional errors and optional data.
IntoGraphqlData(a) ==
    LET reply == IntoJson(a, Body \ {"unreadable"}) IN
    CASE reply = "ok" /\ a.body = "errors"  -> "request_failed"
      [] reply = "ok" /\ a.body = "lacking" -> "invalid_response"
      [] OTHER                              -> reply
=============================================================================

----------------------------- MODULE HttpClient -----------------------------
(***************************************************************************)
(* client/http: RequestJSON over net/http and over fasthttp.  Both clients  *)
(* get one request and one answer of the server, and run side by side.      *)
(* Texts are symbols.  What RequestJSON gives the client to send is kept,   *)
(* not what net/http and fasthttp add; nor the objects that are released by *)
(* defer on every way out.                                                  *)
(***************************************************************************)
EXTENDS Integers, Sequences

CONSTANTS
    Requests,       \* requests to make, see RequestType
    Answers         \* subset of AnswerType

VARIABLES request, answer, progress
httpVars == <<request, answer, progress>>

Clients == {"net", "fast"}

\* data and headers: what they are, and the value of a field or header.
Kinds == {"nil", "Values", "DataMap", "struct", "string", "number", "chan"}
FieldValues == {"scalar", "pointer", "slice"}
RequestType ==
    [method : {"GET", "POST"}, url : {"plain", "query", "bad"},
     format : {"NoData", "QueryString", "Form", "JSON", "Raw"},
     data : Kinds, value : FieldValues, header : FieldValues \cup {"none", "unsupported"}, respData : BOOLEAN]

\* No answer, a body that breaks off, a 500, a 200 with a JSON or another body, and
\* a 302 to a page that answers with JSON.
AnswerType == {"down", "cut", "500", "json", "text", "redirect"}

ASSUME HttpAssumption == Requests \subseteq RequestType /\ Answers \subseteq AnswerType

\* The texts a value stands for.
Items(value) == IF value = "slice" THEN <<"a", "b">> ELSE <<"a">>

\* How far a client is: its step, the request it has built, and how the call ended.
Fresh == [at |-> "encode", body |-> <<>>, query |-> <<>>, contentType |-> "",
          header |-> <<>>, sent |-> FALSE, result |-> ""]

HttpInit ==
    /\ request \in Requests /\ answer \in Answers
    /\ progress = [c \in Clients |-> Fresh]

-----------------------------------------------------------------------------
\* form.Set of the value or of what it points to; form.Add for each item.
setFormValue(value) == Items(value)

\* setHeader: a pointer is followed to a reflect.Value, which is marshalled as
\* the struct it is; a struct or map with a field that JSON cannot represent is an
\* error (any other value is formatted).
setHeader(value) ==
    CASE value = "none" -> <<>>
      [] value = "pointer" -> <<"{}">>
      [] value = "unsupported" -> <<"error">>
      [] OTHER -> Items(value)

\* getBodyReaderAndForm: the form, the body, or an error.
Formable == {"Values", "DataMap", "struct"}
FormOf(r) == IF r.data = "Values" THEN Items(r.value) ELSE setFormValue(r.value)
HasForm(r) == r.data \in Formable /\ r.format \in {"QueryString", "Form"}
BadData(r) ==
    /\ r.data # "nil"
    /\ \/ r.format = "JSON" /\ r.data = "chan"
       \/ r.format \in {"QueryString", "Form"} /\ r.data \notin Formable
       \/ r.format = "Raw" /\ r.data # "string"
BodyOf(r) ==
    IF r.data = "nil" \/ r.format \in {"NoData", "QueryString"} THEN <<>>
    ELSE IF r.format = "Form" THEN FormOf(r) ELSE <<r.format, r.data>>

ContentType(r) == CASE r.format = "Form" -> "form" [] r.format = "JSON" -> "json" [] OTHER -> ""

OwnQuery(r) == IF r.url = "query" THEN <<"own">> ELSE <<>>

-----------------------------------------------------------------------------
Step(c, next) == progress' = [progress EXCEPT ![c] = next] /\ UNCHANGED <<request, answer>>

EndCall(p, result) == [p EXCEPT !.at = "done", !.result = result]

EncodeData(c) ==
    /\ progress[c].at = "encode"
    /\ Step(c, IF BadData(request) THEN EndCall(progress[c], "error")
               ELSE [progress[c] EXCEPT !.at = "build", !.body = BodyOf(request)])

\* The error of NewRequest is not looked at: a URL that does not parse leaves a
\* nil request, which panics at its first use.
NetBuild ==
    LET p == progress["net"] IN
    /\ p.at = "build"
    /\ Step("net", IF request.url = "bad" THEN EndCall(p, "panic")
                   ELSE [p EXCEPT !.at = "header", !.contentType = ContentType(request),
                                  !.query = IF HasForm(request) /\ request.format = "QueryString"
                                            THEN FormOf(request) ELSE OwnQuery(request)])

\* GET drops the body.
FastBody(body) == IF request.method = "GET" THEN <<>> ELSE body

\* fasthttp gives a request that may have a body and has no type a default one.
FastType(r) == IF ContentType(r) = "" /\ r.method # "GET" THEN "default" ELSE ContentType(r)

\* The form is put behind the URL with "?" even when that has a query; url.Parse
\* of a bad URL returns nil, whose Host is read.
FastBuild ==
    LET p == progress["fast"] IN
    /\ p.at = "build"
    /\ Step("fast",
         IF request.url = "bad" THEN EndCall(p, "panic")
         ELSE [p EXCEPT !.at = "header", !.contentType = FastType(request), !.body = FastBody(@),
                        !.query = IF HasForm(request) /\ request.format = "QueryString"
                                  THEN OwnQuery(request) \o FormOf(request) ELSE OwnQuery(request)])

Headers(c) ==
    /\ progress[c].at = "header"
    /\ Step(c, IF setHeader(request.header) = <<"error">> THEN EndCall(progress[c], "error")
               ELSE [progress[c] EXCEPT !.at = "do", !.header = setHeader(request.header)])

\* net/http follows a redirect and returns with the header of the last response;
\* the body is read later.
NetDo ==
    LET p == [progress["net"] EXCEPT !.sent = TRUE] IN
    /\ p.at = "do"
    /\ Step("net", IF answer \in {"down", "500"} THEN EndCall(p, "error") ELSE [p EXCEPT !.at = "read"])

\* Without respData the body is not read at all.
NetRead ==
    LET p == progress["net"] IN
    /\ p.at = "read"
    /\ Step("net", EndCall(p, IF ~request.respData \/ answer \in {"json", "redirect"} THEN "ok" ELSE "error"))

\* Mutant: the status code is not looked at.
FastDoAnyStatus ==
    LET p == [progress["fast"] EXCEPT !.sent = TRUE] IN
    /\ p.at = "do"
    /\ Step("fast", EndCall(p, IF request.respData /\ answer \in {"500", "json"} THEN "ok" ELSE "error"))

\* DoTimeout follows no redirect and returns with the whole response, which is
\* decoded even when there is no respData to decode it into (an error).
FastDo ==
    LET p == [progress["fast"] EXCEPT !.sent = TRUE] IN
    /\ p.at = "do"
    /\ Step("fast", EndCall(p, IF request.respData /\ answer = "json" THEN "ok" ELSE "error"))

HttpNext ==
    \/ \E c \in Clients : EncodeData(c) \/ Headers(c)
    \/ NetBuild \/ NetDo \/ NetRead
    \/ FastBuild \/ FastDo

HttpSpec == HttpInit /\ [][HttpNext]_httpVars

-----------------------------------------------------------------------------
(* Properties *)
\* No error is swallowed on the way: nil is returned only for a request that was
\* sent, was answered with 200 (by the page a redirect led net/http to, too), and
\* whose answer was decoded if there is something to decode it into.  The server
\* then got every item of a parameter (values=1&values=2) and the content type of
\* the format, from whatever kind of data.
SuccessSound == \A c \in Clients : progress[c].result = "ok" =>
    /\ progress[c].sent /\ ~BadData(request)
    /\ answer \notin {"down", "500"} /\ (request.respData => answer \in {"json", "redirect"})
    /\ c = "fast" => answer # "redirect"
    /\ HasForm(request) /\ request.format = "QueryString" /\ request.url = "plain" =>
         progress[c].query = Items(request.value)
    /\ request.format = "JSON" => progress[c].contentType = "json"
    /\ HasForm(request) /\ request.format = "Form" /\ request.method = "POST" =>
         progress[c].body = Items(request.value) /\ progress[c].contentType = "form"
=============================================================================

------------------------------ MODULE Responses ------------------------------
(***************************************************************************)
(* The language a client is answered in: RequestContextMiddleware, the     *)
(* choice of a locale (app/core/i18n.py) and the exception handlers        *)
(* (app/core/exceptions.py), over the requests of several connections.     *)
(*                                                                         *)
(* The locale travels in structlog's context variables, which belong to    *)
(* the task of a request; a task may start with a copy of those of the     *)
(* request before it on the connection.  A message is represented by its   *)
(* language and a body by its code.                                        *)
(***************************************************************************)
EXTENDS Integers, Sequences, FiniteSets

CONSTANTS
  Connection,
  AcceptLanguage,  \* the headers each connection may send; <<>> for none
  Other,           \* a language that is not supported
  NoWeight,        \* a part without a q-value
  BadWeight,       \* a q-value that float() does not take
  NoLocale,
  NoCode

SUPPORTED_LOCALES == {"en", "pt", "es"}
DEFAULT_LOCALE == "en"
ASSUME NoLocaleAssumption == NoLocale \notin SUPPORTED_LOCALES

(* One part of a header: its language, whether a region suffix follows it, *)
(* its q-value in tenths, and whether a space comes before "q=".           *)
Part == [lang : SUPPORTED_LOCALES \cup {Other}, region : BOOLEAN,
         weight : Int \cup {NoWeight, BadWeight}, spaced : BOOLEAN]
ASSUME AcceptLanguageAssumption ==
  AcceptLanguage \in [Connection -> SUBSET Seq(Part)]

(* The domain exceptions. *)
AppException ==
  [ AppException |-> [status |-> 500, code |-> "INTERNAL_ERROR"],
    BadRequestError |-> [status |-> 400, code |-> "BAD_REQUEST"],
    ValidationError |-> [status |-> 400, code |-> "VALIDATION_ERROR"],
    UnauthorisedError |-> [status |-> 401, code |-> "UNAUTHORISED"],
    InvalidTokenError |-> [status |-> 401, code |-> "INVALID_TOKEN"],
    ExpiredTokenError |-> [status |-> 401, code |-> "TOKEN_EXPIRED"],
    ForbiddenError |-> [status |-> 403, code |-> "FORBIDDEN"],
    GatheringLimitError |-> [status |-> 403, code |-> "GATHERING_LIMIT_REACHED"],
    NotFoundError |-> [status |-> 404, code |-> "NOT_FOUND"],
    UserNotFoundError |-> [status |-> 404, code |-> "USER_NOT_FOUND"],
    GatheringNotFoundError |-> [status |-> 404, code |-> "GATHERING_NOT_FOUND"],
    ConflictError |-> [status |-> 409, code |-> "CONFLICT"],
    EmailAlreadyRegisteredError |->
      [status |-> 409, code |-> "EMAIL_ALREADY_REGISTERED"],
    UnprocessableError |-> [status |-> 422, code |-> "UNPROCESSABLE"] ]

(* The codes that have a message in every supported locale. *)
CATALOGUE ==
  { "INTERNAL_ERROR", "BAD_REQUEST", "VALIDATION_ERROR", "UNPROCESSABLE",
    "UNAUTHORISED", "INVALID_TOKEN", "TOKEN_EXPIRED", "FORBIDDEN", "NOT_FOUND",
    "USER_NOT_FOUND", "GATHERING_NOT_FOUND", "CONFLICT",
    "EMAIL_ALREADY_REGISTERED", "GATHERING_LIMIT_REACHED" }

VARIABLES
  phase,
  header,     \* Accept-Language of a request that has arrived
  context,    \* "locale" among the context variables of its task
  locale,     \* the variable of RequestContextMiddleware.dispatch
  raised,     \* what the handler raised
  response    \* what is sent to the client

vars == <<phase, header, context, locale, raised, response>>

Phase == {"idle", "arrived", "handler", "raised", "responded", "escaped", "sent"}
Outcome == DOMAIN AppException \cup
  {"nothing", "RequestValidationError", "NonFiniteInput", "HTTPException", "Exception"}

Nothing == [status |-> 0, code |-> NoCode, language |-> NoLocale,
            content_language |-> NoLocale]

Init ==
  /\ phase = [c \in Connection |-> "idle"]
  /\ header = [c \in Connection |-> <<>>]
  /\ context = [c \in Connection |-> NoLocale]
  /\ locale = [c \in Connection |-> NoLocale]
  /\ raised = [c \in Connection |-> "nothing"]
  /\ response = [c \in Connection |-> Nothing]

Goto(c, p) == phase' = [phase EXCEPT ![c] = p]

(***************************************************************************)
(* resolve_locale.                                                         *)
(***************************************************************************)
(* "pt; q=0.5" is not split: it is a tag of weight 1, and names a language *)
(* only where a region suffix cuts the rest off.                           *)
Unsplit(part) == part.spaced \/ part.weight = NoWeight
Quality(part) ==
  IF Unsplit(part) \/ part.weight = BadWeight THEN 10 ELSE part.weight
Base(part) ==
  IF part.spaced /\ ~part.region THEN Other ELSE part.lang

(* Mutant: the q-values are not looked at. *)
AsWritten(tags) == tags

(* sort(reverse=True) keeps the order of equals.                           *)
Before(tags, i, j) ==
  \/ Quality(tags[i]) > Quality(tags[j])
  \/ Quality(tags[i]) = Quality(tags[j]) /\ i < j
Position(tags, i) == 1 + Cardinality({j \in DOMAIN tags : Before(tags, j, i)})
Ranked(tags) ==
  [k \in DOMAIN tags |-> tags[CHOOSE i \in DOMAIN tags : Position(tags, i) = k]]

resolve_locale(accept_language) ==
  LET tags == Ranked(accept_language)
      supported == {i \in DOMAIN tags : Base(tags[i]) \in SUPPORTED_LOCALES}
      first == CHOOSE i \in supported : \A j \in supported : i <= j
  IN IF supported = {} THEN DEFAULT_LOCALE ELSE Base(tags[first])

(***************************************************************************)
(* A request arrives on a connection.                                      *)
(***************************************************************************)
Arrive(c) ==
  /\ phase[c] \in {"idle", "sent"}
  /\ \E accept_language \in AcceptLanguage[c] :
       header' = [header EXCEPT ![c] = accept_language]
  /\ \/ UNCHANGED context
     \/ context' = [context EXCEPT ![c] = NoLocale]
  /\ locale' = [locale EXCEPT ![c] = NoLocale]
  /\ raised' = [raised EXCEPT ![c] = "nothing"]
  /\ response' = [response EXCEPT ![c] = Nothing]
  /\ Goto(c, "arrived")

(* Mutant: the locale is a global of the process. *)
BindGlobal(c, l) == context' = [d \in Connection |-> l]

bind_locale(c, l) == context' = [context EXCEPT ![c] = l]

(* clear_contextvars, then bind: nothing awaits in between. *)
Dispatch(c) ==
  /\ phase[c] = "arrived"
  /\ locale' = [locale EXCEPT ![c] = resolve_locale(header[c])]
  /\ bind_locale(c, resolve_locale(header[c]))
  /\ header' = [header EXCEPT ![c] = <<>>]
  /\ Goto(c, "handler")
  /\ UNCHANGED <<raised, response>>

(* The route and its dependencies return, or raise. *)
Respond(c) ==
  /\ phase[c] = "handler"
  /\ response' = [response EXCEPT ![c].status = 200]
  /\ Goto(c, "responded")
  /\ UNCHANGED <<header, context, locale, raised>>

Raise(c) ==
  /\ phase[c] = "handler"
  /\ \E what \in Outcome \ {"nothing"} : raised' = [raised EXCEPT ![c] = what]
  /\ Goto(c, "raised")
  /\ UNCHANGED <<header, context, locale, response>>

(***************************************************************************)
(* The exception handlers.                                                 *)
(***************************************************************************)
get_request_locale(c) == IF context[c] = NoLocale THEN DEFAULT_LOCALE ELSE context[c]

(* A code that is not in the catalogue is its own message. *)
translate(c, code) == IF code \in CATALOGUE THEN get_request_locale(c) ELSE NoLocale

error_response(c, status, code) ==
  response' = [response EXCEPT ![c] =
    [@ EXCEPT !.status = status, !.code = code, !.language = translate(c, code)]]

app_exception_handler(c) ==
  /\ phase[c] = "raised"
  /\ raised[c] \in DOMAIN AppException
  /\ error_response(c, AppException[raised[c]].status, AppException[raised[c]].code)
  /\ Goto(c, "responded")
  /\ UNCHANGED <<header, context, locale, raised>>

validation_exception_handler(c) ==
  /\ phase[c] = "raised"
  /\ raised[c] = "RequestValidationError"
  /\ error_response(c, 422, "VALIDATION_ERROR")
  /\ Goto(c, "responded")
  /\ UNCHANGED <<header, context, locale, raised>>

(* Starlette's own handler: an unknown path or method, in English and      *)
(* without the envelope.                                                   *)
HTTPExceptionHandler(c) ==
  /\ phase[c] = "raised"
  /\ raised[c] = "HTTPException"
  /\ \E status \in {404, 405} :
       response' = [response EXCEPT ![c] =
         [@ EXCEPT !.status = status, !.language = "en"]]
  /\ Goto(c, "responded")
  /\ UNCHANGED <<header, context, locale, raised>>

(* Whatever no handler takes leaves the middleware; so does the rejected   *)
(* input NaN, which the validation handler puts into the detail and        *)
(* JSONResponse refuses to write.                                          *)
Escape(c) ==
  /\ phase[c] = "raised"
  /\ raised[c] \in {"Exception", "NonFiniteInput"}
  /\ Goto(c, "escaped")
  /\ UNCHANGED <<header, context, locale, raised, response>>

(* ServerErrorMiddleware, which is outside of the middleware. *)
unhandled_exception_handler(c) ==
  /\ phase[c] = "escaped"
  /\ error_response(c, 500, "INTERNAL_ERROR")
  /\ Goto(c, "sent")
  /\ UNCHANGED <<header, context, locale, raised>>

(* call_next returned. *)
AddHeaders(c) ==
  /\ phase[c] = "responded"
  /\ response' = [response EXCEPT ![c].content_language = locale[c]]
  /\ Goto(c, "sent")
  /\ UNCHANGED <<header, context, locale, raised>>

-----------------------------------------------------------------------------

Handle(c) ==
  \/ app_exception_handler(c)
  \/ validation_exception_handler(c)
  \/ HTTPExceptionHandler(c)
  \/ Escape(c)
  \/ unhandled_exception_handler(c)

Next ==
  \E c \in Connection :
    \/ Arrive(c)
    \/ Dispatch(c)
    \/ Respond(c)
    \/ Raise(c)
    \/ Handle(c)
    \/ AddHeaders(c)

Spec == Init /\ [][Next]_vars

-----------------------------------------------------------------------------

Offers(h) == {i \in DOMAIN h : Base(h[i]) \in SUPPORTED_LOCALES}

(* The part i of a header is preferred to the part j. *)
Preferred(h, i, j) ==
  IF Quality(h[i]) = Quality(h[j]) THEN i <= j ELSE Quality(h[i]) > Quality(h[j])

IsBest(h, l) ==
  IF Offers(h) = {} THEN l = DEFAULT_LOCALE
  ELSE \E i \in Offers(h) : l = Base(h[i]) /\ \A j \in Offers(h) : Preferred(h, i, j)

(* The locale of a request is the supported one its header prefers: of the *)
(* greatest weight, and the first of those; unsupported tags, regions and  *)
(* weights that are no numbers do not lead elsewhere.                      *)
LocaleIsBest ==
  [][\A c \in Connection :
       phase[c] = "arrived" /\ phase'[c] # "arrived" => IsBest(header[c], locale'[c])]_vars

(* An error is told in the language of its own request, whatever requests  *)
(* are served meanwhile or were before on the connection, and the response *)
(* names that language; only what escapes has no Content-Language, and     *)
(* only what no route is found for is told in English.                     *)
ErrorsSpeakTheLocale ==
  \A c \in Connection : phase[c] = "sent" /\ raised[c] # "nothing" =>
    /\ response[c].content_language =
         IF raised[c] \in {"Exception", "NonFiniteInput"} THEN NoLocale ELSE locale[c]
    /\ response[c].language =
         IF raised[c] = "HTTPException" THEN "en" ELSE locale[c]

=============================================================================

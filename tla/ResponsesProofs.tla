--------------------------- MODULE ResponsesProofs ---------------------------
(***************************************************************************)
(* Proofs about Responses, for any connections and headers: the locale of  *)
(* a request is a supported one, and its errors are told in it.            *)
(***************************************************************************)
EXTENDS Responses, FiniteSetTheorems, TLAPS

Response ==
  [status : Int, code : CATALOGUE \cup {NoCode},
   language : SUPPORTED_LOCALES \cup {NoLocale},
   content_language : SUPPORTED_LOCALES \cup {NoLocale}]

TypeOK ==
  /\ phase \in [Connection -> Phase]
  /\ header \in [Connection -> Seq(Part)]
  /\ context \in [Connection -> SUPPORTED_LOCALES \cup {NoLocale}]
  /\ locale \in [Connection -> SUPPORTED_LOCALES \cup {NoLocale}]
  /\ raised \in [Connection -> Outcome]
  /\ response \in [Connection -> Response]

Uncaught == {"Exception", "NonFiniteInput"}

(* The request of c is in a task that knows its locale.                    *)
Bound(c) == locale[c] \in SUPPORTED_LOCALES /\ context[c] = locale[c]

(* No header is set before the response leaves the middleware.             *)
Unnamed(c) == response[c].content_language = NoLocale

Told(c) ==
  response[c].language = IF raised[c] = "HTTPException" THEN "en" ELSE locale[c]

(* What is known of the request of c at each stage.                        *)
Stage(c) ==
  /\ phase[c] = "arrived" => raised[c] = "nothing" /\ Unnamed(c)
  /\ phase[c] = "handler" => Bound(c) /\ raised[c] = "nothing" /\ Unnamed(c)
  /\ phase[c] = "raised" => Bound(c) /\ raised[c] # "nothing" /\ Unnamed(c)
  /\ phase[c] = "responded" =>
       /\ Bound(c)
       /\ raised[c] # "nothing" => raised[c] \notin Uncaught /\ Told(c)
  /\ phase[c] = "escaped" => Bound(c) /\ raised[c] \in Uncaught /\ Unnamed(c)
  /\ phase[c] = "sent" /\ raised[c] # "nothing" =>
       /\ Told(c)
       /\ response[c].content_language =
            IF raised[c] \in Uncaught THEN NoLocale ELSE locale[c]

IInv == TypeOK /\ \A c \in Connection : Stage(c)

-----------------------------------------------------------------------------

LEMMA LeastOfNats ==
  ASSUME NEW S \in SUBSET Nat, S # {}
  PROVE  \E i \in S : \A j \in S : i <= j
  <1>1. PICK i \in S : \A j \in S : ~(<<j, i>> \in OpToRel(<, Nat))
    BY NatLessThanWellFounded, WFMin
  <1>2. \A j \in S : ~(j < i)
    BY <1>1 DEF OpToRel
  <1> QED
    BY <1>2

(* The weights order the tags, and the places those of equal weight.       *)
LEMMA QualityIsInt ==
  ASSUME NEW part \in Part
  PROVE  Quality(part) \in Int
  BY DEF Quality, Unsplit, Part

LEMMA BeforeIsOrder ==
  ASSUME NEW h \in Seq(Part), NEW i \in DOMAIN h, NEW j \in DOMAIN h
  PROVE  /\ ~Before(h, i, i)
         /\ i # j => Before(h, i, j) \/ Before(h, j, i)
         /\ \A k \in DOMAIN h : Before(h, k, i) /\ Before(h, i, j) => Before(h, k, j)
         /\ ~Before(h, j, i) => Preferred(h, i, j)
  <1>1. \A k \in DOMAIN h : k \in Int /\ h[k] \in Part
    OBVIOUS
  <1>2. \A k \in DOMAIN h : Quality(h[k]) \in Int
    BY <1>1, QualityIsInt
  <1> QED
    BY <1>1, <1>2 DEF Before, Preferred

(* A tag that comes before another has the lower position.                 *)
LEMMA PositionRises ==
  ASSUME NEW h \in Seq(Part), NEW i \in DOMAIN h
  PROVE  /\ Position(h, i) \in DOMAIN h
         /\ \A j \in DOMAIN h : Before(h, i, j) => Position(h, i) < Position(h, j)
  <1> DEFINE A(j) == {k \in DOMAIN h : Before(h, k, j)}
  <1>1. /\ DOMAIN h = 1..Len(h) /\ Len(h) \in Nat
        /\ IsFiniteSet(DOMAIN h) /\ Cardinality(DOMAIN h) = Len(h)
    BY FS_Interval
  <1>2. ASSUME NEW j \in DOMAIN h
        PROVE  /\ IsFiniteSet(A(j)) /\ Cardinality(A(j)) \in Nat
               /\ j \notin A(j)
               /\ Cardinality(A(j) \cup {j}) = Cardinality(A(j)) + 1
    <2>1. IsFiniteSet(A(j))
      BY <1>1, FS_Subset
    <2>2. j \notin A(j)
      BY BeforeIsOrder
    <2> QED
      BY <2>1, <2>2, FS_CardinalityType, FS_AddElement
  <1>3. \A j \in DOMAIN h : Position(h, j) = 1 + Cardinality(A(j))
    BY DEF Position
  <1>4. Position(h, i) \in DOMAIN h
    <2>1. A(i) \cup {i} \in SUBSET DOMAIN h
      OBVIOUS
    <2> HIDE DEF A
    <2>2. Cardinality(A(i) \cup {i}) <= Cardinality(DOMAIN h)
      BY <1>1, <2>1, FS_Subset
    <2> QED
      BY <1>1, <1>2, <1>3, <2>2
  <1>5. ASSUME NEW j \in DOMAIN h, Before(h, i, j)
        PROVE  Position(h, i) < Position(h, j)
    <2>1. A(i) \cup {i} \in SUBSET A(j)
      BY <1>5, BeforeIsOrder
    <2>2. IsFiniteSet(A(j))
      BY <1>2
    <2> HIDE DEF A
    <2>3. Cardinality(A(i) \cup {i}) <= Cardinality(A(j))
      BY <2>1, <2>2, FS_Subset
    <2>4. /\ Cardinality(A(i)) \in Nat /\ Cardinality(A(j)) \in Nat
          /\ Cardinality(A(i) \cup {i}) = Cardinality(A(i)) + 1
      BY <1>2
    <2>5. /\ Position(h, i) = 1 + Cardinality(A(i))
          /\ Position(h, j) = 1 + Cardinality(A(j))
      BY <1>3
    <2> QED
      BY <2>3, <2>4, <2>5
  <1> QED
    BY <1>4, <1>5

(* Every place of the sorted list is that of one tag.                      *)
LEMMA RankedIsSorted ==
  ASSUME NEW h \in Seq(Part)
  PROVE  /\ DOMAIN Ranked(h) = DOMAIN h
         /\ \A i \in DOMAIN h : Ranked(h)[Position(h, i)] = h[i]
         /\ \A k \in DOMAIN h : \E i \in DOMAIN h : Position(h, i) = k
  <1> DEFINE f == [i \in DOMAIN h |-> Position(h, i)]
  <1>1. \A i \in DOMAIN h : Position(h, i) \in DOMAIN h
    BY PositionRises
  <1>2. \A i, j \in DOMAIN h : Position(h, i) = Position(h, j) => i = j
    <2> SUFFICES ASSUME NEW i \in DOMAIN h, NEW j \in DOMAIN h, i # j
                 PROVE  Position(h, i) # Position(h, j)
      OBVIOUS
    <2>1. Position(h, i) \in Int /\ Position(h, j) \in Int
      BY <1>1
    <2>2. Before(h, i, j) \/ Before(h, j, i)
      BY BeforeIsOrder
    <2> QED
      BY <2>1, <2>2, PositionRises
  <1>3. f \in Injection(DOMAIN h, DOMAIN h)
    BY <1>1, <1>2 DEF Injection, IsInjective
  <1>4. IsFiniteSet(DOMAIN h)
    BY FS_Interval
  <1>5. f \in Surjection(DOMAIN h, DOMAIN h)
    BY <1>3, <1>4, FS_Injection
  <1>6. \A k \in DOMAIN h : \E i \in DOMAIN h : Position(h, i) = k
    BY <1>5 DEF Surjection
  <1>7. \A i \in DOMAIN h : Ranked(h)[Position(h, i)] = h[i]
    BY <1>1, <1>2 DEF Ranked
  <1> QED
    BY <1>6, <1>7 DEF Ranked

(* The locale of any header is a supported one, and the one it prefers.    *)
LEMMA LocaleIsSupported ==
  ASSUME NEW h \in Seq(Part)
  PROVE  /\ resolve_locale(h) \in SUPPORTED_LOCALES
         /\ IsBest(h, resolve_locale(h))
  <1> DEFINE tags == Ranked(h)
             supported == {k \in DOMAIN tags : Base(tags[k]) \in SUPPORTED_LOCALES}
  <1>1. DOMAIN tags = DOMAIN h /\ DOMAIN h \subseteq Nat
    BY RankedIsSorted
  <1>2. \A i \in Offers(h) : Position(h, i) \in supported
    BY <1>1, RankedIsSorted, PositionRises DEF Offers
  <1>3. \A k \in supported : \E i \in Offers(h) : Position(h, i) = k /\ tags[k] = h[i]
    BY <1>1, RankedIsSorted DEF Offers
  <1>4. CASE supported = {}
    <2>1. Offers(h) = {}
      BY <1>2, <1>4
    <2> QED
      BY <1>4, <2>1 DEF resolve_locale, IsBest, DEFAULT_LOCALE, SUPPORTED_LOCALES
  <1>5. CASE supported # {}
    <2> DEFINE first == CHOOSE k \in supported : \A j \in supported : k <= j
    <2>1. \E k \in supported : \A j \in supported : k <= j
      BY <1>1, <1>5, LeastOfNats
    <2>2. first \in supported /\ \A j \in supported : first <= j
      BY <2>1
    <2>3. resolve_locale(h) = Base(tags[first])
      BY <1>5 DEF resolve_locale
    <2> HIDE DEF first
    <2>4. PICK i \in Offers(h) : Position(h, i) = first /\ tags[first] = h[i]
      BY <1>3, <2>2
    <2>5. ASSUME NEW j \in Offers(h) PROVE Preferred(h, i, j)
      <3>1. i \in DOMAIN h /\ j \in DOMAIN h
        BY DEF Offers
      <3>2. Position(h, i) <= Position(h, j)
        BY <1>2, <2>2, <2>4
      <3>3. Position(h, i) \in Int /\ Position(h, j) \in Int
        BY <1>1, <3>1, PositionRises
      <3>4. ~Before(h, j, i)
        BY <3>1, <3>2, <3>3, PositionRises
      <3> QED
        BY <3>1, <3>4, BeforeIsOrder
    <2>6. Base(h[i]) \in SUPPORTED_LOCALES
      BY DEF Offers
    <2> QED
      BY <2>3, <2>4, <2>5, <2>6 DEF IsBest
  <1> QED
    BY <1>4, <1>5

(* Every domain exception has a status, and a code with a message in every *)
(* supported locale.                                                       *)
LEMMA CodesAreTranslated ==
  ASSUME NEW e \in DOMAIN AppException
  PROVE  AppException[e].status \in Int /\ AppException[e].code \in CATALOGUE
  BY DEF AppException, CATALOGUE

-----------------------------------------------------------------------------

(* A step of c.                                                            *)
Others(c) ==
  \A d \in Connection \ {c} :
    /\ phase'[d] = phase[d] /\ context'[d] = context[d] /\ locale'[d] = locale[d]
    /\ raised'[d] = raised[d] /\ response'[d] = response[d]

LEMMA StageFrame ==
  ASSUME NEW c \in Connection, Others(c), \A d \in Connection : Stage(d), Stage(c)'
  PROVE  \A d \in Connection : Stage(d)'
  <1> SUFFICES ASSUME NEW d \in Connection \ {c} PROVE Stage(d)'
    OBVIOUS
  <1>1. /\ phase'[d] = phase[d] /\ context'[d] = context[d] /\ locale'[d] = locale[d]
        /\ raised'[d] = raised[d] /\ response'[d] = response[d]
    BY DEF Others
  <1>2. Stage(d)
    OBVIOUS
  <1> QED
    BY <1>1, <1>2 DEF Stage, Bound, Unnamed, Told

LEMMA EditedResponse ==
  ASSUME NEW x \in Response, NEW status \in Int, NEW code \in CATALOGUE,
         NEW language \in SUPPORTED_LOCALES
  PROVE  [x EXCEPT !.status = status, !.code = code, !.language = language] \in Response
  BY DEF Response

LEMMA NothingIsResponse == Nothing \in Response /\ Nothing.content_language = NoLocale
  BY DEF Nothing, Response

LEMMA InvInit == Init => IInv
  <1> SUFFICES ASSUME Init PROVE IInv
    OBVIOUS
  <1>1. TypeOK
    BY NothingIsResponse DEF Init, TypeOK, Phase, Outcome
  <1>2. \A c \in Connection : Stage(c)
    BY DEF Init, Stage
  <1> QED
    BY <1>1, <1>2 DEF IInv

LEMMA ArriveKeeps == ASSUME IInv, NEW c \in Connection, Arrive(c) PROVE IInv'
  <1>0. TypeOK
    BY DEF IInv
  <1>1. PICK h \in AcceptLanguage[c] : header' = [header EXCEPT ![c] = h]
    BY DEF Arrive
  <1>2. h \in Seq(Part)
    BY <1>1, AcceptLanguageAssumption
  <1>3. TypeOK'
    BY <1>0, <1>1, <1>2, NothingIsResponse DEF TypeOK, Arrive, Goto, Phase, Outcome
  <1>4. Others(c)
    BY <1>0 DEF TypeOK, Arrive, Goto, Others
  <1>5. Stage(c)'
    BY <1>0, NothingIsResponse DEF TypeOK, Arrive, Goto, Stage, Unnamed
  <1> QED
    BY <1>3, <1>4, <1>5, StageFrame DEF IInv

(* The locale is bound for this task alone.                                *)
LEMMA DispatchKeeps == ASSUME IInv, NEW c \in Connection, Dispatch(c) PROVE IInv'
  <1>0. TypeOK /\ Stage(c)
    BY DEF IInv
  <1> DEFINE l == resolve_locale(header[c])
  <1>1. l \in SUPPORTED_LOCALES
    BY <1>0, LocaleIsSupported DEF TypeOK
  <1>2. /\ phase[c] = "arrived" /\ phase' = [phase EXCEPT ![c] = "handler"]
        /\ locale' = [locale EXCEPT ![c] = l] /\ context' = [context EXCEPT ![c] = l]
        /\ header' = [header EXCEPT ![c] = <<>>]
        /\ UNCHANGED <<raised, response>>
    BY DEF Dispatch, bind_locale, Goto
  <1> HIDE DEF l
  <1>3. TypeOK'
    BY <1>0, <1>1, <1>2 DEF TypeOK, Phase
  <1>4. Others(c)
    BY <1>0, <1>2 DEF TypeOK, Others
  <1>5. Stage(c)'
    BY <1>0, <1>1, <1>2 DEF TypeOK, Stage, Bound, Unnamed
  <1> QED
    BY <1>3, <1>4, <1>5, StageFrame DEF IInv

LEMMA ReturnKeeps == ASSUME IInv, NEW c \in Connection, Respond(c) \/ Raise(c) PROVE IInv'
  <1>0. TypeOK /\ Stage(c)
    BY DEF IInv
  <1>1. CASE Respond(c)
    <2>1. TypeOK'
      <3>1. response' = [response EXCEPT ![c] = [response[c] EXCEPT !.status = 200]]
        BY <1>1 DEF Respond
      <3>2. response[c] \in Response
        BY <1>0 DEF TypeOK
      <3>4. [response[c] EXCEPT !.status = 200] \in Response
        BY <3>2 DEF Response
      <3>3. response' \in [Connection -> Response]
        BY <1>0, <3>1, <3>4 DEF TypeOK
      <3> QED
        BY <1>0, <1>1, <3>3 DEF TypeOK, Respond, Goto, Phase
    <2>2. Others(c)
      BY <1>0, <1>1 DEF TypeOK, Respond, Goto, Others
    <2>3. Stage(c)'
      BY <1>0, <1>1 DEF TypeOK, Respond, Goto, Stage, Bound
    <2> QED
      BY <2>1, <2>2, <2>3, StageFrame DEF IInv
  <1>2. CASE Raise(c)
    <2>1. TypeOK'
      BY <1>0, <1>2 DEF TypeOK, Raise, Goto, Phase
    <2>2. Others(c)
      BY <1>0, <1>2 DEF TypeOK, Raise, Goto, Others
    <2>3. Stage(c)'
      BY <1>0, <1>2 DEF TypeOK, Raise, Goto, Stage, Bound, Unnamed
    <2> QED
      BY <2>1, <2>2, <2>3, StageFrame DEF IInv
  <1> QED
    BY <1>1, <1>2

(* What a handler of exceptions answers is in the locale of the task.      *)
LEMMA AnswerInLocale ==
  ASSUME IInv, NEW c \in Connection, Bound(c), NEW status \in Int, NEW code \in CATALOGUE,
         error_response(c, status, code)
  PROVE  /\ response' \in [Connection -> Response]
         /\ response'[c].language = locale[c]
         /\ response'[c].content_language = response[c].content_language
         /\ \A d \in Connection \ {c} : response'[d] = response[d]
  <1>0. TypeOK
    BY DEF IInv
  <1>1. translate(c, code) = locale[c]
    BY NoLocaleAssumption DEF translate, get_request_locale, Bound
  <1> DEFINE x == [response[c] EXCEPT !.status = status, !.code = code, !.language = locale[c]]
  <1>2. response' = [response EXCEPT ![c] = x]
    BY <1>1 DEF error_response
  <1>3. response[c] \in Response
    BY <1>0 DEF TypeOK
  <1>4. x \in Response
    BY <1>3, EditedResponse DEF Bound
  <1>5. x.language = locale[c] /\ x.content_language = response[c].content_language
    BY <1>3 DEF Response
  <1> HIDE DEF x
  <1> QED
    BY <1>0, <1>2, <1>4, <1>5 DEF TypeOK

LEMMA HandleKeeps == ASSUME IInv, NEW c \in Connection, Handle(c) PROVE IInv'
  <1>0. TypeOK /\ Stage(c)
    BY DEF IInv
  <1>1. CASE app_exception_handler(c) \/ validation_exception_handler(c)
    <2>1. PICK status \in Int, code \in CATALOGUE : error_response(c, status, code)
      BY <1>1, CodesAreTranslated DEF app_exception_handler, validation_exception_handler, CATALOGUE
    <2>2. /\ phase[c] = "raised" /\ phase' = [phase EXCEPT ![c] = "responded"]
          /\ raised[c] \in DOMAIN AppException \cup {"RequestValidationError"}
          /\ UNCHANGED <<header, context, locale, raised>>
      BY <1>1 DEF app_exception_handler, validation_exception_handler, Goto
    <2>3. Bound(c)
      BY <1>0, <2>2 DEF Stage
    <2>4. raised[c] \notin Uncaught \cup {"HTTPException"}
      BY <2>2 DEF AppException, Uncaught
    <2>5. TypeOK'
      BY <1>0, <2>1, <2>2, <2>3, AnswerInLocale DEF TypeOK, Phase
    <2>6. Others(c)
      BY <1>0, <2>1, <2>2, <2>3, AnswerInLocale DEF TypeOK, Others
    <2>7. Stage(c)'
      <3>1. phase'[c] = "responded"
        BY <1>0, <2>2 DEF TypeOK
      <3>2. response'[c].language = locale[c]
        BY <2>1, <2>3, AnswerInLocale
      <3> QED
        BY <2>2, <2>3, <2>4, <3>1, <3>2 DEF Stage, Bound, Told
    <2> QED
      BY <2>5, <2>6, <2>7, StageFrame DEF IInv
  <1>2. CASE HTTPExceptionHandler(c)
    <2>1. PICK status \in {404, 405} :
            response' = [response EXCEPT ![c] =
              [@ EXCEPT !.status = status, !.language = "en"]]
      BY <1>2 DEF HTTPExceptionHandler
    <2>2. TypeOK'
      <3>1. [response[c] EXCEPT !.status = status, !.language = "en"] \in Response
        <4>1. response[c] \in Response /\ status \in Int /\ "en" \in SUPPORTED_LOCALES
          BY <1>0, <2>1 DEF TypeOK, SUPPORTED_LOCALES
        <4>2. [response[c] EXCEPT !.status = status, !.language = "en"] \in Response
          BY <4>1 DEF Response
        <4> QED
          BY <4>2
      <3> QED
        BY <1>0, <1>2, <2>1, <3>1 DEF TypeOK, HTTPExceptionHandler, Goto, Phase
    <2>3. Others(c)
      BY <1>0, <1>2, <2>1 DEF TypeOK, HTTPExceptionHandler, Goto, Others
    <2>4. Stage(c)'
      BY <1>0, <1>2, <2>1
      DEF TypeOK, HTTPExceptionHandler, Goto, Stage, Bound, Told, Uncaught, Response
    <2> QED
      BY <2>2, <2>3, <2>4, StageFrame DEF IInv
  <1>3. CASE Escape(c)
    <2>1. TypeOK'
      BY <1>0, <1>3 DEF TypeOK, Escape, Goto, Phase
    <2>2. Others(c)
      BY <1>0, <1>3 DEF TypeOK, Escape, Goto, Others
    <2>3. Stage(c)'
      BY <1>0, <1>3 DEF TypeOK, Escape, Goto, Stage, Bound, Unnamed, Uncaught
    <2> QED
      BY <2>1, <2>2, <2>3, StageFrame DEF IInv
  <1>4. CASE unhandled_exception_handler(c)
    <2>1. 500 \in Int /\ "INTERNAL_ERROR" \in CATALOGUE
      BY DEF CATALOGUE
    <2>2. Bound(c) /\ raised[c] \in Uncaught /\ Unnamed(c)
      BY <1>0, <1>4 DEF Stage, unhandled_exception_handler
    <2>3. /\ response' \in [Connection -> Response]
          /\ response'[c].language = locale[c]
          /\ response'[c].content_language = NoLocale
          /\ \A d \in Connection \ {c} : response'[d] = response[d]
      BY <1>4, <2>1, <2>2, AnswerInLocale DEF unhandled_exception_handler, Unnamed
    <2>4. TypeOK'
      BY <1>0, <1>4, <2>3 DEF TypeOK, unhandled_exception_handler, Goto, Phase
    <2>5. Others(c)
      BY <1>0, <1>4, <2>3 DEF TypeOK, unhandled_exception_handler, Goto, Others
    <2>6. Stage(c)'
      BY <1>0, <1>4, <2>2, <2>3
      DEF TypeOK, unhandled_exception_handler, Goto, Stage, Told, Uncaught
    <2> QED
      BY <2>4, <2>5, <2>6, StageFrame DEF IInv
  <1> QED
    BY <1>1, <1>2, <1>3, <1>4 DEF Handle

LEMMA HeadersKeep == ASSUME IInv, NEW c \in Connection, AddHeaders(c) PROVE IInv'
  <1>0. TypeOK /\ Stage(c)
    BY DEF IInv
  <1>1. TypeOK'
    BY <1>0 DEF TypeOK, AddHeaders, Goto, Phase, Response
  <1>2. Others(c)
    BY <1>0 DEF TypeOK, AddHeaders, Goto, Others
  <1>3. Stage(c)'
    <2>1. phase'[c] = "sent" /\ raised' = raised /\ locale' = locale
      BY <1>0 DEF TypeOK, AddHeaders, Goto
    <2>2. /\ response'[c].content_language = locale[c]
          /\ response'[c].language = response[c].language
      BY <1>0 DEF TypeOK, AddHeaders, Response
    <2>3. raised[c] # "nothing" => raised[c] \notin Uncaught /\ Told(c)
      BY <1>0 DEF AddHeaders, Stage
    <2> QED
      BY <2>1, <2>2, <2>3 DEF Stage, Told
  <1> QED
    BY <1>1, <1>2, <1>3, StageFrame DEF IInv

LEMMA InvStep == IInv /\ [Next]_vars => IInv'
  <1> SUFFICES ASSUME IInv, [Next]_vars PROVE IInv'
    OBVIOUS
  <1>1. ASSUME NEW c \in Connection,
               \/ Arrive(c) \/ Dispatch(c) \/ Respond(c) \/ Raise(c)
               \/ Handle(c) \/ AddHeaders(c)
        PROVE  IInv'
    BY <1>1, ArriveKeeps, DispatchKeeps, ReturnKeeps, HandleKeeps, HeadersKeep
  <1>2. CASE UNCHANGED vars
    BY <1>2 DEF vars, IInv, TypeOK, Stage, Bound, Unnamed, Told
  <1> QED
    BY <1>1, <1>2 DEF Next

(* Every request past the middleware's first lines is in a task that knows *)
(* its locale, and every response says what its stage has put into it.     *)
THEOREM ResponsesInvariant == Spec => []IInv
  <1> QED
    BY InvInit, InvStep, PTL DEF Spec

-----------------------------------------------------------------------------

(* However many connections are served at once, and whatever a task has    *)
(* inherited, an error is told in the language of its own request, and the *)
(* response names that language, unless the error escapes the middleware.  *)
THEOREM ErrorsInLocale == Spec => []ErrorsSpeakTheLocale
  <1>1. IInv => ErrorsSpeakTheLocale
    BY DEF IInv, Stage, ErrorsSpeakTheLocale, Told, Uncaught
  <1> QED
    BY <1>1, ResponsesInvariant, PTL

(* Whatever the header, and however many parts it has, the locale is the   *)
(* supported one it gives the greatest weight, and the first of those.     *)
THEOREM LocaleChosen == Spec => LocaleIsBest
  <1> DEFINE Chosen ==
        \A c \in Connection :
          phase[c] = "arrived" /\ phase'[c] # "arrived" => IsBest(header[c], locale'[c])
  <1>1. ASSUME IInv, [Next]_vars PROVE Chosen
    <2> SUFFICES ASSUME NEW c \in Connection, phase[c] = "arrived", phase'[c] # "arrived"
                 PROVE  IsBest(header[c], locale'[c])
      OBVIOUS
    <2>0. TypeOK
      BY <1>1 DEF IInv
    <2>1. PICK d \in Connection :
            \/ Arrive(d) \/ Dispatch(d) \/ Respond(d) \/ Raise(d)
            \/ Handle(d) \/ AddHeaders(d)
      BY <1>1 DEF Next, vars
    <2>2. PICK p : Goto(d, p)
      BY <2>1 DEF Arrive, Dispatch, Respond, Raise, Handle, AddHeaders, app_exception_handler,
                  validation_exception_handler, HTTPExceptionHandler, Escape,
                  unhandled_exception_handler
    <2>3. d = c
      BY <2>0, <2>2 DEF TypeOK, Goto
    <2>4. Dispatch(c)
      BY <2>1, <2>3 DEF Arrive, Respond, Raise, Handle, AddHeaders, app_exception_handler,
                        validation_exception_handler, HTTPExceptionHandler, Escape,
                        unhandled_exception_handler
    <2>5. locale'[c] = resolve_locale(header[c]) /\ header[c] \in Seq(Part)
      BY <2>0, <2>4 DEF Dispatch, TypeOK
    <2> QED
      BY <2>5, LocaleIsSupported
  <1>2. IInv /\ [Next]_vars => [Chosen]_vars
    BY <1>1
  <1> QED
    BY <1>2, ResponsesInvariant, PTL DEF Spec, LocaleIsBest
=============================================================================

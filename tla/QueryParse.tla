----------------------------- MODULE QueryParse -----------------------------
(***************************************************************************)
(* The Version & Policy Resolver: parseOTRQueryMessage turns the bytes of *)
(* a query message into the list of versions it advertises, and           *)
(* acceptOTRRequest picks the version a conversation answers with.        *)
(*                                                                         *)
(* A message is a sequence of one-character strings.  Every query starts *)
(* with the marker "?OTR" (isQueryMessage, src/context.go:83-87); what    *)
(* follows is "?" for v1, then "v" and the version digits up to the next  *)
(* "?".                                                                    *)
(***************************************************************************)
EXTENDS Integers, SequencesExt

QueryMarker == <<"?", "O", "T", "R">>

\* The value of a version digit.
DigitValue == [d \in {"0", "1", "2", "3", "4", "5", "6", "7", "8", "9"} |->
                 CHOOSE n \in 0..9 :
                   <<"0", "1", "2", "3", "4", "5", "6", "7", "8", "9">>[n + 1] = d]

IsDigit(c) == c \in DOMAIN DigitValue

\* isQueryMessage: the bytes start with the query marker.
IsQueryMessage(msg) == IsPrefix(QueryMarker, msg)

\* The digits after "v", one version each, up to the first non-digit: the
\* terminating "?" or the end of the message.
RECURSIVE VersionDigits(_)
VersionDigits(s) ==
    IF s = <<>> \/ ~IsDigit(Head(s)) THEN <<>>
    ELSE <<DigitValue[Head(s)]>> \o VersionDigits(Tail(s))

\* parseOTRQueryMessage: "?" right after the marker advertises v1, then a
\* "v" opens the list of version digits.
ParseOTRQueryMessage(msg) ==
    LET body   == SubSeq(msg, Len(QueryMarker) + 1, Len(msg))
        v1     == body # <<>> /\ Head(body) = "?"
        vpart  == IF v1 THEN Tail(body) ELSE body
    IN  (IF v1 THEN <<1>> ELSE <<>>)
        \o (IF vpart # <<>> /\ Head(vpart) = "v" THEN VersionDigits(Tail(vpart))
            ELSE <<>>)

\* acceptOTRRequest: v3 if advertised and allowed, else v2, else none (0:
\* errInvalidVersion).
AcceptOTRRequest(allowed, advertised) ==
    IF 3 \in allowed \cap advertised THEN 3
    ELSE IF 2 \in allowed \cap advertised THEN 2
    ELSE 0

\* The query of a conversation's user, as the characters of a string.
Chars(str) == [i \in 1..Len(str) |-> SubSeq(str, i, i)]

\* Test_parseOTRQueryMessage (src/unnamed/part_000:58-73).
ParseVectors ==
    {<<"?OTR?", <<1>>>>, <<"?OTRv2?", <<2>>>>, <<"?OTRv23?", <<2, 3>>>>,
     <<"?OTR?v2", <<1, 2>>>>, <<"?OTRv248?", <<2, 4, 8>>>>,
     <<"?OTR?v?", <<1>>>>, <<"?OTRv?", <<>>>>}

ASSUME \A t \in ParseVectors :
    IsQueryMessage(Chars(t[1])) /\ ParseOTRQueryMessage(Chars(t[1])) = t[2]
=============================================================================

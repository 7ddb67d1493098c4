----------------------------- MODULE HttpMessage -----------------------------
(* web/HttpMessage.hpp: what parseRequest() makes of the requests a client      *)
(* writes, whole or cut off by a connection that closes or a read that returns  *)
(* early. The socket is external: the server that will own it has no code yet.  *)
(*                                                                             *)
(* A message is a sequence of characters, of a small alphabet: CR and LF, the   *)
(* separators, the hexadecimal digits of their escapes, letters of both cases,  *)
(* and two tokens for the version. Trimming knows of three spaces.              *)
EXTENDS Naturals, Sequences, SequencesExt

CONSTANT MaxSize   \* bound: characters of data in a request

ASSUME SizeAssumption == MaxSize \in Nat

Data == {"a", "2", "%", "&", "=", "+", "?", " "}
Escapes == [c \in {"%", "&", "=", "+", " "} |->
    CASE c = "%" -> <<"2", "5">> [] c = "&" -> <<"2", "6">> [] c = "=" -> <<"3", "D">>
      [] c = "+" -> <<"2", "B">> [] c = " " -> <<"2", "0">>]

EOL == <<"CR", "LF">>
Version == <<"HTTP/", "1.">>
Method == <<"GET">>
Path == <<"/", "a">>

-----------------------------------------------------------------------------
(* std::string: find from a position, 0 for npos; substr to an end.             *)
Find(s, w, from) ==
    LET hits == {i \in from..(Len(s) - Len(w) + 1) : SubSeq(s, i, i + Len(w) - 1) = w}
    IN IF hits = {} THEN 0 ELSE CHOOSE i \in hits : \A j \in hits : i <= j

(* The loops over "\r\n" and '&': the pieces between the separators.            *)
Split(s, w) ==
    LET pieces[i \in 1..(Len(s) + 1)] ==
            LET end == Find(s, w, i)
            IN IF end = 0 THEN <<SubSeq(s, i, Len(s))>>
               ELSE <<SubSeq(s, i, end - 1)>> \o pieces[end + Len(w)]
    IN pieces[1]

(* What stands before the first `w`, or all; what stands after it, or nothing.  *)
Before(s, w) == LET i == Find(s, w, 1) IN IF i = 0 THEN s ELSE SubSeq(s, 1, i - 1)
After(s, w) == LET i == Find(s, w, 1) IN IF i = 0 THEN <<>> ELSE SubSeq(s, i + Len(w), Len(s))

Lower(s) == [i \in 1..Len(s) |-> IF s[i] = "A" THEN "a" ELSE s[i]]

Trim(s) ==
    LET solid == {i \in 1..Len(s) : s[i] \notin {" ", "CR", "LF"}}
    IN IF solid = {} THEN <<>>
       ELSE SubSeq(s, CHOOSE i \in solid : \A j \in solid : i <= j,
                      CHOOSE i \in solid : \A j \in solid : i >= j)

(* strtol of two hexadecimal digits; any byte outside the alphabet is one.      *)
Byte(hex) ==
    IF \E c \in DOMAIN Escapes : Escapes[c] = hex
    THEN CHOOSE c \in DOMAIN Escapes : Escapes[c] = hex ELSE "byte"

(* Mutant: an escape at the very end is not seen (i + 3 < size).                *)
DecodeShort(s) ==
    LET from[i \in 1..(Len(s) + 3)] ==
            IF i > Len(s) THEN <<>>
            ELSE IF s[i] = "+" THEN <<" ">> \o from[i + 1]
            ELSE IF s[i] = "%" /\ i + 2 < Len(s)
                 THEN <<Byte(<<s[i + 1], s[i + 2]>>)>> \o from[i + 3]
            ELSE <<s[i]>> \o from[i + 1]
    IN from[1]

Decode(s) ==
    LET from[i \in 1..(Len(s) + 3)] ==
            IF i > Len(s) THEN <<>>
            ELSE IF s[i] = "+" THEN <<" ">> \o from[i + 1]
            ELSE IF s[i] = "%" /\ i + 2 <= Len(s)
                 THEN <<Byte(<<s[i + 1], s[i + 2]>>)>> \o from[i + 3]
            ELSE <<s[i]>> \o from[i + 1]
    IN from[1]

(* std::map assignment, entry by entry: the last of a name stays.               *)
Assign(entries) ==
    LET names == {entries[i].name : i \in DOMAIN entries}
    IN [n \in names |-> entries[CHOOSE i \in DOMAIN entries :
            entries[i].name = n /\ \A j \in DOMAIN entries : entries[j].name = n => j <= i].value]

ParseQuery(target) ==
    LET query == IF Find(target, <<"?">>, 1) = 0 THEN target ELSE After(target, <<"?">>)
        pairs == SelectSeq(Split(query, <<"&">>), LAMBDA p : p # <<>>)
    IN Assign([i \in DOMAIN pairs |->
           [name |-> Decode(Before(pairs[i], <<"=">>)), value |-> Decode(After(pairs[i], <<"=">>))]])

Rejected == [ok |-> FALSE]

(* Mutant: a request without a version (HTTP/0.9) is let through.               *)
VersionLoose(s) == s = <<>> \/ IsPrefix(Version, s)
VersionOk(s) == IsPrefix(Version, s)

Parse(raw) ==
    LET head == Before(raw, EOL \o EOL)
        line == Before(head, EOL)
        rest == After(line, <<" ">>)
        target == Before(rest, <<" ">>)
        lines == SelectSeq(Tail(Split(head, EOL)), LAMBDA l : l # <<>>)
        names == [i \in DOMAIN lines |-> Lower(Trim(Before(lines[i], <<":">>)))]
    IN IF \/ Before(line, <<" ">>) = <<>> \/ target = <<>> \/ Head(target) # "/"
          \/ ~VersionOk(After(rest, <<" ">>))
          \/ \E i \in DOMAIN lines : Find(lines[i], <<":">>, 1) = 0 \/ names[i] = <<>>
       THEN Rejected
       ELSE [ok |-> TRUE, method |-> Before(line, <<" ">>), path |-> Before(target, <<"?">>),
             query |-> IF Find(target, <<"?">>, 1) = 0 THEN <<>> ELSE ParseQuery(target),
             headers |-> Assign([i \in DOMAIN lines |->
                 [name |-> names[i], value |-> Trim(After(lines[i], <<":">>))]]),
             body |-> After(raw, EOL \o EOL)]

-----------------------------------------------------------------------------
(* A client, which escapes what it has to.                                     *)
VARIABLES
    pairs,     \* of the query: a sequence of names and values
    headers,   \* a sequence of names and values
    body,
    phase,     \* building, sent, cut
    wire       \* what has reached the parser

vars == <<pairs, headers, body, phase, wire>>

Words == {<<>>} \cup {<<c>> : c \in Data} \cup {<<"%", c>> : c \in Data} \cup {<<c, "a">> : c \in Data}
Fields == [name : {<<"a">>, <<"A", "b">>}, value : {<<>>, <<"a">>, <<":", " ", "a">>}]
Bodies == {<<"a", "=", "2">>, EOL \o EOL}

Size(fields) == FoldLeft(LAMBDA n, f : n + Len(f.name) + Len(f.value), 0, fields)

Init ==
    /\ pairs = <<>> /\ headers = <<>> /\ body = <<>>
    /\ phase = "building"
    /\ wire = <<>>

AddPair(pair) ==
    /\ phase = "building"
    /\ Size(pairs) + Size(<<pair>>) <= MaxSize
    /\ Len(pairs) < 2 /\ headers = <<>>
    /\ pairs' = Append(pairs, pair)
    /\ UNCHANGED <<headers, body, phase, wire>>

AddHeader(field) ==
    /\ phase = "building"
    /\ Len(headers) < 2 /\ Size(pairs) <= 1 /\ body = <<>>
    /\ headers' = Append(headers, field)
    /\ UNCHANGED <<pairs, body, phase, wire>>

SetBody(text) ==
    /\ phase = "building" /\ body = <<>> /\ Size(pairs) <= 1
    /\ body' = text
    /\ UNCHANGED <<pairs, headers, phase, wire>>

(* Form encoding writes a space as '+', percent encoding as %20; both are sent. *)
Encode(s, form) ==
    FlattenSeq([i \in DOMAIN s |->
        IF s[i] = " " /\ form THEN <<"+">>
        ELSE IF s[i] \in DOMAIN Escapes THEN <<"%">> \o Escapes[s[i]] ELSE <<s[i]>>])

Wire(form) ==
    LET query == [i \in DOMAIN pairs |->
                    (IF i = 1 THEN <<"?">> ELSE <<"&">>)
                    \o Encode(pairs[i].name, form) \o <<"=">> \o Encode(pairs[i].value, form)]
        lines == [i \in DOMAIN headers |->
                    headers[i].name \o <<":", " ">> \o headers[i].value \o EOL]
    IN Method \o <<" ">> \o Path \o FlattenSeq(query) \o <<" ">> \o Version \o <<"1">> \o EOL
       \o FlattenSeq(lines) \o EOL \o body

Send(form) ==
    /\ phase = "building"
    /\ phase' = "sent"
    /\ wire' = Wire(form)
    /\ UNCHANGED <<pairs, headers, body>>

Cut(n) ==
    /\ phase = "sent"
    /\ n < Len(wire)
    /\ phase' = "cut"
    /\ wire' = SubSeq(wire, 1, n)
    /\ UNCHANGED <<pairs, headers, body>>

Next ==
    \/ \E pair \in [name : Words, value : Words] : AddPair(pair)
    \/ \E field \in Fields : AddHeader(field)
    \/ \E text \in Bodies : SetBody(text)
    \/ \E form \in BOOLEAN : Send(form)
    \/ \E n \in 0..Len(wire) : Cut(n)

Spec == Init /\ [][Next]_vars

-----------------------------------------------------------------------------
LastOf(fields, Name(_)) ==
    FoldLeft(LAMBDA map, f : (Name(f.name) :> f.value) @@ map, <<>>, fields)

(* parseRequest() gives back what the client wrote: the pairs of the query with *)
(* their escapes undone, the headers under their lower-case names without the   *)
(* spaces around their values, the last of a name, and the body as it is.       *)
ParsesWhatWasSent ==
    phase = "sent" =>
        Parse(wire) = [ok |-> TRUE, method |-> Method, path |-> Path,
                       query |-> LastOf(pairs, LAMBDA n : n),
                       headers |-> LastOf(headers, Lower), body |-> body]

(* A request that was cut off may be taken for a whole one, as no end of the    *)
(* head is asked for and no length of the body; but then it is a request for    *)
(* what the client asked for: method, path and query are complete, each header  *)
(* is one that was sent, and a value or the body can only be too short.         *)
CutKeepsTheTarget ==
    phase = "cut" /\ Parse(wire).ok =>
        LET got == Parse(wire)
        IN /\ got.method = Method /\ got.path = Path
           /\ got.query = LastOf(pairs, LAMBDA n : n)
           /\ \A n \in DOMAIN got.headers : \E i \in DOMAIN headers :
                Lower(headers[i].name) = n /\ IsPrefix(got.headers[n], headers[i].value)
           /\ IsPrefix(got.body, body)

=============================================================================

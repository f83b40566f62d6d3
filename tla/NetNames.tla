------------------------------- MODULE NetNames -------------------------------
(***************************************************************************)
(* Names and addresses in the network of 25-osfs11 and of noxis: the three *)
(* parsers of a.b.c.d, and the messages to and from the name server        *)
(* (net/dns.c).  A character is a number: a digit itself, 10 the dot, 11   *)
(* any other.  A packet is a sequence of bytes.                            *)
(***************************************************************************)
EXTENDS Integers, Sequences, SequencesExt

CONSTANTS
  WordTyped,      \* what is typed between the dots of a name
  MaxWords,       \* bound on a name
  LABEL_MAX, NAME_MAX, QUERY_CAP,  \* 63, 200, 300
  NamesAnswered,  \* the names the name server is asked for
  RecordsSent     \* what it answers with: aliases, "CNAME", and addresses, "A" and "A2"
ASSUME NetNamesAssumption ==
  /\ {MaxWords, LABEL_MAX, NAME_MAX, QUERY_CAP} \subseteq Nat
  /\ \A w \in WordTyped : w \in Seq(0 .. 9 \cup {11})

VARIABLES
  name_typed,  \* the name, as its words
  records,     \* the records of the answer
  bytes_in     \* how many bytes of it have arrived
netNamesVars == <<name_typed, records, bytes_in>>

DOT == 10
EndOfName == 12
Name(words) ==
  IF words = <<>> THEN <<>>
  ELSE FoldLeft(LAMBDA s, w : s \o <<DOT>> \o w, Head(words), Tail(words))
Number(digits) == FoldLeft(LAMBDA v, d : v * 10 + d, 0, digits)

(***************************************************************************)
(* "a.b.c.d": a number and, but for the last, a dot; four times.           *)
(***************************************************************************)
Digits(s) ==
  LET d == {i \in 1 .. Len(s) : s[i] > 9} IN
  IF d = {} THEN s ELSE SubSeq(s, 1, (CHOOSE i \in d : \A j \in d : i <= j) - 1)
Refused == [ok |-> FALSE, ip |-> <<>>, rest |-> <<>>]
Part4(st, part) ==
  LET v == Digits(st.rest)
      after == SubSeq(st.rest, Len(v) + 1, Len(st.rest)) IN
  IF \/ ~ st.ok \/ v = <<>> \/ Len(v) > 3 \/ Number(v) > 255
     \/ part < 4 /\ (after = <<>> \/ after[1] # DOT)
    THEN Refused
    ELSE [ok |-> TRUE, ip |-> Append(st.ip, Number(v)), rest |-> IF part < 4 THEN Tail(after) ELSE after]
parse_ip(s) ==
  LET st == FoldLeft(Part4, [ok |-> TRUE, ip |-> <<>>, rest |-> s], <<1, 2, 3, 4>>)
  IN  IF st.ok /\ st.rest = <<>> THEN st.ip ELSE <<>>
\* what `ping' of the desktop pings at once; it asks NET to resolve the rest
term_ping(arg) == parse_ip(arg)

(***************************************************************************)
(* The query: 12 bytes, the labels each after its length, 0, and 4 bytes.  *)
(***************************************************************************)
QueryHeader == <<0, 1, 1, 0, 0, 1, 0, 0, 0, 0, 0, 0>>
ClassIn == <<0, 1>>
Label(st, i, name, nlen) ==
  IF ~ st.ok \/ name[i] \notin {DOT, EndOfName} THEN st
  ELSE LET label == SubSeq(name, st.label, i - 1)
           q == st.q \o <<Len(label)>> \o label IN
       [ok |-> label # <<>> /\ Len(label) <= LABEL_MAX /\ Len(q) + nlen + 6 <= QUERY_CAP,
        q |-> q, label |-> i + 1]
dns_query_build(name) ==
  LET nlen == Len(name)
      st == FoldLeft(LAMBDA acc, i : Label(acc, i, Append(name, EndOfName), nlen),
                     [ok |-> nlen \in 1 .. NAME_MAX, q |-> QueryHeader, label |-> 1],
                     [i \in 1 .. nlen + 1 |-> i])
  IN  IF st.ok THEN st.q \o <<0>> \o <<0, 1>> \o ClassIn ELSE <<>>
\* what becomes of a name that NET is asked to resolve
net_do_resolve(name) ==
  IF parse_ip(name) # <<>> THEN "address" ELSE IF dns_query_build(name) # <<>> THEN "query" ELSE "none"

(***************************************************************************)
(* The answer.  Offsets count from 0; the first len bytes have arrived.    *)
(***************************************************************************)
Pointer == 192
Byte(p, off) == p[off + 1]
Word16(p, off) == 256 * Byte(p, off) + Byte(p, off + 1)
dns_skip_name(p, len, from) ==
  LET After[off \in Nat] ==
        IF off >= len THEN len
        ELSE IF Byte(p, off) = 0 THEN off + 1
        ELSE IF Byte(p, off) >= Pointer THEN (IF off + 2 < len THEN off + 2 ELSE len)
        ELSE After[off + 1 + Byte(p, off)]
  IN  After[from]
Ignored == [done |-> FALSE, ip |-> <<>>]
NoAddress == [done |-> TRUE, ip |-> <<>>]
\* the answers from off on, left of them to come
\* Mutation: an answer that is not an address is not passed over.
NextAnswerHere(saved, rdlen) == saved
NextAnswer(saved, rdlen) == saved + rdlen
AnswerAt(p, len, an, from) ==
  LET Answer[left \in Nat, off \in Nat] ==
        IF left = 0 \/ off + 12 > len THEN NoAddress
        ELSE LET fields == dns_skip_name(p, len, off) IN
             IF fields + 10 > len THEN Ignored
             ELSE IF Word16(p, fields) = 1 /\ Word16(p, fields + 8) = 4 /\ fields + 14 <= len
               THEN [done |-> TRUE, ip |-> SubSeq(p, fields + 11, fields + 14)]
             ELSE Answer[left - 1, NextAnswer(fields + 10, Word16(p, fields + 8))]
  IN  Answer[an, from]
dns_input(p, len) ==
  IF len < 12 \/ Byte(p, 2) < 128 THEN Ignored
  ELSE IF Byte(p, 3) % 16 # 0 \/ Word16(p, 6) = 0 THEN NoAddress
  ELSE AnswerAt(p, len, Word16(p, 6), dns_skip_name(p, len, 12) + 4)

UDP_HEADER == 8
udp_send(payload) == <<0, 53, 0, 53, 0, UDP_HEADER + Len(payload), 0, 0>> \o payload
udp_input(p, len) ==
  LET clen == Word16(p, 4) - UDP_HEADER IN
  IF len < UDP_HEADER THEN Ignored
  ELSE dns_input(SubSeq(p, UDP_HEADER + 1, Len(p)), IF clen > len - UDP_HEADER THEN len - UDP_HEADER ELSE clen)

\* the name server: the question, and the records, each with a pointer to it
Record(kind) ==
  <<Pointer, 12>> \o <<0, IF kind = "CNAME" THEN 5 ELSE 1>> \o ClassIn \o <<0, 0, 0, 9>>
    \o IF kind = "CNAME" THEN <<0, 5, 2, 11, 11, Pointer, 12>>
       ELSE <<0, 4, 10, 0, 2, IF kind = "A" THEN 7 ELSE 8>>
ServerAnswer(name, recs) ==
  <<0, 1, 129, IF recs = <<>> THEN 3 ELSE 128, 0, 1, 0, Len(recs), 0, 0, 0, 0>>
    \o SubSeq(dns_query_build(name), 13, Len(dns_query_build(name)))
    \o FoldLeft(LAMBDA s, r : s \o Record(r), <<>>, recs)
AnswerPacket == udp_send(ServerAnswer(Name(name_typed), records))

type_word(w) ==
  /\ Len(name_typed) < MaxWords /\ bytes_in = 0 /\ name_typed' = Append(name_typed, w)
  /\ UNCHANGED <<records, bytes_in>>
answer_arrives(recs) ==
  /\ name_typed \in NamesAnswered /\ bytes_in = 0 /\ net_do_resolve(Name(name_typed)) = "query"
  /\ records' = recs
  /\ bytes_in' \in 1 .. Len(udp_send(ServerAnswer(Name(name_typed), recs)))
  /\ UNCHANGED name_typed
NetNamesInit == name_typed = <<>> /\ records = <<>> /\ bytes_in = 0
NetNamesNext == (\E w \in WordTyped : type_word(w)) \/ \E recs \in RecordsSent : answer_arrives(recs)
-----------------------------------------------------------------------------
(* Properties *)

(* What is taken for an address is four numbers up to 255, of one to three *)
(* digits; everything else is a name (desktop.c:415, net/main.c:72-110).   *)
IsQuad(words) ==
  Len(words) = 4 /\ \A i \in 1 .. 4 : Len(words[i]) \in 1 .. 3 /\ Digits(words[i]) = words[i]
                                      /\ Number(words[i]) <= 255
QuadsAreNumbers ==
  term_ping(Name(name_typed)) = IF IsQuad(name_typed) THEN [i \in 1 .. 4 |-> Number(name_typed[i])] ELSE <<>>

(* A query stays in its buffer and holds the name: passing over it as the  *)
(* answer's reader does ends before type and class, and the labels are the *)
(* words.  A name is refused only for a label that is empty or too long,   *)
(* or when twice its length, which is what is tested, does not fit         *)
(* (dns.c:85-118).                                                         *)
QueryIsName ==
  LET name == Name(name_typed)
      query == dns_query_build(name)
      labels == FoldLeft(LAMBDA s, w : s \o <<Len(w)>> \o w, QueryHeader, name_typed)
  IN  IF \A i \in DOMAIN name_typed : Len(name_typed[i]) \in 1 .. LABEL_MAX
        THEN IF name # <<>> /\ Len(name) <= NAME_MAX /\ 2 * Len(name) + 19 <= QUERY_CAP
               THEN /\ Len(query) <= QUERY_CAP /\ dns_skip_name(query, Len(query), 12) = Len(query) - 4
                    /\ SubSeq(query, 1, Len(labels)) = labels
               ELSE query = <<>>
        ELSE query = <<>>

(* The address that is taken is that of the first address record, behind   *)
(* any number of aliases; of an answer that has been cut short the same    *)
(* one or none is taken (dns.c:60-71, 141-200).                            *)
AnswerTaken ==
  bytes_in > 0 =>
    LET taken == udp_input(AnswerPacket, bytes_in) IN
    /\ taken.ip \in {<<>>, <<10, 0, 2, 7>>}
    /\ bytes_in = Len(AnswerPacket) =>
         taken.done /\ (taken.ip # <<>> <=> \E i \in DOMAIN records : records[i] = "A")

(* What the user types reaches the name server, and its answer comes back  *)
(* (desktop.c:415, dns.c:60-200).                                          *)
NamesRead == QuadsAreNumbers /\ QueryIsName /\ AnswerTaken
=============================================================================

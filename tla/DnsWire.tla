------------------------------ MODULE DnsWire ------------------------------
(***************************************************************************)
(* dns.rs: the questions of a DNS query, and the refusal that repeats      *)
(* them.  A query is its header and the bytes that follow it.              *)
(***************************************************************************)
EXTENDS Integers, Sequences, SequencesExt

Fail == [ok |-> FALSE, labels |-> << >>, next |-> 0]

\* Bytes of ASCII capitals.
Capitals == 65 .. 90
Lower(label) == [n \in DOMAIN label |-> IF label[n] \in Capitals THEN label[n] + 32 ELSE label[n]]

\* A byte more than its label for each.
total_len(labels) ==
  LET upto[n \in 0 .. Len(labels)] == IF n = 0 THEN 0 ELSE upto[n - 1] + Len(labels[n]) + 1
  IN  upto[Len(labels)]

\* No compression pointer, and none of the reserved forms.
parse_qname(bytes, offset) ==
  LET from[o \in 1 .. Len(bytes) + 1] ==
        LET end == o + bytes[o]
            rest == from[end + 1]
        IN  IF o > Len(bytes) \/ bytes[o] > 63 THEN Fail
            ELSE IF bytes[o] = 0 THEN [ok |-> TRUE, labels |-> << >>, next |-> o + 1]
            ELSE IF end > Len(bytes) THEN Fail
            ELSE [ok |-> rest.ok, labels |-> <<Lower(SubSeq(bytes, o + 1, end))>> \o rest.labels, next |-> rest.next]
      name == from[offset]
  IN  IF name.ok /\ total_len(name.labels) <= 255 THEN name ELSE Fail

\* Every question of the header's count, each with its type and class after its name.
parse_dns_query(q) ==
  LET after[k \in 0 .. q.qdcount] ==
        LET acc == after[k - 1]
            name == parse_qname(q.bytes, acc.next)
        IN  IF k = 0 THEN [ok |-> q.qdcount > 0, next |-> 1, questions |-> << >>]
            ELSE IF acc.ok /\ name.ok /\ name.next + 3 <= Len(q.bytes)
              THEN [ok |-> TRUE, next |-> name.next + 4,
                    questions |-> Append(acc.questions, [name |-> name.labels,
                                                         type |-> SubSeq(q.bytes, name.next, name.next + 3)])]
            ELSE [acc EXCEPT !.ok = FALSE]
  IN  after[q.qdcount]

\* Mutant: what follows the questions is repeated too.
EchoAll(q) ==
  [q EXCEPT !.flags = [qr |-> TRUE, opcode |-> @.opcode, rd |-> @.rd, rcode |-> 5, others |-> FALSE],
            !.ancount = 0]

\* QR and the refusal are set; the opcode and RD stay, and the other flags go.
build_refused_response(q) ==
  LET parsed == parse_dns_query(q)
  IN  [q EXCEPT !.flags = [qr |-> TRUE, opcode |-> @.opcode, rd |-> @.rd, rcode |-> 5, others |-> FALSE],
                !.ancount = 0, !.bytes = SubSeq(@, 1, parsed.next - 1)]

-----------------------------------------------------------------------------

\* The bytes of a label, none of them the dot that joins labels to a name.
Labels == {l \in Seq(0 .. 255 \ {46}) : Len(l) \in 1 .. 255}

\* The wire form of a name, without its end, and of questions: a name, a zero, a type and a class.
WireName(labels) == FlattenSeq([j \in DOMAIN labels |-> <<Len(labels[j])>> \o labels[j]])
Wire(questions) == FlattenSeq([i \in DOMAIN questions |-> WireName(questions[i]) \o <<0, 0, 1, 0, 1>>])

Fits(questions) ==
  \A i \in DOMAIN questions :
    Len(WireName(questions[i])) <= 255 /\ \A j \in DOMAIN questions[i] : Len(questions[i][j]) <= 63

\* As asked, but for the capitals.
Asks(name, labels) ==
  /\ DOMAIN name = DOMAIN labels
  /\ \A j \in DOMAIN labels :
       /\ DOMAIN name[j] = DOMAIN labels[j]
       /\ \A n \in DOMAIN labels[j] :
            /\ name[j][n] \notin Capitals
            /\ name[j][n] = labels[j][n] \/ (labels[j][n] \in Capitals /\ name[j][n] = labels[j][n] + 32)

Query(questions, bytes) ==
  [id |-> 7, flags |-> [qr |-> FALSE, opcode |-> 2, rd |-> TRUE, rcode |-> 0, others |-> TRUE],
   qdcount |-> Len(questions), ancount |-> 1, bytes |-> bytes]

\* The names that are judged are the ones that are asked, in lower case and all of them; a
\* query cut short anywhere, or with a pointer where a length should be, or a name too long, is not
\* judged at all; and a refusal asks the same back, with nothing after it
\* (parse_dns_query, build_refused_response).
DnsRoundTrip(questions, extra, cut) ==
  LET wire == Wire(questions)
      q == Query(questions, wire \o extra)
      parsed == parse_dns_query(q)
      reply == build_refused_response(q)
  IN  /\ parsed.ok <=> Fits(questions) /\ questions # << >>
      /\ parsed.ok =>
           /\ \A i \in DOMAIN questions : Asks(parsed.questions[i].name, questions[i])
           /\ cut \in 1 .. Len(wire) =>
                ~parse_dns_query(Query(questions, SubSeq(wire, 1, Len(wire) - cut))).ok
           /\ questions[1] # << >> =>
                ~parse_dns_query(Query(questions, [wire EXCEPT ![1] = @ + 192])).ok
           /\ parse_dns_query(reply) = parsed
           /\ reply.bytes = wire /\ reply.id = q.id /\ reply.flags.qr /\ reply.flags.rcode = 5
           /\ reply.flags.opcode = q.flags.opcode
=============================================================================

------------------------------ MODULE Redactor ------------------------------
(***************************************************************************)
(* redactor.rs, which replaces secrets in a stream that arrives in pieces, *)
(* and the Encoder of encoder.rs, which puts every event through it.       *)
(*                                                                         *)
(* A text is a sequence of characters.  A secret has a value, a text, and  *)
(* a name, the character that stands for "<redacted:name>".                *)
(***************************************************************************)
EXTENDS Integers, Sequences, FiniteSets, SequencesExt

CONSTANT Characters   \* of a text, with what stands for a secret among them

ASSUME CharactersAssumption == {"quote", "\\", "newline", "n"} \subseteq Characters   \* JSON's own

\* Redactor::new refuses an empty value.
Accepted(secrets) == \A s \in secrets : s.value # << >>

\* What stands for a secret is no part of one.
Secrets == [name : Characters, value : Seq(Characters)]
Apart(secrets) == \A s, o \in secrets : \A i \in DOMAIN s.value : s.value[i] # o.name

Longest(secrets) == IF secrets = {} THEN 0 ELSE Max({Len(s.value) : s \in secrets})

\* The secrets that begin at a position.
At(text, i, secrets) ==
  {s \in secrets : i + Len(s.value) - 1 <= Len(text) /\ SubSeq(text, i, i + Len(s.value) - 1) = s.value}

\* Where in a text, from a position on, a secret begins; and the longest that begins there.
Begins(text, i, secrets) == {j \in i .. Len(text) : At(text, j, secrets) # {}}
LongestAt(text, i, secrets) ==
  CHOOSE s \in At(text, i, secrets) : \A o \in At(text, i, secrets) : Len(o.value) <= Len(s.value)

\* The loop over find_iter, which is Aho-Corasick's leftmost-longest matches: what it puts
\* out of a text, and where it stops.
replaced(text, secrets) ==
  LET from[i \in Nat] ==
        LET next == Begins(text, i, secrets)
            j == Min(next)
            s == LongestAt(text, j, secrets)
            rest == from[j + Len(s.value)]
        IN  IF next = {} THEN [out |-> << >>, pos |-> i]
            ELSE [out |-> SubSeq(text, i, j - 1) \o <<s.name>> \o rest.out, pos |-> rest.pos]
  IN  from[1]

\* Mutant: nothing is kept.
KeepNothing(tail, longest) == Len(tail)

\* The last longest - 1 characters may be the beginning of a secret.
safe_len(tail, longest) == Max({0, Len(tail) - (longest - 1)})

redact(pending, input, secrets) ==
  LET combined == pending \o input
      r == replaced(combined, secrets)
      tail == SubSeq(combined, r.pos, Len(combined))
      safe == safe_len(tail, Longest(secrets))
  IN  IF secrets = {} THEN [out |-> input, pending |-> pending]
      ELSE [out |-> r.out \o SubSeq(tail, 1, safe), pending |-> SubSeq(tail, safe + 1, Len(tail))]

\* What a stream becomes, with the flush at its end.
Streamed(chunks, secrets) ==
  LET after[n \in 0 .. Len(chunks)] ==
        IF n = 0 THEN [out |-> << >>, pending |-> << >>]
        ELSE LET d == redact(after[n - 1].pending, chunks[n], secrets)
             IN  [out |-> after[n - 1].out \o d.out, pending |-> d.pending]
      r == after[Len(chunks)]
  IN  r.out \o r.pending

\* serde_json: a quote, a backslash and a newline are written in two characters.
InJson(c) ==
  IF c \in {"quote", "\\"} THEN <<"\\", c>> ELSE IF c = "newline" THEN <<"\\", "n">> ELSE <<c>>
Escaped(text) == FlattenSeq([i \in DOMAIN text |-> InJson(text[i])])

\* A line, redacted and flushed.
emit(payload, secrets) == Streamed(<<Escaped(payload) \o <<"newline">>>>, secrets)

Within(text, value) == \E i \in 1 .. Len(text) - Len(value) + 1 : SubSeq(text, i, i + Len(value) - 1) = value

\* However a stream is cut, it is redacted as if it came whole, unless one secret lies
\* within another; and no event has a secret in it, wherever in its line, overlapping
\* others or not, unless JSON writes the secret in other characters (redact, emit).
RedactedWhole(chunks, secrets) ==
  LET text == FlattenSeq(chunks)
      plain(s) == Escaped(s.value) = s.value
  IN  Accepted(secrets) =>
        /\ (\A s, o \in secrets : s # o => ~Within(s.value, o.value)) =>
             Streamed(chunks, secrets) = Streamed(<<text>>, secrets)
        /\ \A s \in secrets : plain(s) => ~Within(emit(text, secrets), s.value)
=============================================================================

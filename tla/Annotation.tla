---------------------------- MODULE Annotation ----------------------------
(***************************************************************************)
(* What the salvage engine says of a scan's candidates once all are found  *)
(* (salvage.rs annotate_candidates): the status of each, whether it is a   *)
(* proven copy of an earlier one (`shadows`: same name, declared length    *)
(* and checksum), and whether an earlier one used its name                 *)
(* (`collides_with`).  A format's verdict on the bytes is in the candidate *)
(* as `verdict`; TarVerdict is the tar scanner's.                          *)
(***************************************************************************)
EXTENDS Naturals, Sequences, SequencesExt

CONSTANTS
    Ceiling,    \* min(policy.max_entry, scan.max_whole_entry)
    NoVerifier  \* the candidate carries no checksum

\* The ceiling is decided on the bytes there are, before any is read.
Status(c) ==
    IF (IF c.whole THEN c.declared ELSE c.available) > Ceiling THEN "overCeiling"
    ELSE c.verdict

Copy(c) == <<c.name, c.declared, c.verifier>>

\* A checksum of nothing proves nothing.
Degenerate(c) == c.declared = 0 \/ c.verifier = NoVerifier

\* One candidate, after those in acc: the maps keep the earliest position.
Annotate(acc, c) ==
    LET position == Len(acc.entries) + 1
        shadows == IF ~Degenerate(c) /\ Copy(c) \in DOMAIN acc.seen
                   THEN acc.seen[Copy(c)] ELSE 0
        earliest == IF c.name \in DOMAIN acc.names THEN acc.names[c.name] ELSE 0
    IN  [seen |-> IF Degenerate(c) \/ shadows # 0 THEN acc.seen
                  ELSE acc.seen @@ (Copy(c) :> position),
         names |-> acc.names @@ (c.name :> position),
         entries |-> Append(acc.entries,
            [status |-> Status(c), shadows |-> shadows,
             collides |-> IF shadows # 0 THEN 0 ELSE earliest])]

Annotated(candidates) ==
    FoldLeft(Annotate, [seen |-> <<>>, names |-> <<>>, entries |-> <<>>], candidates).entries

(***************************************************************************)
(* The reference: what each annotation claims of the whole list.           *)
(***************************************************************************)
\* A record is a shadow of the first of its copies, and only of a record that
\* is none itself; it collides with the first of its name, unless it is a
\* shadow; nothing over the ceiling was read.
AnnotatedRight(candidates) ==
    LET entries == Annotated(candidates)
        Earliest(n, Same(_, _)) ==
            LET earlier == {m \in 1 .. n - 1 : Same(candidates[m], candidates[n])}
            IN  IF earlier = {} THEN 0 ELSE CHOOSE m \in earlier : \A k \in earlier : m <= k
    IN  /\ Len(entries) = Len(candidates)
        /\ \A n \in DOMAIN candidates :
              LET c == candidates[n] IN
              /\ entries[n].shadows =
                    IF Degenerate(c) THEN 0
                    ELSE Earliest(n, LAMBDA x, y : Copy(x) = Copy(y))
              /\ entries[n].shadows # 0 => entries[entries[n].shadows].shadows = 0
              /\ entries[n].collides =
                    IF entries[n].shadows # 0 THEN 0
                    ELSE Earliest(n, LAMBDA x, y : x.name = y.name)
              /\ entries[n].status = "overCeiling" <=>
                    (c.whole /\ c.declared > Ceiling) \/ (~c.whole /\ c.available > Ceiling)
=============================================================================

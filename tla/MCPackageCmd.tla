---------------------------- MODULE MCPackageCmd ----------------------------
(* Three commands: two whose output is captured, one of which may fail     *)
(* quietly, and one that is not captured but may inherit their pipes.      *)
EXTENDS PackageCmd

\* AreLines, as a loop over the output would find the lines.
LinesOf(out) ==
    LET all == FoldLeft(LAMBDA ls, c : IF c = "newline"
                          THEN Append(ls, <<>>)
                          ELSE [ls EXCEPT ![Len(ls)] = Append(@, c)], << <<>> >>, out)
    IN  IF Last(all) = <<>> THEN Front(all) ELSE all

UpTo(S, n) == UNION {[1 .. k -> S] : k \in 0 .. n}

ASSUME LinesAgree ==
    \A out \in UpTo(Tokens, 3) : \A lines \in UpTo(UpTo(Tokens, 2) \cup {<<"text", "text", "text">>}, 3) :
        AreLines(lines, out) <=> lines = LinesOf(out)

MCOutputs == {<<"newline", "text">>}
=============================================================================

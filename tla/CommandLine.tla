---------------------------- MODULE CommandLine ----------------------------
(***************************************************************************)
(* parse_command_line (src/options.cpp), as a function of the tokens that   *)
(* follow the target.  A token is a record: its text, its number if it     *)
(* starts with one, its pair if it has the form prefix,replacement, and    *)
(* its key and value if it has the form key=value.                         *)
(***************************************************************************)
EXTENDS Integers, Sequences

CONSTANT Misspelt   \* texts that start with -- and are no flag

Switches == {"--clean", "--parse-only", "--keep-going", "--fetch-only",
             "--quietly", "--verbose", "--keep-staging"}
Single == {"--cache-server", "--tarball-cache"}
Many == {"--overlay", "--build-info-ignore-fv", "--git-local-mirror-map"}
Taking == Single \cup Many \cup {"--parallel-packages"}

(* The statics the flags set, before any is read.                          *)
NoOptions ==
    [reading |-> "flags", flag |-> "", given |-> {}, single |-> [f \in Single |-> ""],
     many |-> [f \in Many |-> <<>>], limit |-> 0, inParallel |-> TRUE,
     forced |-> <<>>, features |-> <<>>]

Wrong(o) == [o EXCEPT !.reading = "error"]

(* stoi throws on what is no number, add_ref_if_able_pattern on no pair.   *)
Malformed(flag, tok) ==
    \/ flag = "--parallel-packages" /\ "number" \notin DOMAIN tok
    \/ flag = "--git-local-mirror-map" /\ "pair" \notin DOMAIN tok

(* What follows a flag that takes a value is its value, whatever it looks  *)
(* like.                                                                   *)
TakeValue(o, tok) ==
    LET done == [o EXCEPT !.reading = "flags"]
    IN  IF Malformed(o.flag, tok) THEN Wrong(o)
        ELSE CASE o.flag \in Single -> [done EXCEPT !.single[o.flag] = tok.text]
               [] o.flag \in Many   -> [done EXCEPT !.many[o.flag] = Append(@, tok.text)]
               [] OTHER -> [done EXCEPT !.limit = tok.number, !.inParallel = FALSE]

TakeFlag(o, tok) ==
    CASE tok.text \in Switches -> [o EXCEPT !.given = @ \cup {tok.text}]
      [] tok.text \in Taking   -> [o EXCEPT !.reading = "value", !.flag = tok.text]
      [] tok.text = "--"       -> [o EXCEPT !.reading = "features"]
      [] tok.text \in Misspelt -> Wrong(o)
      [] OTHER                 -> [o EXCEPT !.forced = Append(@, tok.text)]

TakeFeature(o, tok) ==
    IF "key" \in DOMAIN tok THEN [o EXCEPT !.features = Append(@, <<tok.key, tok.value>>)]
    ELSE Wrong(o)

TakeToken(o, tok) ==
    CASE o.reading = "flags"    -> TakeFlag(o, tok)
      [] o.reading = "value"    -> TakeValue(o, tok)
      [] o.reading = "features" -> TakeFeature(o, tok)
      [] OTHER                  -> o

(* What the first n tokens make of the options.                            *)
Read(tokens) ==
    LET read[n \in 0 .. Len(tokens)] ==
            IF n = 0 THEN NoOptions ELSE TakeToken(read[n - 1], tokens[n])
    IN  read

(* A flag left without its value is an error.                              *)
Options(tokens) ==
    LET o == Read(tokens)[Len(tokens)]
    IN  IF o.reading = "value" THEN Wrong(o) ELSE o
=============================================================================

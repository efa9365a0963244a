---------------------------- MODULE CommandLine ----------------------------
(***************************************************************************)
(* What the shell makes of a line (shell/lexan.c, shell/addargs.c and the  *)
(* loop of shell/shell.c up to the new process; module Shell has the wait  *)
(* for its end). A character is ordinary, a blank, one of &, <, >, or a    *)
(* quote; a line ends with its sequence.                                   *)
(***************************************************************************)
EXTENDS Integers, Sequences, FiniteSets, SequencesExt

CONSTANTS SHELL_MAXTOK,
          ClLines,     \* bound: the lines that are typed
          ClCommands   \* [text of a command -> is it built in?]

ASSUME CommandLineAssumption == SHELL_MAXTOK \in Nat

VARIABLES clline,  \* the line that was read last
          clcmd,   \* what it asks for, or why it does nothing
          clat,    \* how far the shell has come with it
          clargs   \* what addargs has given the child

clvars == <<clline, clcmd, clat, clargs>>

-----------------------------------------------------------------------------
(* lexan *)

SyntaxError == <<[type |-> "error", text |-> <<>>]>>
Other(text) == [type |-> "other", text |-> text]
Special == {"&", "<", ">", "blank", "quote"}

(* the first place from p on that holds one of these characters *)
ClFind(line, p, chars) ==
  LET at == {i \in p .. Len(line) : line[i] \in chars} \cup {Len(line) + 1} IN
  CHOOSE i \in at : \A j \in at : i <= j

RECURSIVE Lexan(_, _, _)
Lexan(line, p, tokens) ==
  LET q == ClFind(line, p, {"c", "&", "<", ">", "quote"})
      close == ClFind(line, q + 1, {"quote"})
      stop == ClFind(line, q, Special) IN
  CASE p > Len(line) -> tokens
    [] p <= Len(line) /\ Len(tokens) >= SHELL_MAXTOK -> SyntaxError
    [] q > Len(line) -> tokens
    [] line[q] \in {"&", "<", ">"} ->
         Lexan(line, q + 1, Append(tokens, [type |-> line[q], text |-> <<line[q]>>]))
    [] line[q] = "quote" ->
         IF close > Len(line) THEN SyntaxError
         ELSE Lexan(line, close + 1, Append(tokens, Other(SubSeq(line, q + 1, close - 1))))
    [] OTHER ->
         IF stop <= Len(line) /\ line[stop] \in {"quote", "<", ">"} THEN SyntaxError
         ELSE Lexan(line, stop, Append(tokens, Other(SubSeq(line, q, stop - 1))))

(* tok[i]: where token i starts in tokbuf. Every token ends with a null byte. *)
TokAt(tokens, i) == FoldLeft(LAMBDA sum, t : sum + Len(t.text) + 1, 0, SubSeq(tokens, 1, i - 1))

-----------------------------------------------------------------------------
(* shell *)

Nothing == [what |-> "nothing", words |-> <<>>, in |-> <<>>, out |-> <<>>, bg |-> FALSE, tlen |-> 0]
Rejected == [Nothing EXCEPT !.what = "syntax error"]

(* a trailing & *)
Background(tokens) ==
  LET amper == Last(tokens).type = "&"
      all == TokAt(tokens, Len(tokens) + 1) IN
  [Nothing EXCEPT !.what = "parsed", !.bg = amper,
                  !.words = IF amper THEN Front(tokens) ELSE tokens,
                  !.tlen = IF amper THEN all - 2 ELSE all]

(* a second redirection of the same kind *)
Taken(c, dir) == IF dir = "<" THEN c.in # <<>> ELSE c.out # <<>>

(* one redirection from the end of the line; the shell looks for two *)
Redirect(c) ==
  LET n == Len(c.words)
      dir == c.words[n - 1].type
      name == c.words[n] IN
  IF c.what # "parsed" \/ n < 3 THEN c
  ELSE IF dir \notin {"<", ">"} THEN c
  ELSE IF name.type # "other" \/ Taken(c, dir) THEN Rejected
  ELSE [c EXCEPT !.words = SubSeq(c.words, 1, n - 2),
                 !.tlen = TokAt(c.words, n - 1),
                 !.in = IF dir = "<" THEN <<name>> ELSE @,
                 !.out = IF dir = ">" THEN <<name>> ELSE @]

OnlyWords(c) ==
  IF c.what # "parsed" THEN c
  ELSE IF c.words = <<>> \/ \E i \in 1 .. Len(c.words) : c.words[i].type # "other" THEN Rejected
  ELSE c

(* the command table *)
Lookup(c) ==
  IF c.what # "parsed" THEN c
  ELSE IF c.words[1].text \notin DOMAIN ClCommands THEN [c EXCEPT !.what = "not found"]
  ELSE IF ~ClCommands[c.words[1].text] THEN [c EXCEPT !.what = "program"]
  ELSE IF c.in # <<>> \/ c.out # <<>> \/ c.bg THEN [c EXCEPT !.what = "builtin error"]
  ELSE [c EXCEPT !.what = "builtin"]

Parse(line) ==
  LET tokens == Lexan(line, 1, <<>>) IN
  CASE tokens = SyntaxError -> Rejected
    [] tokens = <<>> -> Nothing
    [] OTHER -> Lookup(OnlyWords(Redirect(Redirect(Background(tokens)))))

(* the arguments as the child sees them: addargs copies tlen bytes of       *)
(* tokbuf, and points argument i at tok[i] in the copy                      *)
AddArgs(c) ==
  [i \in 1 .. Len(c.words) |->
     LET text == c.words[i].text IN
     IF TokAt(c.words, i) + Len(text) + 1 <= c.tlen THEN text ELSE <<"cut off">>]

ClInit == clline = <<>> /\ clcmd = Nothing /\ clat = "prompt" /\ clargs = <<>>

(* a built-in command is called at once *)
ClRead(line) ==
  /\ clat = "prompt"
  /\ clline' = line /\ clcmd' = Parse(line) /\ clargs' = <<>>
  /\ clat' = IF clcmd'.what = "program" THEN "open" ELSE "done"

(* the redirections are opened; when the output fails, the input stays open *)
ClOpen == /\ clat = "open"
          /\ \/ clat' = "create"
             \/ clcmd.in # <<>> /\ clat' = "done"
             \/ clcmd.out # <<>> /\ clat' = "done"
          /\ UNCHANGED <<clline, clcmd, clargs>>

(* create and addargs *)
ClCreate == /\ clat = "create" /\ clat' = "done"
            /\ clargs' \in {<<>>, AddArgs(clcmd)}
            /\ UNCHANGED <<clline, clcmd>>

(* around the loop *)
ClAgain == /\ clat = "done" /\ clat' = "prompt"
           /\ clline' = <<>> /\ clcmd' = Nothing /\ clargs' = <<>>

ClNext == (\E line \in IF clat = "prompt" THEN ClLines ELSE {} : ClRead(line)) \/ ClOpen \/ ClCreate \/ ClAgain

ClSpec == ClInit /\ [][ClNext]_clvars

-----------------------------------------------------------------------------

ClTypeOK == clat \in {"prompt", "open", "create", "done"} /\ clcmd.tlen \in Nat

(* the characters of the line that are not blanks between words *)
ClInk == LET quotes(i) == Cardinality({j \in 1 .. i - 1 : clline[j] = "quote"}) IN
         {i \in 1 .. Len(clline) : clline[i] # "blank" \/ quotes(i) % 2 = 1}
ClSpelled(toks) == FoldLeft(LAMBDA n, t : n + Len(t.text), 0, toks)

(* A line that is accepted says exactly what the command is given: its     *)
(* words, one input, one output and the background, with no character and  *)
(* no token lost, and the child's arguments are those words in full.       *)
ClLineKept ==
  LET c == clcmd
      tokens == Lexan(clline, 1, <<>>)
      redirs == Len(c.in) + Len(c.out)
      quotes == Cardinality({i \in 1 .. Len(clline) : clline[i] = "quote"}) IN
  c.what \in {"program", "builtin", "not found"} =>
    /\ ClSpelled(tokens) + quotes = Cardinality(ClInk)
    /\ Len(tokens) = Len(c.words) + 2 * redirs + (IF c.bg THEN 1 ELSE 0)
    /\ IsPrefix(c.words, tokens)
    /\ clargs # <<>> => clargs = [i \in 1 .. Len(c.words) |-> c.words[i].text]

=============================================================================

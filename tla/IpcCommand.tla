----------------------------- MODULE IpcCommand -----------------------------
(***************************************************************************)
(* One call of SyncManager::enqueue_ipc_command (net/sync_manager.cpp): the*)
(* tokenizer, character by character, the reading of a DOWNLOAD, UPLOAD or *)
(* STOP command, and the tests enqueue makes before it queues the task.    *)
(*                                                                         *)
(* A command is a sequence of characters.  To keep it short one character  *)
(* stands for a word where only the word as a whole matters: D, U and S    *)
(* for the three operations, h for the beginning "http:" of a URL, c for   *)
(* 64 hexadecimal digits, e for the beginning of a path that               *)
(* resolve_local_path refuses.  Digits, signs, quotes, backslash and space *)
(* are themselves.  Sizes have the width of SizeMax instead of 64 bits.    *)
(* A definition with a suffix is a wrong variant of the one after it.      *)
(***************************************************************************)
EXTENDS CommandText

CONSTANTS
  Inputs,      \* commands: [text |-> the characters, sent |-> the sender's arguments,
               \*            meant |-> whether a sender meant them as arguments]
  SizeMax      \* the largest unsigned long long

ASSUME SizeAssumption == SizeMax \in Nat

VARIABLES
  input,       \* the command of this call
  caller,      \* what the caller has: its error string, the manager's state, the ids in results_
  i,           \* the loop's index
  quote,       \* quote_char while in_quotes, otherwise NoQuote
  current, tokens,
  parsing,     \* "idle", "parse", "command", "returned"
  answer,      \* error on return; Accepted when the call returned true
  task         \* the task queued, or NoTask

commandVars == <<input, caller, i, quote, current, tokens, parsing, answer, task>>

-----------------------------------------------------------------------------
NoQuote  == "none"
NoSize   == -1
NoTask   == "no task"
Accepted == "accepted"

command == input.text
ch == command[i]

(* parse_tokens.  The loop body by what the character is.                  *)
Scan(n, q, cur, toks) ==
  /\ i' = i + n /\ quote' = q /\ current' = cur /\ tokens' = toks
  /\ UNCHANGED <<input, caller, parsing, answer, task>>

Escapes_never == FALSE
Escapes == ch = Backslash /\ i < Len(command)

end_quote    == quote # NoQuote /\ ch = quote /\ Scan(1, NoQuote, current, tokens)
escape       == quote # NoQuote /\ ch # quote /\ Escapes
                /\ Scan(2, quote, Append(current, command[i + 1]), tokens)
quoted_char  == quote # NoQuote /\ ch # quote /\ ~Escapes
                /\ Scan(1, quote, Append(current, ch), tokens)
begin_quote  == quote = NoQuote /\ ch \in {Dq, Sq} /\ Scan(1, ch, current, tokens)
plain_char   == quote = NoQuote /\ ch \notin {Dq, Sq, Space}
                /\ Scan(1, quote, Append(current, ch), tokens)

Pushed_always == Append(tokens, current)
Pushed == IF current # <<>> THEN Append(tokens, current) ELSE tokens
separator == quote = NoQuote /\ ch = Space /\ Scan(1, quote, <<>>, Pushed)

parse_char ==
  /\ parsing = "parse" /\ i <= Len(command)
  /\ end_quote \/ escape \/ quoted_char \/ begin_quote \/ plain_char \/ separator

parse_end ==
  /\ parsing = "parse" /\ i > Len(command)
  /\ tokens' = IF current # <<>> \/ quote # NoQuote THEN Append(tokens, current) ELSE tokens
  /\ parsing' = "command"
  /\ UNCHANGED <<input, caller, i, quote, current, answer, task>>

-----------------------------------------------------------------------------
(* std::stoull, and the test that all of the text was used: the number, or *)
(* NoSize for an exception or a rest.  Blanks are skipped, a sign is part  *)
(* of the number, and a negative one is negated in the unsigned type.      *)
AllDigits(t) == \A k \in DOMAIN t : t[k] \in Digits
Number(t) ==
  LET n[k \in 0 .. Len(t)] == IF k = 0 THEN 0 ELSE 10 * n[k - 1] + Digit(t[k]) IN n
stoull(t) ==
  LET start  == CHOOSE k \in 1 .. Len(t) + 1 :
                  (\A j \in 1 .. k - 1 : t[j] = Space) /\ (k <= Len(t) => t[k] # Space)
      signed == start <= Len(t) /\ t[start] \in {"-", "+"}
      digits == SubSeq(t, IF signed THEN start + 1 ELSE start, Len(t))
      n      == Number(digits)[Len(digits)]
  IN  IF digits = <<>> \/ ~AllDigits(digits) \/ n > SizeMax THEN NoSize
      ELSE IF signed /\ t[start] = "-" THEN (-n) % (SizeMax + 1) ELSE n

None(t) == t \in {<<>>, <<"-">>}

(* The fields of a command, as the grammar places them.                    *)
Download(a) == [direction |-> "D", id |-> a[2], url |-> a[3], path |-> a[4],
                size |-> IF None(a[5]) THEN NoSize ELSE stoull(a[5]),
                sha |-> IF None(a[6]) THEN <<>> ELSE a[6]]
Upload(a) == [direction |-> "U", id |-> a[2], url |-> a[3], path |-> a[4], size |-> NoSize, sha |-> <<>>]

StartsWith(t, c) == t # <<>> /\ Head(t) = c
is_http_url(t) == StartsWith(t, "h")
valid_checksum(t) == t \in {<<>>, <<"c">>}

(* enqueue: the error it returns with, or Accepted.  is_large_task writes  *)
(* to the caller's string, and that string is what enqueue tests.          *)
ErrorAfterPath_own(t) == caller.error
ErrorAfterPath(t) == IF StartsWith(t.path, "e") THEN "path" ELSE caller.error
enqueue_error(t) ==
  IF t.id = <<>> \/ ~is_http_url(t.url) \/ t.path = <<>> \/ ~valid_checksum(t.sha) THEN "task"
  ELSE IF ErrorAfterPath(t) # "" THEN ErrorAfterPath(t)
  ELSE IF ~caller.running THEN "not running"
  ELSE IF t.id \in caller.known THEN "exists" ELSE Accepted

Return(e, t) ==
  /\ answer' = e /\ parsing' = "returned"
  /\ task' = IF e = Accepted THEN t ELSE NoTask
  /\ UNCHANGED <<input, caller, i, quote, current, tokens>>

Operation == IF tokens = <<>> THEN <<>> ELSE tokens[1]

enqueue_ipc_command ==
  /\ parsing = "command"
  /\ \/ tokens = <<>> /\ Return("empty", NoTask)
     \/ Operation = <<"S">> /\ Return(IF Len(tokens) = 1 THEN Accepted ELSE "malformed", <<"stop">>)
     \/ Operation = <<"D">> /\ Len(tokens) # 6 /\ Return("malformed", NoTask)
     \/ /\ Operation = <<"D">> /\ Len(tokens) = 6
        /\ ~None(tokens[5]) /\ stoull(tokens[5]) = NoSize /\ Return("size", NoTask)
     \/ /\ Operation = <<"D">> /\ Len(tokens) = 6
        /\ None(tokens[5]) \/ stoull(tokens[5]) # NoSize
        /\ Return(enqueue_error(Download(tokens)), Download(tokens))
     \/ Operation = <<"U">> /\ Len(tokens) # 4 /\ Return("malformed", NoTask)
     \/ Operation = <<"U">> /\ Len(tokens) = 4 /\ Return(enqueue_error(Upload(tokens)), Upload(tokens))
     \/ tokens # <<>> /\ Operation \notin {<<"S">>, <<"D">>, <<"U">>} /\ Return("unsupported", NoTask)

-----------------------------------------------------------------------------
Callers == [error : {"", "earlier"}, running : BOOLEAN, known : {{}, {<<"x">>}}]

call ==
  /\ parsing = "idle" /\ parsing' = "parse"
  /\ input' \in Inputs /\ caller' \in Callers
  /\ UNCHANGED <<i, quote, current, tokens, answer, task>>

CommandInit ==
  /\ input = AnyText(<<>>)
  /\ caller = [error |-> "", running |-> TRUE, known |-> {}]
  /\ i = 1 /\ quote = NoQuote /\ current = <<>> /\ tokens = <<>>
  /\ parsing = "idle" /\ answer = "" /\ task = NoTask

CommandNext == call \/ parse_char \/ parse_end \/ enqueue_ipc_command

-----------------------------------------------------------------------------
(* The grammar of net/SYNC_PROTOCOL.md:12-14.  A size is a decimal number, *)
(* the last digit being worth one and each the tenth of the one before it. *)
(* Blanks and a sign before it are read as std::stoull does: -1 is the     *)
(* largest size.                                                           *)
Value(t) ==
  LET last[n \in 0 .. Len(t)] ==
        IF n = 0 THEN [sum |-> 0, worth |-> 1]
        ELSE [sum |-> last[n - 1].sum + Digit(t[Len(t) - n + 1]) * last[n - 1].worth,
              worth |-> 10 * last[n - 1].worth]
  IN  last
Decimal(t) == t # <<>> /\ AllDigits(t) /\ Value(t)[Len(t)].sum <= SizeMax
Starts(t) ==
  {k \in 1 .. Len(t) :
     /\ Decimal(SubSeq(t, k, Len(t)))
     /\ \A j \in 1 .. k - 1 : t[j] = Space \/ (j = k - 1 /\ t[j] \in {"-", "+"})}
Size(t) ==
  LET k == CHOOSE k \in Starts(t) : TRUE
      n == Value(SubSeq(t, k, Len(t)))[Len(t) - k + 1].sum
  IN  IF k > 1 /\ t[k - 1] = "-" /\ n > 0 THEN SizeMax + 1 - n ELSE n
Grammar(a) ==
  /\ a # <<>>
  /\ \/ a = << <<"S">> >>
     \/ /\ \/ /\ Len(a) = 6 /\ a[1] = <<"D">>
              /\ a[5] = <<"-">> \/ Starts(a[5]) # {}
              /\ a[6] \in {<<"-">>, <<"c">>}
           \/ Len(a) = 4 /\ a[1] = <<"U">>
        /\ is_http_url(a[3]) /\ ~StartsWith(a[4], "e")

Meant(a) ==
  IF a[1] = <<"S">> THEN <<"stop">>
  ELSE [direction |-> a[1][1], id |-> a[2], url |-> a[3], path |-> a[4],
        size |-> IF a[1] = <<"U">> \/ a[5] = <<"-">> THEN NoSize ELSE Size(a[5]),
        sha |-> IF a[1] = <<"U">> \/ a[6] = <<"-">> THEN <<>> ELSE a[6]]
IsStop(a) == a = << <<"S">> >>

(* What is left of the sender's arguments: the empty ones are dropped.     *)
Kept(args) ==
  LET kept[k \in 0 .. Len(args)] ==
        IF k = 0 THEN <<>>
        ELSE IF args[k] = <<>> THEN kept[k - 1] ELSE Append(kept[k - 1], args[k])
  IN  kept
Arguments == Kept(input.sent)[Len(input.sent)]

-----------------------------------------------------------------------------
(* Properties.                                                             *)

(* parse_tokens gives back the arguments the sender wrote, whatever quotes,*)
(* backslashes and spaces are in them, except the empty ones.              *)
TokensAreArguments == input.meant /\ parsing \in {"command", "returned"} => tokens = Arguments

(* Only the last token can be empty, and only when its quote is never      *)
(* closed: the index arithmetic of enqueue_ipc_command may rely on it.     *)
OnlyLastEmpty ==
  \A k \in DOMAIN tokens :
    tokens[k] = <<>> => k = Len(tokens) /\ quote # NoQuote /\ parsing # "parse"

(* From characters to task: a command is queued exactly when it follows    *)
(* the grammar, its id is new, the manager runs and the caller's error     *)
(* string was empty; and what is queued is what the sender meant.          *)
CommandIsUnderstood ==
  input.meant /\ parsing = "returned" =>
    /\ answer = Accepted <=>
         /\ Grammar(Arguments)
         /\ IsStop(Arguments) \/ (caller.error = "" /\ caller.running /\ Arguments[2] \notin caller.known)
    /\ answer = Accepted => task = Meant(Arguments)
    /\ answer # Accepted => task = NoTask
=============================================================================

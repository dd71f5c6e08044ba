-------------------------------- MODULE Scanner --------------------------------
(***************************************************************************)
(* The scanner generated from scanner.l (scanner.c): a compressed table    *)
(* automaton over an input buffer refilled by read(), and the rules that   *)
(* serve the debugger. A step is an iteration of the match loop, or one    *)
(* passage at a label of yylex. Positions are counted from yytext_ptr: the *)
(* move of the text to the start of the buffer does not show.              *)
(***************************************************************************)
EXTENDS Integers, Sequences

CONSTANTS YY_BUF_SIZE,          \* first size of the input buffer
          YY_READ_BUF_SIZE,     \* the most one read() is asked for
          MAX_ERROR_SIZE,       \* size of the buffer of invalid characters
          MaxPending            \* bound of the model: characters of a token

ASSUME ScannerAssumption ==
    /\ YY_BUF_SIZE \in Nat /\ YY_BUF_SIZE >= 2
    /\ YY_READ_BUF_SIZE \in Nat \ {0}
    /\ MAX_ERROR_SIZE \in Nat /\ MAX_ERROR_SIZE >= 2
    /\ MaxPending \in Nat

VARIABLES chars,        \* yy_ch_buf from yytext_ptr to the end-of-buffer characters
          yy_buf_size,
          eof_pending,  \* yy_buffer_status = YY_BUFFER_EOF_PENDING
          at,           \* label of yylex
          state,        \* yy_current_state
          yy_cp,
          last,         \* yy_last_accepting_state and yy_last_accepting_cpos
          yy_act,
          len,          \* parser_data.len
          closed,       \* read() returned 0
          token         \* the token being handled, and whether a report preceded it

vars == <<chars, yy_buf_size, eof_pending, at, state, yy_cp, last, yy_act, len,
          closed, token>>

\* What the scanner promises.
Promise == INSTANCE PacketRules WITH pending <- chars, unreported <- len > 0

NUL == Promise!NUL

EOF_ACT == 7    \* YY_STATE_EOF(INITIAL)

--------------------------------------------------------------------------------
(* The tables, indexed from 0 as in scanner.c. *)

yy_accept(s) == <<0, 0, 0, 6, 4, 5, 4, 1, 2, 0, 0, 0, 3, 0>>[s + 1]
yy_meta(c) == <<0, 1, 1, 1, 2, 1, 1, 1>>[c + 1]
yy_base(s) == <<0, 0, 0, 13, 14, 14, 9, 14, 14, 8, 3, 2, 14, 14, 7>>[s + 1]
yy_def(s) == <<0, 13, 1, 13, 13, 13, 14, 13, 13, 14, 13, 13, 13, 0, 13>>[s + 1]
yy_nxt(i) == <<0, 4, 5, 4, 6, 7, 8, 4, 9, 12, 11, 10, 10, 13, 3, 13, 13, 13, 13,
               13, 13, 13>>[i + 1]
yy_chk(i) == <<0, 1, 1, 1, 1, 1, 1, 1, 14, 11, 10, 9, 6, 3, 13, 13, 13, 13, 13,
               13, 13, 13>>[i + 1]

Jam == 13

\* The state after s on a character of class c: the chain of defaults.
Move[s \in 1..14] ==
    [c \in 0..7 |->
        IF yy_chk(yy_base(s) + c) = s
        THEN yy_nxt(yy_base(s) + c)
        ELSE Move[yy_def(s)][IF yy_def(s) >= 14 THEN yy_meta(c) ELSE c]]

\* What the scanner records before it leaves state s at position p.
Accepted(record, s, p) ==
    IF yy_accept(s) # 0 THEN [state |-> s, cpos |-> p] ELSE record

\* yy_get_previous_state: the first n characters of text again, in which a NUL is
\* an ordinary character.
Again(text, n) ==
    LET visible(c) == IF c = NUL THEN 1 ELSE c
        walk[i \in 0..n] ==
            IF i = 0
            THEN [state |-> 1, last |-> last]
            ELSE [state |-> Move[walk[i - 1].state][visible(text[i])],
                  last |-> Accepted(walk[i - 1].last, walk[i - 1].state, i - 1)]
    IN walk[n]

--------------------------------------------------------------------------------
Init ==
    /\ chars = <<>>
    /\ yy_buf_size = YY_BUF_SIZE
    /\ eof_pending = FALSE
    /\ at = "match"
    /\ state = 1
    /\ yy_cp = 0
    /\ last = [state |-> 0, cpos |-> 0]
    /\ yy_act = 0
    /\ len = 0
    /\ closed = FALSE
    /\ token = Promise!NoToken

\* Past the characters read there are the two end-of-buffer characters.
CharAt(p) == IF p < Len(chars) THEN chars[p + 1] ELSE NUL

\* Bugs to detect: a scanner that is not interactive looks one character ahead; a
\* loop that stops at the first state that accepts.
StopsWhenJammed(s) == s = Jam
StopsWhenAccepting(s) == yy_accept(s) # 0

\* Nothing leaves s.
Stops(s) == yy_base(s) = 14

\* yy_match
Match ==
    /\ at = "match"
    /\ last' = Accepted(last, state, yy_cp)
    /\ state' = Move[state][CharAt(yy_cp)]
    /\ yy_cp' = yy_cp + 1
    /\ at' = IF Stops(state') THEN "find" ELSE "match"
    /\ token' = Promise!NoToken
    /\ UNCHANGED <<chars, yy_buf_size, eof_pending, yy_act, len, closed>>

\* yy_find_action; "case 0" backs up again when this finds no action, and without
\* it an action 0 would be a deadlock.
FindAction ==
    /\ at = "find"
    /\ IF yy_accept(state) # 0
       THEN UNCHANGED <<yy_cp, state>>
       ELSE yy_cp' = last.cpos /\ state' = last.state
    /\ yy_act' = yy_accept(state')
    /\ at' = "action"
    /\ UNCHANGED <<chars, yy_buf_size, eof_pending, last, len, closed, token>>

--------------------------------------------------------------------------------
(* The rules of scanner.l. *)

\* A report is one request to the debugger to send again.
Report == len > 0

Token(kind, report) ==
    token' = [kind |-> kind, text |-> SubSeq(chars, 1, yy_cp), report |-> report]

\* The head of the loop of yylex: the next token starts where this one ends.
NextToken ==
    /\ chars' = SubSeq(chars, yy_cp + 1, Len(chars))
    /\ yy_cp' = 0
    /\ state' = 1
    /\ at' = "match"
    /\ UNCHANGED <<yy_buf_size, eof_pending, last, yy_act, closed>>

Serve(act, kind) ==
    /\ at = "action" /\ yy_act = act
    /\ Token(kind, Report)
    /\ len' = 0
    /\ NextToken

Ack == Serve(1, "ack")

Nak == Serve(2, "nak")

Packet == Serve(3, "packet")

\* A bug to detect: the room for the final NUL is forgotten.
ErrorIsFullLate == len > MAX_ERROR_SIZE - 1

ErrorIsFull == len > MAX_ERROR_SIZE - 2

\* add_character_to_error
Invalid ==
    /\ at = "action" /\ yy_act = 4
    /\ Token("invalid", ErrorIsFull /\ Report)
    /\ len' = IF ErrorIsFull THEN 1 ELSE len + 1
    /\ NextToken

Echo ==
    /\ at = "action" /\ yy_act = 5
    /\ Token("echo", FALSE)
    /\ UNCHANGED len
    /\ NextToken

Eof ==
    /\ at = "action" /\ yy_act = EOF_ACT
    /\ Token("end", Report)
    /\ len' = 0
    /\ at' = "returned"
    /\ UNCHANGED <<chars, yy_buf_size, eof_pending, state, yy_cp, last, yy_act, closed>>

--------------------------------------------------------------------------------
(* YY_END_OF_BUFFER *)

\* The automaton is back where it was after the first n characters of text.
Rewind(text, n) ==
    /\ state' = Again(text, n).state
    /\ last' = Again(text, n).last
    /\ yy_cp' = n

\* A character of the buffer and not its end: it is tried as an ordinary one.
RealNul ==
    /\ at = "action" /\ yy_act = 6
    /\ yy_cp <= Len(chars)
    /\ LET before == Again(chars, yy_cp - 1)
           next == Move[before.state][1]
       IN IF next # Jam
          THEN /\ state' = next
               /\ last' = Accepted(before.last, before.state, yy_cp - 1)
               /\ at' = "match"
               /\ UNCHANGED yy_cp
          ELSE /\ state' = before.state
               /\ last' = Accepted(before.last, before.state, yy_cp - 1)
               /\ yy_cp' = yy_cp - 1
               /\ at' = "find"
    /\ UNCHANGED <<chars, yy_buf_size, eof_pending, yy_act, len, closed, token>>

AtEnd == at = "action" /\ yy_act = 6 /\ yy_cp > Len(chars)

\* The text without the end-of-buffer character.
Kept == SubSeq(chars, 1, yy_cp - 1)

\* A bug to detect: the text waits for more characters, which will not come.
LastMatchScansOn ==
    /\ eof_pending' = TRUE
    /\ Rewind(Kept, Len(Kept))
    /\ at' = "match"
    /\ UNCHANGED yy_act

\* EOB_ACT_LAST_MATCH: what has been read is all there will be.
LastMatch ==
    /\ eof_pending' = TRUE
    /\ Rewind(Kept, Len(Kept))
    /\ at' = "find"
    /\ UNCHANGED yy_act

\* EOB_ACT_END_OF_FILE, after yyrestart
EndOfFile ==
    /\ eof_pending' = FALSE
    /\ yy_act' = EOF_ACT
    /\ yy_cp' = 0
    /\ at' = "action"
    /\ UNCHANGED <<state, last>>

\* yy_get_next_buffer, when no character is read
NoCharacter ==
    /\ chars' = Kept
    /\ IF Kept = <<>> THEN EndOfFile ELSE LastMatch

\* A bug to detect: the room for the end of the buffer is forgotten.
RoomOffByOne(size) == size - Len(Kept)

\* num_to_read, an unsigned difference: it must never be that of a text that
\* already fills the buffer.
Room(size) == size - Len(Kept) - 1

\* The buffer grows until something can be read.
Size == IF Room(yy_buf_size) = 0 THEN 2 * yy_buf_size ELSE yy_buf_size

Least(m, n) == IF m < n THEN m ELSE n

\* EOB_ACT_CONTINUE_SCAN
Read ==
    /\ AtEnd /\ ~ eof_pending
    /\ \E n \in 1..Least(Room(Size), YY_READ_BUF_SIZE) :
           \E s \in [1..n -> Promise!Char] :
               /\ Len(Kept) + n <= MaxPending
               /\ chars' = Kept \o s
               /\ Rewind(Kept \o s, Len(Kept))
    /\ yy_buf_size' = Size
    /\ at' = "match"
    /\ UNCHANGED <<eof_pending, yy_act, len, closed, token>>

\* The peer, or our own gdb_release_data, has closed the connection.
ReadEnd ==
    /\ AtEnd /\ ~ eof_pending
    /\ NoCharacter
    /\ yy_buf_size' = Size
    /\ closed' = TRUE
    /\ UNCHANGED <<len, token>>

\* The end is known: it is not read again.
ForcedEnd ==
    /\ AtEnd /\ eof_pending
    /\ NoCharacter
    /\ UNCHANGED <<yy_buf_size, len, closed, token>>

\* YY_FATAL_ERROR: the process exits.
ReadFails ==
    /\ AtEnd /\ ~ eof_pending
    /\ at' = "dead"
    /\ yy_buf_size' = Size
    /\ UNCHANGED <<chars, eof_pending, state, yy_cp, last, yy_act, len, closed, token>>

Done == at \in {"returned", "dead"} /\ UNCHANGED vars

\* What the scanner does by itself, without waiting for the other side.
Run == \/ Match \/ FindAction
       \/ Ack \/ Nak \/ Packet \/ Invalid \/ Echo \/ Eof
       \/ RealNul \/ ForcedEnd

Next == Run \/ Read \/ ReadEnd \/ ReadFails \/ Done

\* The thread of the connection is scheduled.
Spec == Init /\ [][Next]_vars /\ WF_vars(Run)

--------------------------------------------------------------------------------
\* The tables, the backing up, the NULs that are and are not the end of the buffer
\* and the refills that cut a token anywhere: yylex delivers the tokens scanner.l
\* describes, and reports the invalid characters before what follows them.
ImplementsRules == Promise!RulesSpec

\* The debugger waits for an answer to each packet: the scanner may block in read()
\* (AtEnd) only on a packet that is still open, or on a NUL alone, which flex takes
\* for a possible end of its buffer.
NoNeedlessWait ==
    AtEnd /\ ~ eof_pending => Promise!IsOpen(chars) \/ chars = <<NUL>>

\* Reads stay within the characters read and the two that end them, the refill
\* leaves room for these, and a report ends within the buffer of invalid
\* characters: no access is out of bounds.
WithinBuffers ==
    /\ at = "match" => yy_cp <= Len(chars) + 1
    /\ Len(chars) < yy_buf_size
    /\ len < MAX_ERROR_SIZE

\* When the connection is closed, in the middle of a token or not, yylex returns,
\* and gdb_scanner releases what it holds.
EndsAtEof == closed ~> at = "returned"
================================================================================

----------------------------- MODULE Console ------------------------------
(***************************************************************************)
(* The keyboard of common/CASExampleHelper.cpp.  On POSIX: the lazy switch *)
(* of standard input to non-blocking raw mode, the read of up to three     *)
(* bytes per poll, and the restore at exit.  On Windows: one key per poll  *)
(* from the console, and no mode to set or to restore.                     *)
(*                                                                         *)
(* The operating system's half is the input itself: a terminal, a pipe     *)
(* that stays open without data, or an input already at its end, and the   *)
(* bytes waiting in it.  This module has the state and the operations; the *)
(* main loop that calls them is in RouterMain.                             *)
(***************************************************************************)
EXTENDS Integers, Sequences

CONSTANTS
  Keys,       \* the keys somebody may press
  MaxTyped    \* bound: how many presses of each key

\* What PollKey returns, apart from None.
Commands == {"Help", "Quit", "RouterAnnounce", "ArrowUp", "ArrowDown"}
AllKeys  == {"h", "q", "r", "up", "down", "x"}

ASSUME ConsoleAssumption == Keys \subseteq AllKeys /\ MaxTyped \in Nat

VARIABLES
  input,             \* what standard input is: "terminal", "pipe" or "ended" of
                     \* the POSIX build, "console" of the Windows build
  stdin,             \* bytes waiting in it
  nonBlocking,       \* O_NONBLOCK is set on it
  rawMode,           \* the terminal is in raw mode
  stdinConfigured,   \* g_stdinConfigured
  rawActive,         \* g_rawActive
  typed              \* key -> presses so far

consoleVars == <<input, stdin, nonBlocking, rawMode, stdinConfigured,
                 rawActive, typed>>

Windows == input = "console"

\* The bytes a key press puts in the input: an arrow is ESC [ A or ESC [ B, and
\* on Windows a prefix with the code 72 or 80, which are also H and P.
Escape == "ESC"
Prefix == "E0"
Bytes(key) ==
  CASE key = "up"   -> IF Windows THEN <<Prefix, "H">> ELSE <<Escape, "[", "A">>
    [] key = "down" -> IF Windows THEN <<Prefix, "P">> ELSE <<Escape, "[", "B">>
    [] OTHER        -> <<key>>

\* The command of a single byte; a key main() has no use for is None to it.
Letter(b) ==
  CASE b \in {"h", "H"} -> "Help"
    [] b = "q"          -> "Quit"
    [] b = "r"          -> "RouterAnnounce"
    [] OTHER            -> "None"

ConsoleInit ==
  /\ input \in {"terminal", "pipe", "ended", "console"}
  /\ stdin = <<>>
  /\ nonBlocking = FALSE
  /\ rawMode = FALSE
  /\ stdinConfigured = FALSE
  /\ rawActive = FALSE
  /\ typed = [key \in Keys |-> 0]

Press(key) ==
  /\ input # "ended"
  /\ typed[key] < MaxTyped
  /\ typed' = [typed EXCEPT ![key] = @ + 1]
  /\ stdin' = stdin \o Bytes(key)
  /\ UNCHANGED <<input, nonBlocking, rawMode, stdinConfigured, rawActive>>

\* Mutant: the order before common/CHANGELOG.md's fix, O_NONBLOCK only for a
\* terminal.
EnableRawInputTtyFirst ==
  /\ stdinConfigured' = TRUE
  /\ nonBlocking' = (nonBlocking \/ (~stdinConfigured /\ input = "terminal"))
  /\ rawMode' = (rawMode \/ (~stdinConfigured /\ input = "terminal"))
  /\ rawActive' = (rawActive \/ (~stdinConfigured /\ input = "terminal"))

\* Done once, by the first poll: O_NONBLOCK whatever the input is, raw mode
\* for a terminal only.
EnableRawInput ==
  /\ stdinConfigured' = TRUE
  /\ nonBlocking' = (nonBlocking \/ ~stdinConfigured)
  /\ rawMode' = (rawMode \/ (~stdinConfigured /\ input = "terminal"))
  /\ rawActive' = (rawActive \/ (~stdinConfigured /\ input = "terminal"))

\* read() returns at once: it has bytes or the end of the input to report, or
\* the input is non-blocking or a raw terminal (VMIN = 0).
ReadReturns ==
  stdin # <<>> \/ input = "ended" \/ nonBlocking' \/ rawMode'

\* Mutant: the buffer is matched but the bytes stay in the input.
TakeNothing == stdin' = stdin

Minimum(a, b) == IF a < b THEN a ELSE b

\* One read takes at most three bytes, and all that are not matched are lost.
Take == stdin' = SubSeq(stdin, Minimum(3, Len(stdin)) + 1, Len(stdin))

\* The command in the bytes one read returned.
Command(buffer) ==
  IF buffer = <<>> THEN "None"
  ELSE IF Len(buffer) >= 3 /\ buffer[1] = Escape /\ buffer[2] = "["
  THEN CASE buffer[3] = "A" -> "ArrowUp"
         [] buffer[3] = "B" -> "ArrowDown"
         [] OTHER           -> "None"
  ELSE Letter(buffer[1])

PollTerminal(command) ==
  /\ EnableRawInput
  /\ ReadReturns
  /\ command = Command(SubSeq(stdin, 1, Minimum(3, Len(stdin))))
  /\ Take
  /\ UNCHANGED <<input, typed>>

\* Mutant: a poll empties the console.
WholeConsole == <<Letter(stdin[1]), Len(stdin)>>

\* The command of the next key in the console, and how many codes it has.
NextKey ==
  IF stdin[1] # Prefix THEN <<Letter(stdin[1]), 1>>
  ELSE <<CASE stdin[2] = "H" -> "ArrowUp"
           [] stdin[2] = "P" -> "ArrowDown"
           [] OTHER          -> "None", 2>>

\* _kbhit and _getch: a key if there is one, and its codes only.
PollConsole(command) ==
  /\ IF stdin = <<>> THEN command = "None" /\ UNCHANGED stdin
     ELSE /\ command = NextKey[1]
          /\ stdin' = SubSeq(stdin, NextKey[2] + 1, Len(stdin))
  /\ UNCHANGED <<input, nonBlocking, rawMode, stdinConfigured, rawActive, typed>>

PollKey(command) ==
  \/ ~Windows /\ PollTerminal(command)
  \/ Windows /\ PollConsole(command)

\* Mutant: the flag is cleared first, so the terminal is left as it is.
PutBackTooLate == rawMode' = rawMode

PutBack == rawMode' = (rawMode /\ ~rawActive)

\* The terminal goes back to its own mode; O_NONBLOCK stays set.
RestoreInput ==
  /\ PutBack
  /\ rawActive' = FALSE
  /\ UNCHANGED <<input, stdin, nonBlocking, stdinConfigured, typed>>

ConsoleTypeOK ==
  /\ input \in {"terminal", "pipe", "ended", "console"}
  /\ stdin \in Seq(AllKeys \cup {Escape, "[", "A", "B", Prefix, "H", "P"})
  /\ nonBlocking \in BOOLEAN
  /\ rawMode \in BOOLEAN
  /\ stdinConfigured \in BOOLEAN
  /\ rawActive \in BOOLEAN
  /\ typed \in [Keys -> 0 .. MaxTyped]

=============================================================================

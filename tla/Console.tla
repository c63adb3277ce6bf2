------------------------------ MODULE Console -------------------------------
(***************************************************************************)
(* The console of the boot menu: a line editor with completion, and the    *)
(* commands that look around the boot volume.  A line is a sequence of     *)
(* characters, a path one of names, a name one of characters.              *)
(***************************************************************************)
EXTENDS Integers, SequencesExt

CONSTANTS
    Dirs, Files,   \* paths on the volume, <<>> the root
    Typed,         \* characters the user types
    MaxLine,       \* bound on what is typed into a line
    Cd, Ls, Quits, Others   \* command names: cd, ls, {exit, quit}, the others

Separators == {"/", "\\"}
Space == " "
Entries == Dirs \cup Files
Commands == {Cd, Ls} \cup Quits \cup Others

VARIABLES
    open,   \* the console has the display
    cwd,    \* the current directory
    line    \* what was typed of the current line, as it is echoed

console == <<open, cwd, line>>

ConsoleInit == open = TRUE /\ cwd = <<>> /\ line = <<>>

(***************************************************************************)
(* Paths.                                                                  *)
(***************************************************************************)
Split(path) ==
    FoldLeft(LAMBDA names, c : IF c \in Separators THEN Append(names, <<>>)
                               ELSE [names EXCEPT ![Len(names)] = Append(@, c)],
             << <<>> >>, path)

\* `..` above the root stays there.
resolve(dir, argument) ==
    FoldLeft(LAMBDA path, name :
                 IF name \in {<<>>, <<".">>} THEN path
                 ELSE IF name # <<".", ".">> THEN Append(path, name)
                 ELSE IF path = <<>> THEN path ELSE Front(path),
             IF argument # <<>> /\ Head(argument) \in Separators THEN <<>> ELSE dir,
             Split(argument))

(***************************************************************************)
(* Completion.                                                             *)
(***************************************************************************)
\* A name a word may become, and the character behind it once it is the only one.
Candidate(name, trailing) == [name |-> name, trailing |-> trailing]

\* read_dir: every directory of the volume but the root begins with `.` and `..`.
Children(dir) ==
    {Candidate(Last(e), IF e \in Dirs THEN "/" ELSE Space) :
        e \in {x \in Entries : x # <<>> /\ Front(x) = dir}}
      \cup IF dir = <<>> THEN {} ELSE {Candidate(<<".">>, "/"), Candidate(<<".", ".">>, "/")}

\* Mutant: as long as one of them goes on the same.
CommonWithFirst(names) == CHOOSE n \in names : \A o \in names : Len(o) <= Len(n)

longest_common_prefix(names) == LongestCommonPrefix(names)

After(s, n) == SubSeq(s, n + 1, Len(s))

\* apply_completion: what the line, then, is longer by; <<>> also when there
\* are several names, to be listed.
Completion(typed, candidates) ==
    LET matching == {c \in candidates : IsPrefix(typed, c.name)}
        names == {c.name : c \in matching}
    IN  IF matching = {} THEN <<>>
        ELSE IF \E c \in matching : matching = {c}
        THEN LET c == CHOOSE c \in matching : TRUE
             IN  Append(After(c.name, Len(typed)), c.trailing)
        ELSE After(longest_common_prefix(names), Len(typed))

Spaces(s) == {i \in DOMAIN s : s[i] = Space}
Least(S) == CHOOSE n \in S : \A m \in S : n <= m

\* complete and complete_path: by where the first space is.
Completed ==
    IF Spaces(line) = {}
    THEN Completion(line, {Candidate(name, Space) : name \in Commands})
    ELSE LET space    == Least(Spaces(line))
             argument == After(line, space)
             slashes  == {i \in DOMAIN argument : argument[i] \in Separators}
             prefix   == IF slashes = {} THEN 0 ELSE CHOOSE i \in slashes : \A j \in slashes : j <= i
             dir      == resolve(cwd, SubSeq(argument, 1, prefix))
         IN  IF SubSeq(line, 1, space - 1) \notin {Cd, Ls} \/ dir \notin Dirs THEN <<>>
             ELSE Completion(After(argument, prefix), Children(dir))

(***************************************************************************)
(* The keys of read_line.                                                  *)
(***************************************************************************)
Type(c) ==
    /\ open /\ Len(line) < MaxLine
    /\ line' = Append(line, c)
    /\ UNCHANGED <<open, cwd>>

Backspace ==
    /\ open
    /\ line' = IF line = <<>> THEN line ELSE Front(line)
    /\ UNCHANGED <<open, cwd>>

\* Without anything to add, several names are listed and the prompt printed anew.
Tab ==
    /\ open
    /\ line' = line \o Completed
    /\ UNCHANGED <<open, cwd>>

Escape == open /\ open' = FALSE /\ UNCHANGED <<cwd, line>>

Blank(s) == \A i \in DOMAIN s : s[i] = Space

\* trim
Trimmed(s) ==
    IF Blank(s) THEN <<>>
    ELSE LET inked == DOMAIN s \ Spaces(s)
         IN  SubSeq(s, Least(inked), CHOOSE i \in inked : \A j \in inked : j <= i)

\* split_once at the first space.
Command(s)  == IF Spaces(s) = {} THEN s ELSE SubSeq(s, 1, Least(Spaces(s)) - 1)
Argument(s) == IF Spaces(s) = {} THEN <<>> ELSE Trimmed(After(s, Least(Spaces(s))))

\* run with a line; the other commands only print.
Enter ==
    /\ open
    /\ LET command == Command(Trimmed(line))
           argument == Argument(Trimmed(line))
           target == resolve(cwd, argument)
       IN  /\ open' = (command \notin Quits)
           /\ cwd' = IF command = Cd /\ argument # <<>> /\ target \in Dirs THEN target ELSE cwd
    /\ line' = <<>>

ConsoleNext == (\E c \in Typed : Type(c)) \/ Backspace \/ Tab \/ Enter \/ Escape

-----------------------------------------------------------------------------
\* What cd or ls would look at.
Denoted(s) ==
    LET t == Trimmed(s)
    IN  {resolve(cwd, Argument(t)) : x \in {y \in {t} : Command(y) \in {Cd, Ls} /\ Argument(y) # <<>>}}

\* The files and directories whose name the line ends in the middle of.
Meant(s) ==
    {e \in Entries \ {<<>>} : \E k \in 0 .. Len(Last(e)) :
        IsSuffix(SubSeq(Last(e), 1, k), s) /\ e \in Denoted(s \o After(Last(e), k))}

\* Tab rules out nothing the line may come to denote, as run reads the line,
\* and takes nothing away that it denotes already; and if there is only one
\* name that goes on like the one begun, the line denotes it from then on.
TabHelps ==
    [][Tab => /\ Meant(line) \subseteq Meant(line') \cup Denoted(line')
              /\ Denoted(line) \cap Entries \subseteq Denoted(line')
              /\ \A e \in Entries :
                   (/\ Meant(line) = {e} /\ Spaces(line) = {2}
                    /\ Last(line) \notin Separators \cup {Space, "."})
                   => e \in Denoted(line')]_console
=============================================================================

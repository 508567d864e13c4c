------------------------------- MODULE Shell -------------------------------
(***************************************************************************)
(* The command shell of kernel.c on top of the RAM file system: shell_run, *)
(* shell_parse_command, shell_tokenize, shell_execute_command and the      *)
(* commands that change state.                                             *)
(*                                                                         *)
(* A line is the sequence of its words.  A word is a record of its text    *)
(* and its length; the text of a size is the sequence of its characters.   *)
(* Every word is copied to a kmalloc buffer while the command runs; for    *)
(* the heap it does not matter which characters these are: all are Char.   *)
(* How shell_run edits the line is the subject of module Console.          *)
(***************************************************************************)
EXTENDS FileSystem, Numbers

CONSTANTS
    MAX_ARGS,
    Char, NUL,  \* a character of a word and the terminator of a string
    Lines       \* the lines that are typed

ASSUME ShellAssumption == MAX_ARGS \in Nat \ {0} /\ {Char, NUL} \subseteq Bytes

\* A line has words; what follows create or delete names a file, and the digits
\* of a size stand for an int.
ASSUME LinesAssumption ==
    \A l \in Lines :
        /\ Len(l) \in Nat
        /\ \A k \in 1 .. Len(l) : l[k].len \in Nat
        /\ Len(l) > 1 /\ l[1].text \in {"create", "delete"} => l[2].text \in Names
        /\ Len(l) > 2 /\ l[1].text = "create" => str_to_int(l[3].text) \in Int

VARIABLES
    pc,         \* "prompt", "tokenize", "execute", "free", "exited" or "fault"
    line,       \* the line being executed
    args        \* the addresses of args[0 .. argc - 1] that are still held

shell == <<pc, line, args>>

\* heap[] is cleared at boot, and no file exists when the shell starts.
SInit ==
    /\ Init /\ mem = [a \in DOMAIN mem |-> NUL]
    /\ pc = "prompt" /\ line = <<>> /\ args = <<>>

\* The number of words that shell_tokenize makes of the line.
argc == IF Len(line) < MAX_ARGS THEN Len(line) ELSE MAX_ARGS

\* shell_run reads a line; an empty one, or one of blanks, leaves no trace.
ReadLine(l) ==
    /\ pc = "prompt"
    /\ l # <<>>
    /\ line' = l
    /\ pc' = "tokenize"
    /\ UNCHANGED <<vars, args>>

\* Mutant: the terminator is not counted in the size of the buffer.
TokenTight ==
    /\ pc = "tokenize"
    /\ Len(args) < argc
    /\ LET len == line[Len(args) + 1].len
       IN  \E p \in 0 .. HEAP_SIZE :
             /\ H!Alloc(len, p)
             /\ mem' = Stored(p, [k \in 1 .. (len + 1) |-> IF k <= len THEN Char ELSE NUL])
             /\ args' = Append(args, p)
    /\ UNCHANGED <<files, file_count, pc, line>>

\* shell_tokenize copies the next word.
TokenCopied ==
    /\ pc = "tokenize"
    /\ Len(args) < argc
    /\ LET len == line[Len(args) + 1].len
       IN  \E p \in 0 .. HEAP_SIZE :
             /\ H!Alloc(len + 1, p)
             /\ mem' = Stored(p, [k \in 1 .. (len + 1) |-> IF k <= len THEN Char ELSE NUL])
             /\ args' = Append(args, p)
    /\ UNCHANGED <<files, file_count, pc, line>>

\* The result of kmalloc is not tested: the copy goes to address 0, which is
\* no memory of the machine.
TokenFault ==
    /\ pc = "tokenize"
    /\ Len(args) < argc
    /\ pc' = "fault"
    /\ UNCHANGED <<vars, line, args>>

\* Mutant: the scan stops at max_args words only.
TokensFull ==
    /\ pc = "tokenize"
    /\ Len(args) = MAX_ARGS
    /\ pc' = "execute"
    /\ UNCHANGED <<vars, line, args>>

TokensDone ==
    /\ pc = "tokenize"
    /\ Len(args) = argc
    /\ pc' = "execute"
    /\ UNCHANGED <<vars, line, args>>

\* shell_execute_command.  Commands that only print, unknown ones and those
\* with too few arguments change nothing.
Creates == line[1].text = "create" /\ argc > 2
Deletes == line[1].text = "delete" /\ argc > 1

cmd_create ==
    /\ Creates
    /\ LET size == str_to_int(line[3].text)
       IN  IF size <= 0 \/ size > MAX_FILESIZE
           THEN UNCHANGED vars
           ELSE fs_create(line[2].text, size)

cmd_delete == Deletes /\ fs_delete(line[2].text)

Execute ==
    /\ pc = "execute"
    /\ cmd_create \/ cmd_delete \/ (~Creates /\ ~Deletes /\ UNCHANGED vars)
    /\ pc' = "free"
    /\ UNCHANGED <<line, args>>

\* Mutant: only args[0] is freed.
FreeFirst ==
    /\ pc = "free"
    /\ args # <<>>
    /\ H!Free(Head(args))
    /\ args' = <<>>
    /\ UNCHANGED <<files, file_count, mem, pc, line>>

\* shell_parse_command frees the words again, in order.
FreeArg ==
    /\ pc = "free"
    /\ args # <<>>
    /\ H!Free(Head(args))
    /\ args' = Tail(args)
    /\ UNCHANGED <<files, file_count, mem, pc, line>>

\* Back in shell_run, which ends if the command was exit.
ParseDone ==
    /\ pc = "free"
    /\ args = <<>>
    /\ pc' = IF line[1].text = "exit" THEN "exited" ELSE "prompt"
    /\ line' = <<>>
    /\ UNCHANGED <<vars, args>>

Work == TokenCopied \/ TokenFault \/ TokensDone \/ Execute \/ FreeArg \/ ParseDone
SNext == (\E l \in Lines : ReadLine(l)) \/ Work

\* A command that has been entered is carried out.
SSpec == SInit /\ [][SNext]_<<vars, shell>> /\ WF_<<vars, shell>>(Work)

-----------------------------------------------------------------------------

\* The control state, and the buffers of the words are held one by one.
STypeOK ==
    /\ TypeOK
    /\ pc \in {"prompt", "tokenize", "execute", "free", "exited", "fault"}
    /\ line \in Lines \cup {<<>>}
    /\ Len(args) <= argc /\ Len(args) <= MAX_ARGS
    /\ pc = "execute" => Len(args) = argc

\* Until a copy fails, the heap holds the buffers of the files, those of the
\* words that are not yet freed, all of them different, and nothing else.  So
\* between commands, whatever they did, no word is left behind.
NothingLeaks ==
    /\ STypeOK
    /\ pc # "fault" =>
         /\ DOMAIN live = {files[i].data : i \in Used} \cup {args[k] : k \in 1 .. Len(args)}
         /\ Cardinality(DOMAIN live) = Cardinality(Used) + Len(args)

\* No command of the shell writes to a file, so a file keeps its contents until
\* it is deleted, although shell_tokenize writes to the heap all the time.
FilesKept ==
    [][\A i \in Used : files'[i].is_used => Contents(i)' = Contents(i)]_<<vars, shell>>

\* Every command comes to an end.
CommandsEnd == (pc = "tokenize") ~> (pc \in {"prompt", "exited", "fault"})

=============================================================================

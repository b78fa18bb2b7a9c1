-------------------------------- MODULE Nbufc --------------------------------
(***************************************************************************)
(* The program nbufc (nbufc.c) from its command line to its exit status:   *)
(* options, the search for the schema, loading it, compiling it, and the   *)
(* one action asked for, with failures of all calls on the way.  Arguments *)
(* are taken one at a time, so the command line is chosen as it is read.   *)
(***************************************************************************)
EXTENDS FileIO, SearchPath, FiniteSets

CONSTANTS Chars,       \* what arguments are made of
          Dirs,        \* directories given to -I
          Names,       \* names of the schema file
          MAXINCDIR

ASSUME CharsAssumption == NUL \notin Chars
ASSUME ArgumentsAssumption == Dirs \subseteq Seq(Chars) /\ Names \subseteq Seq(Chars)
ASSUME MaxIncDirAssumption == MAXINCDIR \in Nat

VARIABLES
    pc,                \* where main() stands
    action,            \* the action asked for
    status,            \* the exit status
    inputWhole,        \* history: all of stdin, and more than nothing, was loaded
    done               \* history: outputs handed over completely

nbufcVars == <<pc, action, status, inputWhole, done>>
vars == <<ioVars, searchVars, nbufcVars>>

Actions == {"NONE", "C_OUT", "CPP_OUT", "BIN_OUT", "DECODE", "DECODE_RAW", "ENCODE"}

MainInit ==
    /\ Init /\ SearchInit
    /\ pc = "options" /\ action = "NONE" /\ status = 0
    /\ inputWhole = FALSE /\ done = {}

Goto(where) == pc' = where
Exit(code) == pc' = "exit" /\ status' = code

\* What the steps of main() leave alone unless they say so
NoFiles == UNCHANGED <<ioVars, searchVars>>
History == UNCHANGED <<inputWhole, done>>

-----------------------------------------------------------------------------
(* The options, up to the schema's name *)

\* help, an unknown option, an argument missing, an option after an action's, no schema
Usage ==
    /\ pc \in {"options", "schema"}
    /\ Exit(1)
    /\ NoFiles /\ History /\ UNCHANGED action

\* An option for an action, with its message type: it ends the loop.
ActionOption ==
    /\ pc = "options"
    /\ action' \in Actions \ {"NONE", "DECODE_RAW"}
    /\ Goto("schema")
    /\ NoFiles /\ History /\ UNCHANGED status

DecodeRawOption ==
    /\ pc = "options"
    /\ action' = "DECODE_RAW" /\ Goto("action")
    /\ NoFiles /\ History /\ UNCHANGED status

\* -I, the one option that others may follow
IncludeOption ==
    /\ pc = "options"
    /\ IF Len(dirs) = MAXINCDIR
       THEN Exit(1) /\ UNCHANGED searchVars
       ELSE /\ \E dir \in Dirs : dirs' = Append(dirs, dir)
            /\ UNCHANGED <<name, scratch, slen, lastDirLen, at, tried, search, pc, status>>
    /\ History /\ UNCHANGED <<ioVars, action>>

\* The first argument that is no option, or the one after "--"
SchemaArgument ==
    /\ pc \in {"options", "schema"}
    /\ name' \in Names /\ Goto("search")
    /\ History /\ UNCHANGED <<dirs, scratch, slen, lastDirLen, at, tried, search, ioVars, action, status>>

-----------------------------------------------------------------------------
(* nbuf_compile, for a schema without imports *)

Search ==
    /\ pc = "search" /\ SearchStep
    /\ UNCHANGED <<ioVars, nbufcVars>>

NotFound ==
    /\ pc = "search" /\ search = "missing"
    /\ Exit(1)
    /\ NoFiles /\ History /\ UNCHANGED action

LoadSchema ==
    /\ pc = "search" /\ search = "opened"
    /\ LoadFp("unset") /\ Goto("load schema")
    /\ History /\ UNCHANGED <<searchVars, action, status>>

Load ==
    /\ pc \in {"load schema", "load input"} /\ LoadStep
    /\ UNCHANGED <<searchVars, nbufcVars>>

\* parse_file does not look at the result of the load: what is in the buffer is
\* compiled, also when that is nothing because of an error.
Compile ==
    /\ pc = "load schema" /\ Clear
    /\ \/ Goto("action") /\ UNCHANGED status
       \/ Exit(1)
    /\ History /\ UNCHANGED <<searchVars, action>>

\* fstat() fails: the text buffer was never initialised, anything may follow.
CompileGarbage ==
    /\ pc = "load schema" /\ io = "back" /\ base = "unset"
    /\ Goto("undefined")
    /\ NoFiles /\ History /\ UNCHANGED <<action, status>>

-----------------------------------------------------------------------------
(* The actions *)

\* Output of the file f is complete, as far as the code looks: its last bytes may
\* still be lost when they are flushed later.  Or an error is seen.
Written(f) == done' = done \cup {f}
NotWritten == UNCHANGED done

NoAction ==
    /\ pc = "action" /\ action = "NONE"
    /\ Exit(0)
    /\ NoFiles /\ History /\ UNCHANGED action

\* Mutant: the result of nbuf_save_file is not looked at.
BinOut_Unchecked ==
    /\ pc = "action" /\ action = "BIN_OUT"
    /\ Exit(0)
    /\ Written(".nb") \/ NotWritten
    /\ NoFiles /\ UNCHANGED <<action, inputWhole>>

\* bin_out: a name for the output, nbuf_save_file
BinOut ==
    /\ pc = "action" /\ action = "BIN_OUT"
    /\ \/ Written(".nb") /\ Exit(0)
       \/ NotWritten /\ Exit(1)
    /\ NoFiles /\ UNCHANGED <<action, inputWhole>>

\* nbufc_codegen_cpp: one file; an error is what ferror() reports before fclose().
CppOut ==
    /\ pc = "action" /\ action = "CPP_OUT"
    /\ \/ Written(".nb.hpp") /\ Exit(0)
       \/ NotWritten /\ Exit(1)
    /\ NoFiles /\ UNCHANGED <<action, inputWhole>>

\* nbufc_codegen_c: first the header
CHeader ==
    /\ pc = "action" /\ action = "C_OUT"
    /\ \/ Written(".nb.h") /\ Goto("c source") /\ UNCHANGED status
       \/ NotWritten /\ Exit(1)
    /\ NoFiles /\ UNCHANGED <<action, inputWhole>>

\* then the source: rc is 0 from the header on, also when fopen() fails.
CSource ==
    /\ pc = "c source"
    /\ \/ Written(".nb.c") /\ Exit(0)
       \/ NotWritten /\ Exit(0)
       \/ NotWritten /\ Exit(1)
    /\ NoFiles /\ UNCHANGED <<action, inputWhole>>

\* nbufc_decode_raw takes a read error for the end of the input.
DecodeRaw ==
    /\ pc = "action" /\ action = "DECODE_RAW"
    /\ Exit(0) \/ Exit(1)
    /\ NoFiles /\ History /\ UNCHANGED action

\* encode and decode: the message type is looked up before stdin is read.
NoSuchType ==
    /\ pc = "action" /\ action \in {"ENCODE", "DECODE"}
    /\ Exit(1)
    /\ NoFiles /\ History /\ UNCHANGED action

LoadInput ==
    /\ pc = "action" /\ action \in {"ENCODE", "DECODE"}
    /\ LoadFp(IF action = "ENCODE" THEN "null" ELSE "unset") /\ Goto("load input")
    /\ History /\ UNCHANGED <<searchVars, action, status>>

\* Nothing loaded is an error, of an empty input as well.  decode leaves the
\* buffer as it is, encode clears it.
NoInput ==
    /\ pc = "load input" /\ io = "back" /\ ret = 0
    /\ IF action = "ENCODE" THEN Clear ELSE UNCHANGED ioVars
    /\ Exit(1)
    /\ History /\ UNCHANGED <<searchVars, action>>

\* nbuf_get_obj and nbuf_print, or nbuf_parse and nbuf_save_fp; nbuf_print is not
\* told of errors in what it writes.
Convert ==
    /\ pc = "load input" /\ io = "back" /\ ret > 0
    /\ inputWhole' = (ret = size)
    /\ \/ Written("stdout") /\ Goto("converted") /\ UNCHANGED status
       \/ NotWritten /\ Goto("converted") /\ status' = 1
    /\ NoFiles /\ UNCHANGED action

\* Mutant: the buffer is cleared where the error is found and at the end.
Converted_Twice ==
    /\ pc = "converted"
    /\ IF base = "mapped" /\ status = 1
       THEN maps' = maps - 2 /\ io' = "none" /\ UNCHANGED <<mappable, size, pos, base, len, cap, mem, ret>>
       ELSE Clear
    /\ Exit(status)
    /\ History /\ UNCHANGED <<searchVars, action>>

Converted ==
    /\ pc = "converted" /\ Clear
    /\ Exit(status)
    /\ History /\ UNCHANGED <<searchVars, action>>

MainNext ==
    \/ Usage \/ ActionOption \/ DecodeRawOption \/ IncludeOption \/ SchemaArgument
    \/ Search \/ NotFound \/ LoadSchema \/ Load \/ Compile \/ CompileGarbage
    \/ NoAction \/ BinOut \/ CppOut \/ CHeader \/ CSource \/ DecodeRaw
    \/ NoSuchType \/ LoadInput \/ NoInput \/ Convert \/ Converted

MainSpec == MainInit /\ [][MainNext]_vars

-----------------------------------------------------------------------------
MainTypeOK ==
    /\ TypeOK
    /\ pc \in {"options", "schema", "search", "load schema", "load input", "action", "c source",
               "converted", "undefined", "exit"}
    /\ action \in Actions /\ status \in {0, 1}
    /\ Len(dirs) <= MAXINCDIR /\ search \in {"none", "dirs", "opened", "missing"}
    /\ done \subseteq {".nb", ".nb.hpp", ".nb.h", ".nb.c", "stdout"}

\* nbufc reports success only for a result: the output of the action was handed
\* over without an error, made from the whole of the input.  (The second file
\* of -c_out, the schema's text and errors at the last flush are no part of
\* this: there the code does not look.)
ResultOrError ==
    pc = "exit" /\ status = 0 =>
        /\ action = "BIN_OUT" => ".nb" \in done
        /\ action = "CPP_OUT" => ".nb.hpp" \in done
        /\ action = "C_OUT" => ".nb.h" \in done
        /\ action \in {"ENCODE", "DECODE"} => "stdout" \in done /\ inputWhole

\* c_api.txt:75: "For a schema file, a ".nb.c" and a ".nb.h" file will be
\* generated", or the exit status says that they were not.
BothGenerated ==
    pc = "exit" /\ status = 0 /\ action = "C_OUT" => {".nb.h", ".nb.c"} \subseteq done
=============================================================================

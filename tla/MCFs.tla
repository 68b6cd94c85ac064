--------------------------------- MODULE MCFs ---------------------------------
(* Two processes, a directory /a and the names below it.                    *)
EXTENDS Fs

CONSTANTS p1, p2

MCProc == {p1, p2}
MCName == {"a", "b"}
On(op, path) == [op |-> op, path |-> path, new |-> <<>>]
A == <<"/", "a">>
B == <<"/", "b">>
AB == <<"/", "a", "b">>
MCCalls == {On("mkdir", A), On("creat", AB), On("mknod", <<"b">>), On("open", AB), On("exec", B),
            On("chdir", A), 
            On("unlink", A), On("unlink", AB), On("unlink", B),
            [op |-> "link", path |-> AB, new |-> B]}

(* One file that is created and removed.                                    *)
LeakCalls == {On("creat", B), On("unlink", B)}

(* A directory that is left by "..".                                        *)
DotDotCalls == {On("mkdir", A), On("mkdir", AB), On("unlink", A), On("unlink", AB),
                On("chdir", AB), On("chdir", <<"..">>)}
===============================================================================

------------------------------- MODULE MCVfs -------------------------------
EXTENDS Vfs, TLC

Entry(name, type, up, ox) == [name |-> name, type |-> type, up |-> up, ox |-> ox]
Abs(names) == [abs |-> TRUE, names |-> names]
Rel(names) == [abs |-> FALSE, names |-> names]

\* Two partitions that can be mounted, the second also inside the first, one
\* that is not ext2, and one with an empty file system.
MCParts == {"p0", "p1", "p2", "p3"}
MCDisk ==
    [p \in MCParts |->
       [linux |-> p # "p2", ext2 |-> TRUE,
        entries |-> CASE p = "p0" -> <<Entry(".", "DIR", 0, TRUE), Entry("..", "DIR", 0, TRUE),
                                       Entry("a", "DIR", 0, TRUE), Entry("f", "FILE", 3, FALSE),
                                       Entry("b", "DIR", 0, TRUE)>>
                      [] p = "p3" -> <<Entry(".", "DIR", 0, TRUE), Entry("..", "DIR", 0, TRUE)>>
                      [] OTHER    -> <<Entry("a", "DIR", 0, TRUE), Entry("sh", "FILE", 0, TRUE)>>]]
MCArchive ==
    <<[names |-> <<"sh">>, type |-> "FILE"],
      [names |-> <<"bin">>, type |-> "DIR"], [names |-> <<"bin", "sh">>, type |-> "FILE"],
      [names |-> <<"bin", "x">>, type |-> "DIR"], [names |-> <<"bin", "x", "y">>, type |-> "FILE"]>>
MCTmpPaths == {Rel(<<"d">>), Rel(<<"d", "f">>), Rel(<<"..", "f">>)}
\* Mounts in mounts, two mounts at one place, mounts on what tmpfs made, a program in a mounted partition, and
\* two programs whose look-ups interleave
Sh == Abs(<<"initrd", "0", "bin", "sh">>)
MCMachines ==
    {[parts |-> {"p0", "p1", "p2"}, tmp |-> 0, users |-> 0,
      paths |-> {Abs(<<"mnt">>), Abs(<<"mnt", "b">>), Rel(<<"..">>), Sh}],
     [parts |-> {"p0", "p1", "p3"}, tmp |-> 0, users |-> 0,
      paths |-> {Abs(<<"mnt">>), Abs(<<"mnt", "b">>)}],
     [parts |-> {"p1"}, tmp |-> 2, users |-> 0, paths |-> {Abs(<<"tmp", "d">>), Rel(<<"..">>)}],
     [parts |-> {"p1"}, tmp |-> 0, users |-> 1,
      paths |-> {Abs(<<"mnt">>), Rel(<<"mnt", "a">>), Sh, Abs(<<"mnt", "sh">>)}],
     [parts |-> {}, tmp |-> 0, users |-> 2,
      paths |-> {Abs(<<"initrd", "0", "sh">>)}]}
MCPrograms == <<"t1", "t2">>
=============================================================================

------------------------------ MODULE MCSession ------------------------------
(* Instances of Session, and with it of UringRing, for TLC.                   *)
EXTENDS Session

sda  == [disk |-> "sda", part |-> 0]
sda1 == [disk |-> "sda", part |-> 1]
sda2 == [disk |-> "sda", part |-> 2]
sdb  == [disk |-> "sdb", part |-> 0]
sdb1 == [disk |-> "sdb", part |-> 1]
link == [disk |-> "backup", part |-> 0]

\* The root is on sda1; sdb1 is mounted, but not as a system directory.
MCMounts == { [device |-> sda1, at |-> "/"], [device |-> sdb1, at |-> "/mnt"] }

Copy(in_kind, out_kind, bs, limit, source, bad) ==
  [engine |-> "uring", conversions |-> {}, in_kind |-> in_kind, out_kind |-> out_kind,
   input |-> IF in_kind = "pipe" THEN "pipe" ELSE "file",
   output |-> IF out_kind = "pipe" THEN "pipe" ELSE "file",
   blocksize |-> bs, limit |-> limit, source |-> source, bad |-> bad,
   direct |-> "no", nocache |-> FALSE, named |-> TRUE, threads |-> 1,
   force |-> FALSE, dry_run |-> FALSE, node |-> sdb, path |-> sdb]

\* Files and pipes, with and without a limit, ends inside a block, an error.
CopyConfigs ==
  { Copy("regular", "new", 2, -1, 5, 0),
    Copy("regular", "pipe", 2, 3, 5, 0),
    Copy("pipe", "regular", 2, 5, 7, 0),
    [Copy("pipe", "pipe", 2, -1, 4, 0) EXCEPT !.conversions = {"fsync"}],
    [Copy("regular", "new", 1, -1, 3, 3) EXCEPT !.conversions = {"fdatasync", "fsync"}],
    Copy("regular", "new", 2, 0, 2, 0) }

Target(engine, node, path, force) ==
  [Copy("regular", "block", 2, -1, 2, 0) EXCEPT
     !.engine = engine, !.node = node, !.path = path, !.force = force]

TargetConfigs ==
  { Target("auto", n, n, f) : n \in {sda, sda1, sda2, sdb, sdb1}, f \in BOOLEAN }
    \cup { Target("auto", sda, link, FALSE), Target("auto", sda1, link, FALSE) }

AutoConfigs ==
  { [Copy(i, o, 2, -1, 2, 0) EXCEPT !.engine = "auto", !.dry_run = TRUE,
                                    !.conversions = c, !.direct = d] :
      i \in {"regular", "block", "pipe"}, o \in {"regular", "new", "block", "pipe"},
      c \in {{}, {"swab"}, {"sha256"}, {"fullblock"}}, d \in {"no", "works"} }

\* One of these for every place where the plan is known to be wrong.
BlindConfigs ==
  { [Copy("regular", "new", 2, -1, 2, 0) EXCEPT !.engine = "auto", !.dry_run = TRUE,
       !.threads = 2, !.conversions = {"sha256"}],
    [Copy("pipe", "new", 2, -1, 2, 0) EXCEPT !.engine = "auto", !.dry_run = TRUE,
       !.conversions = {"blks"}],
    [Copy("regular", "new", 2, -1, 2, 0) EXCEPT !.engine = "auto", !.dry_run = TRUE,
       !.named = FALSE],
    [Copy("regular", "new", 2, -1, 2, 0) EXCEPT !.engine = "auto", !.direct = "unsupported"] }

DryTargets == { [c EXCEPT !.dry_run = TRUE] : c \in TargetConfigs }

PipedConfigs == { Copy("regular", "pipe", 2, -1, 4, 0) }

MCConfigs == CopyConfigs \cup TargetConfigs \cup AutoConfigs \cup BlindConfigs \cup DryTargets

==============================================================================

---------------------------- MODULE MCCommandLine ----------------------------
(* Instances of CommandLine for TLC.  A value in a TOML file names the      *)
(* file, so that a setting tells where it comes from.                       *)

EXTENDS CommandLine, TLC

File(flat, block, ts) == [state |-> "read", flat |-> flat, block |-> block, tables |-> ts]
Absent == [state |-> "absent", flat |-> Nothing, block |-> Nothing, tables |-> <<>>]
Broken == [Absent EXCEPT !.state = "broken"]

Local == "storage_type" :> "local"
Path(n) == "local_path" :> n

\* What a user file and a project file may say of the storage.
Files(n) ==
  {Absent, Broken} \union
  {File(flat, Nothing, <<>>) : flat \in {"storage_type" :> "S3", Path(n), "port" :> "bad"}} \union
  {File(Nothing, block, <<>>) : block \in {Local, "storage_type" :> "other", Path(n), Local @@ Path(n)}} \union
  {File(Path(n), Local @@ Path(n \o " block"), <<>>)}

Envs == {Nothing, "storage_type" :> "Local", Path("env"), Local @@ Path("env"), "port" :> "bad"}

Connections == {
  [url |-> "none", fields |-> TRUE, db |-> "same"],
  [url |-> "none", fields |-> FALSE, db |-> "none"],
  [url |-> "none", fields |-> FALSE, db |-> "unknown"],
  [url |-> "good", fields |-> FALSE, db |-> "none"],
  [url |-> "good", fields |-> TRUE, db |-> "same"],
  [url |-> "good", fields |-> FALSE, db |-> "other"],
  [url |-> "bad", fields |-> FALSE, db |-> "none"]}

Usual == [url |-> "none", fields |-> TRUE, db |-> "same"]

Plain == [command |-> "backup", storage |-> "", path |-> "", bucket |-> TRUE,
          key |-> TRUE, daemon |-> TRUE, config |-> FALSE, user |-> Absent,
          project |-> Absent, named |-> Absent, env |-> Nothing,
          conn |-> Usual]

\* Every layer against every other, and against the flags.
Layered ==
  {[Plain EXCEPT !.command = c, !.user = u, !.project = p, !.env = e, !.path = f, !.bucket = b] :
     c \in {"backup", "restore"}, u \in Files("user"), p \in Files("project"), e \in Envs,
     f \in {"", "flag"}, b \in BOOLEAN}

\* Every flag of the commands that take one.
Flagged ==
  {[Plain EXCEPT !.conn = con, !.command = c, !.storage = s, !.path = f, !.bucket = b, !.key = k,
                  !.daemon = b, !.config = g, !.named = n] :
     con \in Connections, c \in {"backup", "restore", "test", "schedule"},
     s \in {"", "s3", "S3", "local", "Local", "other"}, f \in {"", "flag"}, b \in BOOLEAN, k \in BOOLEAN,
     g \in BOOLEAN, n \in {Absent, File(Nothing, Local @@ Path("named"), <<>>)}}

Table == [id |-> "", database |-> "", storage |-> "", storage_type |-> "", local_path |-> "",
          valid |-> TRUE]

Tables == {
  [Table EXCEPT !.id = "a"],
  [Table EXCEPT !.database = "a", !.local_path = "own"],
  [Table EXCEPT !.database = "b", !.storage_type = "local"],
  [Table EXCEPT !.id = "b", !.storage = "Local"],
  [Table EXCEPT !.id = "b", !.storage = "S3", !.storage_type = "local"],
  [Table EXCEPT !.id = "c", !.valid = FALSE],
  Table}

Blocks == {Nothing, Path("file"), Local @@ Path("file"), "storage_type" :> "Local",
           "storage_type" :> "other"}

\* Up to three job tables, in any of the files a daemon may read.
Scheduled ==
  LET tomls == {File(Nothing, b, ts) : b \in Blocks, ts \in UNION {[1 .. n -> Tables] : n \in 0 .. 3}}
      daemon == [Plain EXCEPT !.command = "schedule"] IN
  {[daemon EXCEPT !.config = TRUE, !.named = f, !.user = u] : f \in tomls, u \in {Absent, Broken}}
    \union {[daemon EXCEPT !.user = f] : f \in {Broken} \union
               {File(Nothing, Local, <<t>>) : t \in Tables}}
    \union {[daemon EXCEPT !.config = g, !.project = f] : g \in BOOLEAN, f \in {Broken} \union
               {File(Nothing, Local, <<t>>) : t \in Tables}}

AllInvocations == Layered \union Flagged \union Scheduled

=============================================================================

---------------------------- MODULE ConfigLayers ----------------------------
(***************************************************************************)
(* load_config (config.py): the merge of two TOML files, the environment   *)
(* and flags.  A layer is a function from the settings it gives.  A TOML   *)
(* file gives them at its top level (flat) or in its [storage] block       *)
(* (block).  Only the settings that a command reads are here, and the      *)
(* port, whose conversion can raise.                                       *)
(***************************************************************************)

Settings == {"storage_type", "local_path", "port"}

Nothing == [s \in {} |-> ""]

IsLayer(f) == DOMAIN f \subseteq Settings /\ f \in [DOMAIN f -> STRING]

\* A TOML file: "absent", "broken" (not TOML) or "read".
Readable(file) == file.state = "read"
Flat(file) == IF Readable(file) THEN file.flat ELSE Nothing
Block(file) == IF Readable(file) THEN file.block ELSE Nothing

\* f, and g where f gives nothing
Over(f, g) ==
  [s \in DOMAIN f \union DOMAIN g |-> IF s \in DOMAIN f THEN f[s] ELSE g[s]]

\* Faulty variant: the user's [storage] block is merged like the project's.
Merged_UserBlock(user, project, env, flags) ==
  LET flat == Over(Flat(project), Flat(user)) IN
  Over(flags, Over(env, Over(Block(user), Over(Block(project), flat))))

\* The project's block comes over everything before it, the user's block only
\* where nothing was set.
Merged(user, project, env, flags) ==
  LET flat == Over(Flat(project), Flat(user)) IN
  Over(flags, Over(env, Over(Over(Block(project), flat), Block(user))))

\* int(port) of what is no number
Raises(merged) == "port" \in DOMAIN merged /\ merged["port"] = "bad"

Get(merged, s, default) == IF s \in DOMAIN merged THEN merged[s] ELSE default

\* str.lower, on the names that have a capital here
Lower(type) == IF type = "Local" THEN "local" ELSE IF type = "S3" THEN "s3" ELSE type

Known(type) == Lower(type) \in {"s3", "local"}

\* An unknown storage type is taken for the default.
StorageOf(type) == IF Known(type) THEN Lower(type) ELSE "s3"

StorageType(merged) == StorageOf(Get(merged, "storage_type", "s3"))

LocalPath(merged) == Get(merged, "local_path", "")

-----------------------------------------------------------------------------
(* "defaults < user config < ./dbbackup.toml < env DBBACKUP_* < CLI flags" *)
(* (README.md, config.py): what the layers say of a setting, lowest first. *)

Layer(file, s) ==
  (IF s \in DOMAIN Flat(file) THEN {Flat(file)[s]} ELSE {})
    \union (IF s \in DOMAIN Block(file) THEN {Block(file)[s]} ELSE {})

Given(layer, s) == IF s \in DOMAIN layer THEN {layer[s]} ELSE {}

\* What the highest layer that gives s says, or the default.
Documented(user, project, env, flags, s, default) ==
  CASE Given(flags, s) # {} -> Given(flags, s)
    [] Given(flags, s) = {} /\ Given(env, s) # {} -> Given(env, s)
    [] Given(flags, s) \union Given(env, s) = {} /\ Layer(project, s) # {} -> Layer(project, s)
    [] Given(flags, s) \union Given(env, s) \union Layer(project, s) = {} /\ Layer(user, s) # {}
         -> Layer(user, s)
    [] OTHER -> {default}

=============================================================================

# Hell1Modding: verification project

Hell1Modding is a mod loader for Hades 1: a proxy `d3d11.dll` that comes up
beside the starting game, reads the engine's symbols from its PDB, hooks a dozen
of its functions and runs mods of two kinds - ReturnOfModding plugins, written
in Lua against `rom`, and the older ModImporter mods of `Content/Mods`.

This directory models it in TLA+. Each component below has a module of its own;
an `MC` module and a `.cfg` give it small constants and TLC checks every
behaviour of that instance; the `*Proofs` modules prove, with TLAPS, what holds
for every value of the constants. Paths are relative to `src/src/`.

To check one component: `tlc -config Overlay.cfg MCOverlay`; to check its
proofs, where it has them: `tlapm ScriptLoadingProofs.tla`.

## Inventory

| Component | State it keeps | Operations | What is hard |
|---|---|---|---|
| Script loading (`hades1/script_hook.cpp`, `lua_extensions/lua_manager_extension.cpp`) | thread-local depth, staged `_ENV`, the engine's HAS_CRASHED and LOADED_SCRIPT_FILES | `load_detour`, `loadbufferx_detour`, `fire_on_pre_import`, `fire_on_post_import`, `apply_staged_env` | Load nests through the scripts it loads, through callbacks and legacy files; worker threads compile Lua of their own |
| Manager lifecycle (`hades1/hades_lua.cpp`, `save_ignores.cpp`) | the manager, its state and whether it is valid | `init_lua_manager_for_game_state`, `shutdown_lua_manager`, `register_loader_save_ignores` | states opened, closed and abandoned; hooks that appear while the game runs |
| Script-thread tasks (`script_hook.cpp`) | `g_tasks`, `g_task_mutex` | `run_on_script_thread`, `run_pending_tasks` | tasks that post tasks, other threads that post during the drain |
| Overlay (`gui/gui.cpp`, `gui/renderer.cpp`) | open, cursor, mouse flags, context, render target | `toggle`, the frame callback, `set_player_frozen` | two threads toggle; the freeze is a task that runs later; ImGui writes `g_is_open` itself |
| Legacy mods (`hades1/legacy_mods.cpp`) | `g_legacy_mods` | `scan_legacy_mods`, `parse_modfile`, `fire_legacy_imports` | order of commands across files and mods, recursion of Include, mistakes in modfiles |
| Legacy packages (`legacy_packages.cpp`) | the record, the game's folder | `begin_`, `install_`, `finish_package_install` | crashes, failures, updates, profiles: it writes into the game's folder |
| File redirection (`file_redirect.cpp`) | `g_redirects` | `add_`, `clear_file_redirects`, `open_file_detour` | opens on any thread during the scan; which of several matches wins; the directory the engine asks from |
| Plugin data (`plugin_data_files.cpp`, `sjson_overlay.cpp`) | `g_assets`, `g_path_index` | `scan_plugin_data_files`, the path detour | two mods with the same file, spellings, pairs of files; an error ends a walk early and silently |
| Log mirror (`log_write.cpp`) | last line and its repeats, two static flags | `log_write_detour` | many threads; what is dropped, demoted or collapsed |
| Startup (`main.cpp`, `dll_proxy/`, `game_pdb.cpp`, `pdb_symbol_map.hpp`) | `already_executed`, the originals, PA, the symbol map | `DllMain`, the stubs, `late_init`, `read_game_pdb` | a thread that races the game's own startup; anything may be missing |
| Legacy configuration (`legacy_config.cpp`, the Config tab of `gui.cpp`) | globals before, the `.cfg` files held and on disk | `snapshot_globals`, `bind_legacy_config`, `draw_config_entry` | nested imports of `config.lua`; the player's edits against the mods' defaults, over waves and restarts |
| The window (`gui.cpp`) | the key being picked, the keys gone down, the cached list of mods not loaded | `draw_config_entry`, `poll_pressed_key`, `draw_mods_tab`, `find_unloaded_mods` | what GetAsyncKeyState remembers; a cache over a manager that is rebuilt |
| Lua sandbox (`lua_manager_extension.cpp` 34-211) | how often each state's functions are wrapped, who is allowed | `sandbox_lua_state`, `calling_mod_guid`, `blocked_lua_function` | who is calling; a state wrapped twice |
| Engine options (`config_options.cpp`) | the flags written | `apply_config_options`, the InitLua hook | one flag is read while a state is built |
| lovely patches (`lovely/lovely.cpp`) | the patch table, one buffer per compile | `init`, `patched_buffer` | compiles on any thread while the loader comes up; who frees the text |
| FMOD banks (`bindings/hades/audio.cpp`) | FMOD's System | `install_hooks`, `update_detour`, `load_bank` | the System must be seen before a bank is loaded |
| Screen reader, path and socket bindings | none | wrappers | - |

How they interact. Everything that touches Lua runs on the script thread, inside
`ScriptManager::Load` or at the end of `ScriptManager::Update`, or is posted to
it. Loading `Main.lua` is the start of a *wave*: the manager is rebuilt on the
new `lua_State`, and `Content/Mods` scanned again, which refills the redirection
table and the package record. The render thread draws the overlay, reads the
manager under `g_manager_mutex` and posts freezes. The engine's own threads call
the file, path and log detours. Locks are taken in the order of the draw
callbacks' mutex, `g_manager_mutex` (recursive), `g_task_mutex`; the mutexes of
the redirection table and of the log are leaves.

## Modules

`ScriptLoading` - the calls in progress on the loading thread are a stack of
frames, `detour` frames for `load_detour` and `engine` frames for the original,
each at a statement; one action per statement. `env` is `g_env_to_add`, named by
the script it was staged for, `depth` the thread-local counter, `installed` what
was attached to each chunk. Workers compile in between.
Correct means: the counter is the nesting; an environment belongs to a Load in
progress, is attached to that Load's script and to no other, never to a worker's
chunk; HAS_CRASHED set inside is cleared on the way out.

`ManagerLifecycle` - states are numbered as they are opened. `InitManager` and
`Shutdown` are the two functions of `hades_lua.cpp`; the actions around them are
the game's own (opening, closing, abandoning a state), the hooks one by one,
`load_detour` as far as `Main.lua` is concerned, and the fallback of
`update_detour`. Correct means: a manager is destroyed only while its state is
open; it points into an open state and outlives other states' closing; `rom` is
in SaveIgnores before the game can save.

Two modules extend it with what lives on the manager, and one run checks all
three. `ModsWindow` - a frame of the overlay is one step, since the window holds
`g_manager_mutex` as the functions of `hades_lua.cpp` do. What a frame draws
depends on the overlay, the tab, the window's title bar (a collapsed window has no
content, and imgui.ini may have it collapsed from the start) and the header that
folds the loader's own settings (`Content`, `Drawn`, `EntryDrawn`); where none is
drawn, `DrawNothing`, a key that is being picked stays so. `down` is what
GetAsyncKeyState will report, `lastCount` and `unloaded` the two static
variables of `draw_mods_tab`. Correct means: a key becomes the toggle key only
if it was pressed at the picker; the list of mods not loaded is right whenever
it is drawn. `LuaSandbox` - how many times the blocked functions are wrapped in
each state, and what each wrapper decides of a call. Correct means: the player's
list, as it is now, decides, in every state.

`TaskFifo`, `TaskQueue` - the abstract queue, and the vector, mutex, swap and
loop that implement it: `queue` is `batch \o tasks`.

`Overlay` - one action per statement of `toggle` and of the frame callback;
`game` stands for what the freeze task meets. Correct means: when nothing is
under way, the mouse and the player follow the overlay, and a freeze does not
outlast it. The mouse is two things: `cursor`, ImGui's MouseDrawCursor, and
`noMouse`, its two NoMouse flags, which `toggle_mouse` sets together; but a new
ImGui context has them clear, so before the first toggle ImGui takes the mouse's
input with the overlay closed; the window never draws a manager that is going.

`LegacyMods` - a modfile is a sequence of commands, a stack of frames is the
recursion of Include; one action per command, then per file registered and per
import fired. `ModfileText` is the loops that make commands of a text,
`split_commands`, the characters of `tokenise`, and the lines of `parse_modfile`,
one action per turn; `MCModfileText` says the same of the positions in the text: it
is cut into lexemes (a quote, a comment, a block, a character), and commands and
words are the positions with no break, or no end, between them. `LegacyMeaning` says what the modfiles declare without following the
parser: an entry has an origin, which is the route of Includes that leads to a
modfile, a line of it, a target in force there and an argument; and two origins
are compared as they are written. Correct means: what is applied, and in what
order, is what ModImporter would apply (`AppliesAsModImporter`); nothing a mod
declares is lost or made twice (`DeclaresAll`).

`LegacyConfig` extends `LegacyMods`, and `MCLegacyConfig` states what it is for:
an import of a `config.lua` becomes the snapshot, the chunk, and the bind, in
steps, since the chunk may Import a script whose own legacy imports - another
`config.lua` among them - happen in between. `running` is the stack of those chunks, `tables` the tables in `_G`, `files` what
the process holds of each `.cfg` and `saved` the file on disk, which alone
outlives a restart. The player edits settings in the overlay or in the file.
Correct means: what the player set wins over the mod's defaults for good, and a
`.cfg` holds the settings of its own mod.

`PackageInstall` - one launch after another over a shared Content folder:
reading the record, each package's copy in two steps so that a crash can tear
it, removals, the record opened (which truncates it) and written. Correct means:
no file of the game is touched; what is installed is recorded, wanted, current.

`FileRedirect` - a path is the sequence of its components, and a request what is
left of it in the directory the engine asks from, `depth` components below
Content, or -1 for the directory above it, when the request carries a Content/
prefix. An open looks the table up, drops the lock, and uses the entry; a scan
refills the table meanwhile. The engine reaches the replacement if the rebased
path climbs as far as it asked from (`Reached`), and may still fail to open it;
then it opens its own file. Correct means: the engine gets the file of the last mod
to claim it.

`ContentFiles` - the two walks over `plugins_data` and the detour that substitutes
paths. An error of `increment(ec)` leaves an iterator at its end, so a walk may
stop at any file (`BreakAssets`, `BreakOverlays`), or not begin (`Start`), and the
hook is installed over what it had come to; `seen` is the history of that.
Correct means: what the engine opens is a file offered for what it asked for, and
a package and its manifest come from one mod. `LogMirror` - the detour's four decisions, each a step, on several
threads. `Startup` - `DllMain`, the stubs, `late_init`, the three passes over
the PDB, the engine's options, the hooks, the capture of the swap chain and of
FMOD's System; the game's `InitLua` looks at the options meanwhile.
`LovelyPatches` extends it: a compile through the hook, on any thread, makes a
`patched_buffer`, compiles what it points to and releases what it owns. Correct
means: the patch table is read before the first such compile; the text is alive;
everything lovely allocated is freed, and nothing else.

The files are separate because the code's components meet in few places, and
each meeting is in one of the modules: the legacy imports inside
`ScriptLoading`, the waves and the task queue inside `Overlay`, the scan inside
`PackageInstall` and `FileRedirect`, the manager inside `ModsWindow` and
`LuaSandbox`, the scan and the imports inside `LegacyConfig`, the hooks inside
`LovelyPatches`. Definitions called a *variant* in a
comment are slips of the kind a programmer makes, kept to show that the
properties would notice them.

## Runs

Bounds are constants of the `.cfg`; a bound is enough when the case it limits
(a nesting, a second wave, a second writer) happens well inside it.

| Run | Instance | Distinct states | What it shows |
|---|---|---|---|
| `script_loading` | three scripts, one legacy file imported before one script and after another, one worker, nesting of 4 | 1.7 million | depth is nesting; a staged `_ENV` has an owner and stays with its script, as long as only scripts import scripts; workers get none; HAS_CRASHED is cleared unless a plugin's main chunk set it |
| `callback_trip_blocks_load` | the same, only callbacks set HAS_CRASHED | 33 before the violation | **violated**, see *Findings* |
| `manager` | three states, hooks before or during, every state abandoned or closed; and one player: who presses four keys, collapses and folds, in one wave, moves two folders in `plugins/` between waves, or edits the list of mods allowed unsafe Lua | 4.2 million | a manager is destroyed only while its state is open and lives as long as it; `rom` in SaveIgnores; the sandbox follows the list; the picked key is fresh; the list of mods not loaded is right |
| `task_queue` | four tasks, two threads that post, and tasks that post | 6,602 | implements `TaskFifo`, fairness included; every task runs; no self-deadlock |
| `overlay` | every way to toggle at once, two tasks waiting, waves and runs without bound | 0.57 million | freeze, cursor, mouse input and window as above; no deadlock |
| `packages` | two mods on one package, one on a package of the game; two versions, two profiles | 1.1 million | game files are never touched; the rest unless a crash, a failure or a second profile upset it |
| `redirect` | three files, a movie in two resolutions among them, in every directory they can be asked for in, and the larger from above Content; a claim on a bare name; two openers | 4.8 million | one entry for a target; the right file, for opens of an unmistakable file that no scan overlaps, or the game's own if the replacement cannot be reached or opened |
| `content_files` | nine files of two mods, any of them there, one with too long a path, errors anywhere; seven requests | 3.2 million | what is served is what was asked for; pairs come from one mod, but for the path that is too long |
| `log` | two threads, five messages, four lines | 1.4 million | the log read back is what was mirrored; script errors always show |
| `legacy_mods` | one mod with up to two of seven commands, another with one of four modfiles, two included files, two waves; and one world where both have a `config.lua`, the first Imports the script the second is for, which has a table too, with edits and restarts anywhere | 0.9 million | ModImporter's order; nothing lost; the scan ends; the player's values win; a `.cfg` is its mod's own |
| `modfile_text` | every text of up to six characters of seven kinds | 1.9 million | the loops read the grammar |
| `startup` | two game threads and two exports, or one thread that compiles scripts while the game builds states and updates FMOD; nineteen PDBs, three options | 0.14 million | calls land home unless they race; hooks and options fail alone; lovely's text is owned by one side; `late_init` ends and FMOD's System is captured |

A property of one kind of step is checked where that step can happen: the worlds
of `manager`, `startup` and `legacy_mods` fix at the start which part of the
outside moves (`player`, `game`, `ConfigWorlds`), because the parts share no
variable but the loader's own. The two threads that may compile at once in
`LovelyPatches` share only the table, and the proof covers any number of them.

Two waves are enough in `manager` and `legacy_mods` because a wave starts from
what one earlier wave left; nesting of 4 allows a callback that imports a script
whose own callback imports another. Two tasks waiting in `overlay` are the two
toggles that can disagree; two openers and one scan are the race in `redirect`.
Six characters hold a quote inside a comment inside a quote, or a block comment
and what follows it.

Several promises hold only under a condition, and the property names it
(`...Unless...`): the `MC` module keeps a history variable for it (`late`,
`abandoned`, `reentered`, `tripped`, `crashed`, `failed`, `first`, `button`,
`raced`, `unseen`, `used`, `missed`, `clear`, `mixed`, `left`, `sameCount`,
`remade`; and `refused` in `FileRedirect`, `seen` in `ContentFiles`).
The condition is the least one under
which TLC finds no counterexample; each is a place where the code's promise
really ends, listed next.

## Findings, and where a promise ends

Checked as a violation:

- `callback_trip_blocks_load`. `script_hook.cpp:92` says that HAS_CRASHED is
  snapshotted and restored around the loader's callbacks. It is restored only
  after the original has run, so a pre-import callback that trips it makes the
  original refuse the very script it was fired for.

Found while stating the properties, and visible in their conditions:

- The overlay's close button leaves the player frozen (`gui.cpp:930`):
  `g_is_open` is already false, so `toggle(false)` sees no change. And mod UI
  that opens the overlay in the frame of that click escapes the teardown.
- A run that begins while the overlay is open is not frozen; `gui.toggle` on the
  script thread races the key.
- A callback that imports a script drops the `_ENV` its outer Load had staged
  (`lua_manager_extension.cpp:431`); a legacy file imported before a script may
  take the script's environment, for it is compiled first.
- A HAS_CRASHED set by a plugin's main chunk precedes the snapshot.
- A wave that began before the hooks has no `rom` in SaveIgnores.
- A crash before the record is written leaves a package the loader takes for
  the game's own; a failed removal is forgotten; two profiles have two records
  of one folder; without `Content/Mods` no package is removed
  (`legacy_mods.cpp:456`).
- Priorities order mods, not commands, and never above 100, while the comment at
  `legacy_mods.cpp:47` says "per command"; files of an included folder come in
  no particular order.
- A short request may match two targets, one of them of another file
  (`find_redirect` compares tails in both directions): a file is unmistakable when
  what is asked for is not the tail of another replaced file, or that one is out
  of reach (`Unmistakable` in `MCFileRedirect`). An open that overlaps a scan may read
  an entry that has gone (`file_redirect.cpp:163`).
- A request with a Content/ prefix never gets its replacement. `file_redirect.hpp:5`
  says that a replacement is served "whenever the engine opens" its target, and
  `find_redirect` finds it for a request that is "longer, when it carries a Content/
  prefix" (`file_redirect.cpp:93`). But `rebase_for_resource_dir` takes a request
  as long as its target, or longer, to be relative to Content (lines 148-150): the
  engine, asking from above Content, looks for `Mods/...` beside it, fails, and
  opens its own file. `ServesUnlessScanned` says so (`depth < 0`).
- A `config.lua` that Imports a script has the tables of that script, and of any
  other mod's `config.lua` imported for it, counted as its own: its `.cfg` takes
  the first new table by name (`legacy_config.cpp:207`). What the player set
  stays in the file all the same.
- A `.cfg` edited by hand while the loader holds it is written over at the next
  edit in the overlay or the next bind (`file_for` reads it once).
- A key picker that was left with the tab or the window, or hidden by collapsing
  the window (`gui.cpp:709`) or folding its header (`gui.cpp:397`), and comes into
  view again, takes the first key pressed since (`gui.cpp:278`): the keys are
  flushed only when it is clicked. `left` is a frame that was drawn without the
  picker while a key was being picked.
- Until the overlay is toggled for the first time, ImGui takes the mouse's input
  though the overlay is closed: `init_imgui` (`renderer.cpp:70`) leaves the NoMouse
  flags clear, and only `toggle_mouse` sets them (`used`).
- A walk over `plugins_data` that meets an error ends without the warning in its
  body, for the iterator is at its end when the loop looks (`plugin_data_files.cpp:251`,
  `sjson_overlay.cpp:192` and `:247`). The files behind it are not served, and a pair
  may be split between two mods, as it is by a mod that has only one of the two.
- Of a pair, a replacement whose path is too long for the engine's buffer
  (`plugin_data_files.cpp:168`) leaves the engine its own file, beside a mod's for the
  other.
- The list of mods not loaded is kept when the manager is rebuilt with as many
  other modules (`gui.cpp:543`).
- In a `lua_State` the manager was made for twice every blocked function stays
  blocked, for everybody, because the inner wrapper is called by a wrapper; so it
  does for a chunk whose name has backslashes, since `"\/"` at
  `lua_manager_extension.cpp:71` is a forward slash only. A mod not in the list
  is refused in every case.
- EnableLuaMessageHook goes with the hook on InitLua: a state built before that
  hook has no message handler.
- All the stubs share PA, so two threads in them at once may land in each
  other's export.

## Fairness

Five properties are about what must happen (`RunsInOrder`, `EveryTaskRuns`,
`ThawsUnlessButton`, `ScanEnds`, `ComesUp`), and the fairness each assumes is in
the specification it is checked under.

- `TaskQueue`: the engine updates for as long as it runs, tasks return, and a
  thread waiting for a mutex that is free again and again gets it.
- `Overlay`: frames are presented and updates run; strong fairness on frames,
  since the window waits for a mutex that the script thread takes in each wave.
  Nothing is assumed of the player, mods, the game's runs or its resizes.
- `LegacyMods` and `Startup`: the scan, and `late_init`, are sequential code on
  a thread nobody stops; waits in them are bounded by a timeout in the code.
  `Startup` also assumes that the game updates FMOD, as it does every frame; only
  then is its System captured.

Deadlock is checked in every run but four, which may stop: the text is read
(`modfile_text`), the scans or the states the bound allows are used up
(`legacy_mods`, `manager`), or a call has landed nowhere, in an export the
system does not have (`startup`).

## Proofs

TLAPS proves, for any scripts, mods, threads, states and bounds:

- `ScriptLoadingProofs` - type correctness, `DepthIsNesting`,
  `StagedEnvHasOwner`, `WorkersGetNothing`. None is inductive alone. The
  invariant `IInv` adds what the stack looks like (`StackOK`): every frame is at
  a statement of its own function, and an original runs only above a detour that
  has started, so that a staged environment or a count above zero always has
  someone to undo it. Each action pushes, pops or changes the top frame, so the
  lemmas `PushFrames`, `PopFrames` and `ChangeTop` carry most of the work.
  `CrashCleared` adds `CrashInv`: unless a main chunk tripped it, a Load that
  found HAS_CRASHED set runs inside one that did not and will clear it.
  `EnvStays` adds `EnvInv`: until a callback imports a script, a staged
  environment belongs to the innermost Load (`InnermostOwns`).
- `ManagerLifecycleProofs` - `NeverDestroyedLate`: under any order of hooks,
  waves and abandoned states, a manager is destroyed only while its state is
  open. `StatesOK` says why: the state `lua_close` was called for is still open
  until the original has run, and `g_last_state` is the manager's own state.
  `WavesCorrect`: with the hooks first and no state abandoned, the manager is
  valid exactly when it exists and points into the open game state.
  `ManagerOrderly` and `RomIgnored` say the same of every behaviour, under the
  condition the run checks (`OrderlyInv` and `LateInv`, statement by statement,
  the moments between a hook's two calls included). Of the window and the
  sandbox: `SandboxFollows` (a state that has the libraries has been wrapped, and
  more than once only if the manager was made for it twice), `PickedKeyFresh`
  (`PickInv`: while a key is being picked and no frame has gone without the
  picker, only mouse buttons are down from before the last frame),
  `UnloadedListed` (`ListInv`: a list that the next frame would keep is right)
  and `WindowTypes`. Of the task queue, which shares no variable with the manager:
  `ImplementsFifo` - the initial states map, and every step maps to `Post`, `Run`
  or a stutter. It needs `MutexInv`: who is inside the lock read the vector that
  is still there, and the script thread owns the lock only in the swap or in a
  post. `NoSelfDeadlock` follows from the same.
- `OverlayProofs`, for any bound on the waiting tasks: `MouseFollows`
  (`MouseInv` says at which statements of the frame the cursor and the flags may be
  behind: only between the close button and the code that looks for it, and the
  flags before the first toggle), `FreezeFollows`
  (`FreezesInv`: the newest task waiting, or the post still to be made, says what
  the overlay says; so that the last one to run leaves the player right),
  `OneManagerListed` (`LockInv`: the manager lock is the render thread's while it
  draws mods, and no manager is valid while the script thread owns it) and
  `OverlayTypes`.
- `PackageInstallProofs` - `GameFilesSafe`: no package of the game is ever
  overwritten or removed. A removal trusts the record, so the invariant is that
  no record, and neither of the two sets in memory, ever names a file that is
  the game's - across launches, crashes and profiles. `Recorded`,
  `NothingStays` and `CurrentServed` share `RInv`, which says for every
  statement of a scan where a package of the loader's may be accounted for: in a
  record, or in the set about to be written (`Accounted`); that what a scan
  installs is wanted (`OnlyWanted`); and that the mods it has come past are
  served in their present version (`CurrentSoFar`).
- `DetourProofs`, of three modules that share nothing. `NothingIsHidden` and
  `ErrorsSurface`: what the log unfolds to is what was mirrored. The log is read
  by a recursive function; `ReadsAs` follows it one line at a time as the log
  grows, so no induction over the log is needed. `PairsStayTogether`
  (`WalkInv`): at every point of the walk, two names that the same mods were seen
  to replace have one owner (`Paired`), because the mod whose folder is walked owns
  what was seen of it (`MineSoFar`) and no other folder is entered twice
  (`WholeFolders`); so an error may end the walk anywhere. What is served follows:
  the owner's file, or the engine's where the path is too long.
  `ServedFromOffers` (`IndexInv`): every asset and overlay the walks came to is in
  its index, under its own name, and nothing else is. `RedirectTypes` (`TableInv`):
  one entry for a target, the last claim of what is registered (`HoldsLast`).
  `ServedAsClaimed`: the lookup finds the unmistakable file's own
  entry (`FindIsRight`), the entry stays good until the table changes, and what
  is served is its file, if it is reached and opens (`Settled`). A request from above
  Content reaches no entry, whatever it finds (`FindFromAbove`). That a longest, and of those a first, match exists is
  `FirstOfTheBest`, from the least element of a set of numbers (`LeastOne`).
- `StartupProofs` - `LovelyOwnsItsText` (`LovelyInv`: past `lovely::init` there
  is a table, and so there is behind the hook; `Buffer` says what each thread's
  buffer holds at each place), `CallsLandHome` (`OriginalsFirst`: the
  originals are there before a call can be made; `InStub`: PA is still the
  thread's own when it jumps, unless two raced) and `HooksAlone`: every hook
  whose symbol the PDB has, and that is not refused, is in, but that without
  Update there is no script hook; and so are the options. `SymbolInv` follows the three passes - a symbol not yet in the map is
  among the records unread, and what is in the map is the first of its name -
  and `HookInv` the list of hooks still to come.
- `LegacyConfigProofs`, for any mods, modfiles, nesting limit, `config.lua` and
  tables, over waves and restarts. `ConfigTypes`: its invariant says more than the
  types, namely that every entry in hand names a source of a modfile the mod's own
  Includes come to (`ScanTypes`, `ModfilesOf`), and so does every `config.lua` in
  progress (`RunTypes`). `CfgIsOwn` rests on that and on `MixInv`: every
  `config.lua` in progress but the innermost has had another run inside it, and if
  the innermost has not, its own is the only table that is new since its snapshot,
  so that the first new table by name is its own. `EditsWin` is the action
  property: the end of a `config.lua` is the bind (`OnlyBindPops`), and the bind
  keeps every value the file has (`BindKeeps`), among them what the player set, in
  memory (`EditsHeld`) as well as on disk (`EditsKept`, alone the theorem
  `EditsAreKept`), since each bind and edit writes that copy over the file.
- `LegacyOrderProofs`, for the same: `NothingIsLost` and `AppliesInItsOrder`; and
  the text of a modfile, `ReadsAsWritten`.
  `Orders(s, A, val, R)` says that a sequence holds the value of each member of a
  set once, and in an order; it is kept when an entry is appended
  (`ParseInv`), when the lists of all mods follow each other (`Claims`), and
  when a filter picks from it. `OrderInv` has three parts beyond the types.
  `ParseInv`: the entries of the mod being parsed are those of the origins
  behind the parser - on an earlier line of the innermost frame, or of a frame
  under it before the Include that is open (`Behind`) - so that at the end of the
  root modfile nothing is left. `ListInv`: every mod that has been read and
  declares something is listed once with all its entries, and the list is sorted
  by priority. `ProgressInv`: what has been registered or imported is the
  beginning of what the list claims and the disk holds, and what is still to come
  is the rest; a `config.lua` that Imports a script puts the imports in hand
  aside, and the same is said of each list put aside (`InHand`). The order of
  the list becomes ModImporter's where each mod keeps to one priority and no
  Include names a folder of several modfiles (`AheadIsEarlier`), which is what
  the property supposes;
  `OrdersRank` then finds each entry at the place that the number of earlier ones
  gives it. `ReadsAsWritten` is the text itself, of any length. `TextInv` says where
  the loops are. In `split_commands` (`SplitOK`): the text before the cursor is cut
  into lexemes, the cursor stands at the start of one or inside a quote or a block
  that the text so far does not end, and what is shown of it is laid out in lines
  that the breaks part (`Layout`). In `tokenise` (`TokenOK`): of what it has come
  past, the word in hand, the words of the line and the commands of the lines
  before are those that start there (`WordsRead`, `CommandsRead`), and it is in
  quotes exactly inside the quotes of the text (`QuotedAt`). The grammar names
  places, not steps, so that no induction over the text is needed.

Assumptions: the named ASSUMEs of each module (thread names distinct, switches
boolean, tables of the right type, modfiles that are sequences of commands with
arguments of their kind, a PDB that is three passes of records, a file that has a name), which
TLC evaluates on every run.

The type invariants of `Overlay`, `ModsWindow`, `TaskQueue` and `PackageInstall`
are proved and not run.

Only model-checked: liveness, and everything under fairness (`RunsInOrder`'s
liveness, `EveryTaskRuns`, `ThawsUnlessButton`, `ScanEnds`, `ComesUp`), which the
prover does not reason about. Every invariant that a run checks is proved.

## Not modelled, and why

The screen reader, path and socket bindings hold no state; `load_bank` is a chain
of checks and one call of FMOD. What a lovely patch does to a text is an external
crate's. The drawing of settings, colours and tables, the cursor clipping and the
crash handler are calls of Win32 and ImGui. An entry of `plugins_data` whose status cannot be read is one the code skips, and
not in `disk`. In `PackageInstall` a package's size and time, which
`needs_copy` compares, stand for its version, so that an update that keeps both is
not told apart; and a record that is there and cannot be opened for reading
(`legacy_packages.cpp:80`) is left out. `LegacyConfig` leaves out a failing
snapshot (`legacy_config.cpp:99`). Mod UI on the render thread
corrupts the VM, says the comment at `gui.cpp:757`; the model has its locking and
its toggles, not the corruption. `g_legacy_mods` is read unlocked by the
overlay (`legacy_mods.cpp:635`). The layout of the PDB, the names of keys and
widgets, and the text of log lines are data. The build is not a program.

## Plan

Done, in this order: `ScriptLoading`, `ManagerLifecycle`, `TaskQueue`,
`Overlay`, `PackageInstall`, `FileRedirect`, `LogMirror`, `LegacyMods`,
`ModfileText`, `Startup`, `ContentFiles`; then `LegacyConfig`, `ModsWindow`,
`LuaSandbox`, `LovelyPatches`, and options and FMOD in `Startup`; proofs for all.

Left, were the project to go on: `LegacyMods` read by the overlay while it is
rescanned, which is a data race whose outcomes would have to be named; callbacks
registered while callbacks run; and an abstract specification of
`PackageInstall`, a set of owned files that every scan makes equal to the wanted
ones, which its scan implements when nothing fails.

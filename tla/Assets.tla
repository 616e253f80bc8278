------------------------------- MODULE Assets -------------------------------
(***************************************************************************)
(* AssetProvider (assettools/) over AbstractFactory (memcontrol/): files   *)
(* become templates, executors turn the assets in them into what a program *)
(* uses, and templates become Loadables, whose init functions run once     *)
(* their assets are there.  An init function may create other loadables,   *)
(* and an executor may make templates of the objects inside an asset.      *)
(***************************************************************************)
EXTENDS Naturals, Sequences, FiniteSets, SequencesExt

CONSTANTS Class,         \* classes derived from Loadable
          AssetId,       \* names of assets, under which executors are installed
          FolderName,    \* names of folders, as strings of paths
          AssetFile,     \* records: the id and class in a file (NoName when it
                         \* has none), its folder, and the assets it has
          Place,         \* addresses of loadables
          NoName,        \* an absent id, class, asset or folder
          MaxInside,     \* bound: objects met inside the assets of one file
          MaxCreations   \* bound: loadables created in all

\* A folder by its name, whether it begins at the root, and how often the
\* program's own folder was put before it.
Path == [name : FolderName \cup {NoName}, absolute : BOOLEAN, prefixes : Nat]

ASSUME AssetsAssumption ==
  /\ NoName \notin Class /\ NoName \notin AssetId
  /\ MaxInside \in Nat /\ MaxCreations \in Nat
  /\ \A f \in AssetFile : f.folder \in Path /\ f.folder.prefixes = 0 /\ f.assets \subseteq AssetId

VARIABLES registered,    \* classes m_factory has a creater for
          m_objects,     \* m_factory: per address, the class made there last
          m_executors,   \* the assets an executor is installed for
          m_executorPath,\* what each executor resolves paths against
          programPath,   \* args[0] is "absolute" or "relative"
          unread,        \* files the search has not come to yet
          inside,        \* history: objects met inside the file being parsed
          parsing,       \* parseTemplate calls under way, innermost last
          m_templates,   \* id -> template
          loadable,      \* per address, the loadable there
          creating,      \* createLoadable calls under way, innermost last
          lastError,     \* what the last one returned
          creations

executorVars == <<m_executors, m_executorPath, programPath, unread, inside,
                  parsing>>
creationVars == <<loadable, creating, lastError, creations>>
assetVars == <<registered, m_objects, executorVars, m_templates, creationVars>>

NoPath == [name |-> NoName, absolute |-> FALSE, prefixes |-> 0]

\* What was made of a file's assets: the folder of the file, the paths that were
\* resolved, and whether an executor met an object on the way.
NoAssets == [from |-> NoPath, paths |-> {}, nested |-> FALSE]

NoTemplate == [class |-> NoName, assets |-> NoAssets]

\* registeredInits and ran are history: the functions the constructor registered,
\* and those that ran.
NoLoadable == [class |-> NoName, assets |-> NoAssets, m_initFunctions |-> <<>>,
               m_released |-> FALSE, registeredInits |-> <<>>, ran |-> <<>>]

InitAssets ==
  /\ registered = {}
  /\ m_objects = [p \in Place |-> NoName]
  /\ m_executors = {}
  /\ m_executorPath = [a \in AssetId |-> NoPath]
  /\ programPath = "absolute"
  /\ unread = AssetFile
  /\ inside = 0
  /\ parsing = <<>>
  /\ m_templates = [id \in {f.id : f \in AssetFile} \ {NoName} |-> NoTemplate]
  /\ loadable = [p \in Place |-> NoLoadable]
  /\ creating = <<>>
  /\ lastError = "none"
  /\ creations = 0

-----------------------------------------------------------------------------
(* Templates *)

\* A path with the program's folder before it: it begins where args[0] does.
Under(path, prefixes) ==
  [name |-> path.name, absolute |-> programPath = "absolute", prefixes |-> prefixes]

\* Slip: the program's folder goes before every path.
absolutePath_always(path) == Under(path, path.prefixes + 1)

\* Context::absolutePath: relative paths begin where the program is.  With a
\* relative args[0] that is a relative path again.
absolutePath(path) ==
  IF path.absolute THEN path
  ELSE Under(path, path.prefixes + 1)

\* A call of parseTemplate for an object of the file f with these assets.
Frame(f, path, assets) ==
  [file |-> f, path |-> path, todo |-> assets, proceeding |-> NoName, paths |-> {}]

Innermost == parsing[Len(parsing)]

\* The innermost call is between two assets, or an executor proceeds in it.
Between == parsing # <<>> /\ Innermost.proceeding = NoName
Proceeding == parsing # <<>> /\ Innermost.proceeding # NoName

\* processFile, file after file by searchInFolder before the application's loop
\* begins.  What has no id or no class is left at once.
ProcessFile(f) ==
  /\ parsing = <<>> /\ f \in unread
  /\ unread' = unread \ {f}
  /\ parsing' = IF f.id = NoName \/ f.class = NoName THEN <<>>
                ELSE <<Frame(f, f.folder, f.assets)>>
  /\ UNCHANGED <<registered, m_objects, m_executors, m_executorPath, programPath,
                 inside, m_templates, creationVars>>

\* Slip: the executor is told its path only once.
ParseAsset_once(a) ==
  /\ Between /\ a \in Innermost.todo
  /\ parsing' = [parsing EXCEPT ![Len(parsing)].todo = @ \ {a},
                    ![Len(parsing)].proceeding = IF a \in m_executors THEN a ELSE NoName]
  /\ m_executorPath' = IF a \in m_executors /\ m_executorPath[a] = NoPath
       THEN [m_executorPath EXCEPT ![a] = absolutePath(Innermost.path)]
       ELSE m_executorPath
  /\ UNCHANGED <<registered, m_objects, m_executors, programPath, unread, inside,
                 m_templates, creationVars>>

\* The loop of parseTemplate: an executor is told its path and proceeds; an asset
\* without one stays what it is.
ParseAsset(a) ==
  /\ Between /\ a \in Innermost.todo
  /\ parsing' = [parsing EXCEPT ![Len(parsing)].todo = @ \ {a},
                    ![Len(parsing)].proceeding = IF a \in m_executors THEN a ELSE NoName]
  /\ m_executorPath' = IF a \in m_executors
       THEN [m_executorPath EXCEPT ![a] = absolutePath(Innermost.path)]
       ELSE m_executorPath
  /\ UNCHANGED <<registered, m_objects, m_executors, programPath, unread, inside,
                 m_templates, creationVars>>

\* What an executor may do while it proceeds: resolve a path of the asset,
fullPath ==
  /\ Proceeding
  /\ parsing' = [parsing EXCEPT ![Len(parsing)].paths =
                    @ \cup {m_executorPath[Innermost.proceeding]}]
  /\ UNCHANGED <<registered, m_objects, m_executors, m_executorPath, programPath,
                 unread, inside, m_templates, creationVars>>

\* or hand an object inside the asset back to parseTemplate, which sets the
\* m_executorPath of the executors it meets, the same one's included,
createTemplate(assets) ==
  /\ Proceeding /\ inside < MaxInside
  /\ inside' = inside + 1
  /\ parsing' = Append(parsing, Frame(Innermost.file, m_executorPath[Innermost.proceeding],
                                     assets))
  /\ UNCHANGED <<registered, m_objects, m_executors, m_executorPath, programPath,
                 unread, m_templates, creationVars>>

\* and return.
ProceedEnd ==
  /\ Proceeding
  /\ parsing' = [parsing EXCEPT ![Len(parsing)].proceeding = NoName]
  /\ UNCHANGED <<registered, m_objects, m_executors, m_executorPath, programPath,
                 unread, inside, m_templates, creationVars>>

\* parseTemplate returns, to the executor, which uses what is in the template,
\* or to processFile, which adds it.
ParseEnd ==
  LET t == Innermost
      outer == Len(parsing) - 1
  IN /\ Between /\ t.todo = {}
     /\ IF outer = 0
          THEN /\ parsing' = <<>> /\ inside' = 0
               /\ m_templates' = [m_templates EXCEPT ![t.file.id] =
                    [class |-> t.file.class,
                     assets |-> [from |-> t.file.folder, paths |-> t.paths,
                                 nested |-> inside > 0]]]
          ELSE /\ parsing' = [Front(parsing) EXCEPT ![outer].paths = @ \cup t.paths]
               /\ UNCHANGED <<inside, m_templates>>
     /\ UNCHANGED <<registered, m_objects, m_executors, m_executorPath, programPath,
                    unread, creationVars>>

\* Before and after the search, between two calls of the provider or in an init
\* function.
ProgramActs ==
  /\ unread \in {{}, AssetFile} /\ parsing = <<>>
  /\ creating # <<>> => Last(creating).running

RegisterType(c) ==
  /\ ProgramActs
  /\ registered' = registered \cup {c}
  /\ UNCHANGED <<m_objects, executorVars, m_templates, creationVars>>

\* Installed after the search, an executor would never be told an asset.
InstallExecutor(a) ==
  /\ ProgramActs /\ unread = AssetFile
  /\ m_executors' = m_executors \cup {a}
  /\ m_executorPath' = [m_executorPath EXCEPT ![a] = NoPath]
  /\ UNCHANGED <<registered, m_objects, programPath, unread, inside, parsing,
                 m_templates, creationVars>>

\* main's arguments: known before any asset is.
StartedBy(path) ==
  /\ unread = AssetFile
  /\ programPath' = path
  /\ UNCHANGED <<registered, m_objects, m_executors, m_executorPath, unread, inside,
                 parsing, m_templates, creationVars>>

-----------------------------------------------------------------------------
(* Loadables *)

\* createLoadable that ends in TemplateNotFound or TypeNotRegistered.
CreateFails(id) ==
  LET t == m_templates[id]
  IN /\ ProgramActs
     /\ t.class \notin registered
     /\ lastError' = IF t = NoTemplate THEN "TemplateNotFound" ELSE "TypeNotRegistered"
     /\ UNCHANGED <<registered, m_objects, executorVars, m_templates,
                    loadable, creating, creations>>

\* createLoadable<T>: the factory makes the object at p, whose constructor
\* registers inits functions, and the template fills it.
CreateBegin(id, p, T, inits) ==
  LET t == m_templates[id]
      functions == [i \in 1 .. inits |-> i]
  IN /\ ProgramActs
     /\ t.class \in registered
     /\ loadable[p] = NoLoadable
     /\ creations < MaxCreations
     /\ creations' = creations + 1
     /\ m_objects' = [m_objects EXCEPT ![p] = t.class]
     /\ loadable' = [loadable EXCEPT ![p] =
          [NoLoadable EXCEPT !.class = t.class, !.assets = t.assets,
                             !.m_initFunctions = functions,
                             !.registeredInits = functions]]
     /\ creating' = Append(creating, [place |-> p, type |-> T, at |-> 0,
                                      running |-> FALSE])
     /\ lastError' = "none"
     /\ UNCHANGED <<registered, executorVars, m_templates>>

\* The loop over the init functions.
InitBegin ==
  LET c == Last(creating)
      functions == loadable[c.place].m_initFunctions
  IN /\ creating # <<>>
     /\ ~c.running
     /\ c.at < Len(functions)
     /\ creating' = [creating EXCEPT ![Len(creating)].at = @ + 1,
                                     ![Len(creating)].running = TRUE]
     /\ loadable' = [loadable EXCEPT ![c.place].ran = Append(@, functions[c.at + 1])]
     /\ UNCHANGED <<registered, m_objects, executorVars, m_templates, lastError, creations>>

\* The function returns.  Had it registered another it would have changed the
\* vector under the loop: undefined, and left out.
InitEnd ==
  /\ creating # <<>>
  /\ Last(creating).running
  /\ creating' = [creating EXCEPT ![Len(creating)].running = FALSE]
  /\ UNCHANGED <<registered, m_objects, executorVars, m_templates, loadable,
                 lastError, creations>>

\* Slip: the object is handed out before its last init function ran.
CreateEnd_early ==
  LET c == Last(creating)
      cast == loadable[c.place].class = c.type
  IN /\ creating # <<>>
     /\ ~c.running
     /\ c.at + 1 >= Len(loadable[c.place].m_initFunctions)
     /\ loadable' = [loadable EXCEPT ![c.place] =
          IF cast THEN [@ EXCEPT !.m_initFunctions = <<>>, !.m_released = TRUE]
                  ELSE NoLoadable]
     /\ lastError' = IF cast THEN "none" ELSE "LoadableCastFailed"
     /\ creating' = Front(creating)
     /\ UNCHANGED <<registered, m_objects, executorVars, m_templates, creations>>

\* The functions are cleared, later ones are not taken any more, and the object
\* is cast to T; if it is none it is deleted.
CreateEnd ==
  LET c == Last(creating)
      cast == loadable[c.place].class = c.type
  IN /\ creating # <<>>
     /\ ~c.running
     /\ c.at = Len(loadable[c.place].m_initFunctions)
     /\ loadable' = [loadable EXCEPT ![c.place] =
          IF cast THEN [@ EXCEPT !.m_initFunctions = <<>>, !.m_released = TRUE]
                  ELSE NoLoadable]
     /\ lastError' = IF cast THEN "none" ELSE "LoadableCastFailed"
     /\ creating' = Front(creating)
     /\ UNCHANGED <<registered, m_objects, executorVars, m_templates, creations>>

\* The program deletes a loadable it was given; m_objects keeps the address.
Delete(p) ==
  /\ ProgramActs
  /\ loadable[p].m_released
  /\ loadable' = [loadable EXCEPT ![p] = NoLoadable]
  /\ UNCHANGED <<registered, m_objects, executorVars, m_templates, creating,
                 lastError, creations>>

NextAssets ==
  \/ \E c \in Class : RegisterType(c)
  \/ \E a \in AssetId : InstallExecutor(a)
  \/ \E path \in {"absolute", "relative"} : StartedBy(path)
  \/ \E f \in AssetFile : ProcessFile(f)
  \/ \E a \in AssetId : ParseAsset(a)
  \/ fullPath
  \/ \E assets \in SUBSET AssetId : createTemplate(assets)
  \/ ProceedEnd
  \/ ParseEnd
  \/ \E id \in DOMAIN m_templates : CreateFails(id)
  \/ \E id \in DOMAIN m_templates, p \in Place, T \in Class, inits \in {0, 2} :
        CreateBegin(id, p, T, inits)
  \/ InitBegin
  \/ InitEnd
  \/ CreateEnd
  \/ \E p \in Place : Delete(p)

SpecAssets == InitAssets /\ [][NextAssets]_assetVars

-----------------------------------------------------------------------------

\* The folder of a file as seen from where the program was started: its own, or
\* the one of that name beside the program.
Beside(folder) ==
  IF folder.absolute THEN folder
  ELSE Under(folder, 1)

\* Every path that was resolved is in the folder of the file, unless the program
\* was started by a relative path and met an object inside: each object puts the
\* program's folder before the path of its executors once more, also for what
\* comes behind it in the asset around it.
InTheirFolder(assets) ==
  programPath = "absolute" \/ ~assets.nested
    => \A path \in assets.paths : path = Beside(assets.from)

(***************************************************************************)
(* However the creations are nested, a loadable that was handed out ran    *)
(* all the init functions its constructor registered, each once and in     *)
(* their order; every other one is being created by one call, and the      *)
(* functions that ran are the ones before where that call is.  The factory *)
(* knows the class of each, also at an address another had before.  And    *)
(* although the executors share one path each, which every file and every  *)
(* object inside an asset sets anew, what was resolved for a file's assets *)
(* lies in the folder of that file (see InTheirFolder for what is not).    *)
(***************************************************************************)
LoadablesReady ==
  /\ \A p \in Place : loadable[p] # NoLoadable =>
      LET l == loadable[p]
      IN /\ m_objects[p] = l.class
         /\ InTheirFolder(l.assets)
         /\ \/ /\ l.m_released /\ l.m_initFunctions = <<>>
               /\ l.ran = l.registeredInits
            \/ /\ ~l.m_released
               /\ \E i \in DOMAIN creating :
                    /\ \A j \in DOMAIN creating : creating[j].place = p <=> j = i
                    /\ l.ran = SubSeq(l.registeredInits, 1, creating[i].at)
  /\ \A id \in DOMAIN m_templates : InTheirFolder(m_templates[id].assets)
=============================================================================

# simpleinfra in TLA+

Models of the programs in the Rust project's infrastructure repository that
keep state, run concurrently with something, or have to survive failures: the
two Fastly Compute programs, the CDN routers of crates.io and of the releases,
the docs.rs builder fleet, the script around the release signing key, and the jobs
that timers and workflows run. TLC checks them on small instances; TLAPS proves
most of the safety properties, and one refinement, for every instance.

Most of the repository is declarations (Terraform, Terragrunt, Ansible). They
are modelled where they take part in a protocol: a launch hook, a systemd
dependency, a schedule, the origins of a CDN.

Paths below are relative to the repository. Every definition that stands for
code is listed with its lines in `PROJECT.json` under `map`.

## The system

| Component | State it keeps | Operations | Interacts with | What is hard |
|---|---|---|---|---|
| docs.rs edge program (`terraform/docs-rs/fastly-compute-docs-rs`) | per POP: copies of the config and secret stores, the cache; per request: its headers | `Context::load`, firewall inspection, forward to shield or origin, `after_send` | the same program on the shield POP, the origin, the operator who edits the stores | the halves of one decision are taken on two POPs, whose copies of the stores differ while an edit spreads |
| static.crates.io edge program (`terragrunt/modules/crates-io/compute-static`) | the cache; per request: primary or fallback | route, cache policy, send, fail over, edit answers | two S3 buckets with partial replication, uploads, purges, concurrent requests through one cache | an answer read before an upload or a purge is stored after it; HEAD, ranges and compression are decided apart |
| crates.io routers (`cloudfront-functions/static-router.js`, `vcl/*`) | none | rewrite or redirect a path | each other, by redirects, and the program above | three languages, one set of URLs |
| release routers (`terragrunt/modules/release-distribution`, `win-rustup-rs`, `prev_rust_lang_org_redirect.js`) | none | rewrite or redirect a path | each other, S3 websites, and each its counterpart on the other CDN | years of renamed pages; every redirect is routed afresh, and S3 adds redirects of its own |
| docs.rs builders (`terragrunt/modules/docs-rs`) | ASG places, the boot script, `builder.service`, the container | bootstrap, launcher, restart, rerun, replacement | SSM secrets, the launch hook | every command may fail, secrets rotate while they are fetched |
| `docker` role (`ansible/roles/docker`) | local images, units, containers | `update.sh` at boot and on a timer, container units | the registry, each other | two units run one script at the same time; systemd dependencies |
| release key (`with-rust-key.sh`) | `$GNUPGHOME` in `/dev/shm`, gpg-agent | create, import, run the command, trap | other runs on the machine | the directory is the lock; runs are interrupted and killed |
| `team_login` (`ansible/roles/dev-desktop/files/team_login`) | accounts, key files | one run every five minutes | overlapping runs, the team API | a run acts on an old list, or dies halfway |
| CI image builder (`terragrunt/modules/ci-runners/lambda`) | machine images, SSM parameter | build, publish, deregister, report | the runners that use the published image | days of failures between two of its steps |
| `letsencrypt` role | certificate, what services have read | renew, hooks, retries | lego, the services | a hook fails after the renewal |
| playground update (`ansible/roles/playground`) | artifacts, the server | hash, sync, chmod, restart | S3, systemd, the server | the server crashes during the update |
| firewall (`ansible/roles/common`) | tables of iptables | clean up, create, append, jump | systemd, other roles | ignored failures; order of commands |
| Crater agents (`terraform/crater`) | images, agent container | startup script, `update.sh` | the registry, the autohealer | a list of images stands for "has it changed" |
| `backup` role | restic snapshots, dumps | status/init, plan by plan, forget | PostgreSQL dump script | one plan fails among several |
| ECS uploads (`github-actions/upload-docker-image`, `aws-rollback.py`, `terragrunt/modules/ecr-repo`) | images and the tag in ECR, the service's deployment and tasks | push, redeploy, list, retag, expire, replace tasks | two workflows, an operator, the lifecycle policy, ECS | the tag and the tasks change apart from each other |
| dev-desktop clean-up (`clean-unused-checkouts.sh`) | build directories | find, check, delete, per home | owners at work | the owner comes back between the check and `rm -rf` |

Not modelled, and why:

- The playground's `gc.sh`: it looks at all containers afresh every 15 minutes and
  keeps nothing; a container that ends between `docker ps`, `inspect` and `kill`
  makes one run print an error.
- How ECS counts healthy tasks during a deployment (the docs.rs registry watcher
  must not run twice: `watcher.tf`, at least 0 and at most 100 percent): nothing
  but ECS decides it.
- `start-release`, `promote-release.py`, `tag-cargo.sh`, the operator tools
  (`aws-creds.py`, `aws-psql.py`, `run-task.sh`, `setup-deploy-keys`,
  `ansible/apply`, `import-state.py`), the user scripts of the dev desktops and
  the git credential helper: one call or a few in a row, made by one person,
  with no state of their own.
- Access logs, Lambda packaging: data and formatting. `terraform/domain-redirects`:
  buckets that redirect every path to one address each.
- Declarative roles and resources: no behaviour beyond that of Ansible,
  Terraform and the cloud.

## Modules

Variables and actions carry the names of the source where there is one. An
action stands for one step that others can see: a command of a script, a call
that leaves the program, a handler up to its next send. Operators named `Bug...`
are wrong versions of the definition that follows them; they are used nowhere
and exist to show that a property notices such a mistake.

### docs.rs edge: `DocsRsEdge`, `MCDocsRsEdge`, `DocsRsEdge_proofs`

A request is a stack of calls to `handle`, one per POP (`calls`). `Publish`
edits the stores; `PropagateConfig` and `PropagateSecret` let one POP catch up.
`ClientSends` starts a request with any of the four internal headers invented.
`Load` is everything up to the firewall: `Context::load` (`ShieldContext`), the
method check, the request ID (`WithRequestId`) and the origin's secret
(`WithOriginAuth`). `Block` and `Allow` are the two outcomes of `ngwaf::inspect`
with the identity headers (`WithIdentity`) in between; `CacheHit`,
`SendToShield`, `SendToOrigin` and `SendFails` are the outcomes of `send`;
`OriginAnswers` and `ShieldAnswers` include `after_send` (`Stored`) and the tail
of `handle` (`Finish`, HSTS). Every early return is an action of its own:
`SecretMissing`, `ShieldBackendFails`, `MethodNotAllowed`.

Abstracted: hosts, addresses and IDs are model values; the ID of a request is
the pair of the request and the depth of the call that made it, so that "who
named this request" is visible; a response is its status, what caching headers
it has, and HSTS. A cache holds responses without a key: any read may hit any of
them, which is more than the platform allows. The access log and the wording of
messages are left out.

### static.crates.io: `CratesRouting`, `CratesStatic`, `MCCratesStatic`, `CratesFraming`, `CratesStatic_proofs`, `CratesFraming_proofs`

`CratesRouting` has the three routers as operators on paths (`FastlyRoute`,
`CloudFrontRoute`, `WebappRoute`).

`CratesStatic` handles requests with it. `Receive` is `main` up to the first
`send`, with the method check, PURGE and redirects; `SendHits`, `SendMisses`,
`SendFindsServerError` and `SendFails` are what `send` may find; `Store` is the
`after_send` callback of `set_cache_policy` with what Fastly then does;
`FallBack` and `Respond` are the two ends of `send_request_to_s3`. Between
`SendMisses` and `Store` anything may happen: an upload, replication, a purge,
another request. `lost` are the buckets a request could not be sent to, which ends
it with a 500 at once. `oneCache` leaves open whether the cache tells the two buckets
apart; every property has to hold either way. Keys, TTLs and tags are kept;
bodies are a version number.

`CratesFraming` is the arithmetic after the response: ranges,
`unsatisfiable_range_response`, `enable_dynamic_compression` and the framing
of HEAD, for a GET and a HEAD with the same headers, each answered by S3 or by
the cache.

### The routers together: `UrlPaths`, `ReleaseRouting`, `Redirects`, `MCRedirects`, `Redirects_proofs`

`UrlPaths` says what a path is: a sequence of segments and a segment a sequence of
atoms, because where a plus is encoded, which prefix matches and where a slash is
missing is what the properties are about; the rest of a name is one atom. It has
the string operations of the routers (`StartsWith`, `Replace`, `Collapse`).

`ReleaseRouting` has `DocRoute` (`doc-router`, branch by branch: the versions, the
crates that moved to docs.rs, the renamed books under each prefix, `/master`,
`/doc/`), `StaticRoute` and `StaticFastlyRoute` (the Lambda function of
static.rust-lang.org and the VCL that says the same), `WinRoute` (short names of
the installers) and `PrevRoute`.

`Redirects` composes all routers: two clients start at one URL, one is sent to
Fastly by DNS and the other to CloudFront, and both follow redirects from site to
site. What `error.vcl` answers to `Accept: json` is left out, a body with status 200 for
clients that do not follow redirects. `Website` is the S3 website behind doc.rust-lang.org, which answers for a
directory with its index and redirects to it when the slash is missing, with the
`/doc` that CloudFront put in front of the key. `Documented` is what is published where:
the URLs of each version of a crate, the short names of the installers, and the
spellings of each page. What a spelling is, `Serves` and `Older` say, from what the
tests and comments name: a path of today, or an older one for another spelling
(`AreSpellings`). Any number of pages and spellings may be published; `MCRedirects` has
two versions of one crate and the spellings that it makes for its pages, old names
of old names included, 316 URLs.

### docs.rs builders: `DocsRsBuilders`, `MCDocsRsBuilders`, `DocsRsBuilders_proofs`

Per place of the group: `asg` (the state of the instance), `boot`
(`builder-startup.sh`: `Install`, `StartService`, `Look`, `Confirm`, `Report`,
`BootFails` with its trap), `service` (`builder-launcher.sh` under systemd:
`Fetch` per secret, `ListFails`, `Pull`, `DockerRun`, `LauncherFails`, `Restart`) and `docker`
(`ContainerExits`, `ClientDies`). `Launch`, `Terminate`, `Terminated` and
`Complete` are the group. A script that fails may or may not get its report
through (before the AWS CLI is installed its trap says nothing); `HookTimesOut` is
what the group does when none came, and the script goes on until the host is gone, so
that a report may come too late. `ListFails` is the `jq` of the loop over the secrets,
whose status the launcher does not see: it goes on without any (`bare`). `Rotate` replaces a secret at any moment, `Rerun` is
the operator's manual rerun. A secret is the number of its version.

### Docker images: `DockerImages`, `MCDockerImages`

`script` has a run of `update.sh` per unit (boot pull and timer); `LoginAndReadOld`,
`Pull`, `PullFails` (with `retry`), `SameImage`, `RequestRestart` and
`RestartReturns` are its steps. `ScriptFails` ends a run anywhere, by a command
without a retry (the login is one) or a signal; the containers it leaves with a new
image and no restart are in `left`. `service` and `running` are the container units:
a start job waits for the boot pull and fails with it. `Push`, `Reboot` and
`ContainerCrashes` are the world.

### Release key: `RustKey`, `KeyVault`, `RustKey_proofs`

`pc` says where each run is: the test for the directory, `mkdir`, `chmod`, the
trap, the imports, the passphrase, the command, the trap's two commands.
`Interrupted` is a failure or a signal under the trap, `Killed` one without it;
`FlushFails` is the trap ending early under `set -e`. `AgentForgets` is the TTL of
gpg-agent.

`KeyVault` is what the script promises to those who run it at the same time, with
no directory and no steps: a vault that one run has at a time (`Take`, `GiveBack`),
finds empty, fills (`Put`), and serves its command from only when every key is in
it (`Serve`, `Stop`); a run that dies with it (`Lose`) keeps everybody else out.
`RustKey` maps onto it: the holders are the runs between `mkdir` and the end of the
trap, the keys are the keyring, and the vault is served from during the command.

### ECS: `EcsDeploy`

Images are numbered as they are pushed. `ci` says where each workflow is in
`upload-docker-image` (`Prepare`, `Push`, `Redeploy`; `Fails` before or after the
effect of any step), `rollback` where the operator is in `aws-rollback.py`
(`ListImages`, `Pick`, `GetManifest`, `Retag`, `FindService`, `ForceRedeploy`), and
`Expire` is the lifecycle policy of the repository. `ReplaceTask` and `RestartTask`
are ECS: a new task may get what the tag stood for when the deployment was made,
or what it stands for now (`Pullable`).

### Jobs: ten modules, `ScheduledJobs`, `ScheduledJobs_proofs`, `Firewall_proofs`

`TeamLogin`, `AmiBuilder`, `SslRenewal`, `PlaygroundUpdate`, `Firewall`,
`CraterAgent`, `BackupPlans` and `CheckoutCleanup` each model one script as
started again and again. `ScheduledJobs` instantiates these eight, `DockerImages`
and `EcsDeploy`; the jobs are on different machines and share nothing, so a
behaviour chooses one of them (`which`) and the others' variables stay. The choice
is initial and permanent, so the state space is the sum of the ten, not the
product, and no interaction is lost.

- `TeamLogin`: overlapping runs of `main`, a step per command that the program
  runs for a user, and two for a key file it deletes, which another run may delete
  in between (`RemoveKeysFails`); `Dies` is any `unwrap`, `UserAddFails` the assertion.
- `AmiBuilder`: an invocation per architecture and day: Zulip report, packer,
  list, parameter, deregister one by one, in any order of the images; `Fails` at any
  of them, `SeedByHand` is the first value that an operator stores. `dangling` has the
  architectures whose parameter a run that was cut short there left without its image.
- `SslRenewal`: a week is a step; `Renew` or `NothingToRenew`, the hooks in
  order, `Fail` anywhere, `NextWeek` with a bound on bad weeks in a row.
- `PlaygroundUpdate`: hash, sync in two orders, chmod, compare, stop, start;
  `ServerCrashes` between any two, up to the limit of starts where systemd gives up
  (`gaveUp`); `StopFails` is the stop whose failure is ignored, `Cut` ends a run.
- `Firewall`: the script is a sequence of commands computed from the roles
  (`CleanUp`, `Enable`); a command has its effect if it is possible, may fail by
  chance, and its failure is ignored (`Ignored`) or ends the run, as in the
  script. One table of the two; an unlucky command on the other one is
  `SkipTable` or the end of the run.
- `CraterAgent`: startup script, timer, `update.sh` with its comparison of image
  lists, `Preempt` and `Heal`.
- `BackupPlans`: a run a day, plans in any order, `PlanFails` at any command of a
  plan, `Forget` keeps the newest days.
- `CheckoutCleanup`: home by home, `FindCaches`, `Check`, `Delete`; owners use
  their checkouts (`Use`) at any moment and may leave directories that cannot be read
  (`HomeFails`) or not be deleted (`RmFails`). `--dry-run` and another `--time` are not modelled.

## What the runs check

Runs marked *violated* state what a comment or a document promises; TLC finds
the behaviour of the code that breaks it (section "Disagreements").

| Run | Question | Bounds |
|---|---|---|
| `docsrs_skew` | Can anything a client invents reach the origin, while the stores change under a request? | 3 POPs, 1 request, 2 secrets, 1 edit, 4 contents of the config store |
| `docsrs_two_clients` | With the stores at rest, does the origin learn the real client, once inspected, over at most two POPs? Can a client get an answer without HSTS, also one that a call for another POP left in a cache, at rest or not? | 2 POPs, 2 requests of 2 clients (symmetric), 1 secret, 1 edit |
| `docsrs_rotation` | *violated*: is the request ID preserved on shield POPs? | as `docsrs_skew`, one shield |
| `docker_shared_image` | *violated*: is every container on its image after an update, also if two share one? | 2 containers, 1 image, no failures |
| `redirects` | Do the CDNs agree, do redirects end, and is everything published found at every URL it has had? | per site, every path of up to 2 to 4 segments over up to 10, the API's paths, and two renamings of each page of the documentation |
| `crates_cache` | Does an error, a purged or a missing file stay visible? | 2 requests, 2 versions, 2 errors, 1 purge, 1 key |
| `crates_framing` | Does HEAD announce what GET sends; do ranges end? | up to 2 bytes, numbers to 4 that parse and 5 that does not |
| `builders` | Are secrets fresh, hosts admitted rightly, and does the fleet recover? | 1 place, 2 secrets, 3 failures, 1 rotation, 1 rerun |
| `rust_key` | Do concurrent and dying runs implement the vault, and is nothing left? | 3 runs, 3 keys |
| `scheduled_jobs` | Does each job make good for its failed runs? | below |
| `ecs_rollback` | *violated*: does a rollback redeploy the service? | 1 upload, 1 task, 1 rollback, no failures |
| `team_login_sweep` | *violated*: do revoked users lose their keys even if one account cannot be created? | 2 users, 1 run |

In `scheduled_jobs`: 2 users, 2 overlapping runs, 3 changes of the team, 1 death;
2 architectures, images kept for 1 day after which they are deregistered (14 in
the code), 3 failed builds; 2 hooks, 13 weeks of validity, renewal in the last 4,
3 bad weeks in a row; 3 playground binaries, 2 cut runs; 1 role with a port, 3
commands that fail; 3 Crater images, 1 rollback, 2 accidents; 2 plans, one with a
dump, 2 days kept of 4, 3 errors; 2 homes of 2 checkouts, one with quoted names, 2
uses; 2 containers with an image each, 2 versions, 2 attempts, 2 failed pulls, 1 run
of the script that ends early, 1 reboot; 2 uploads to one service of 1 task, 1 rollback, 1 untagged image kept (3 in
the code), 1 failed call.

Why these bounds are enough for the question asked:

- Two POPs can disagree about a store and three can do so about who the shield
  is; one edit separates two values, and the hop limit of 3 lets a request be
  forwarded once more than intended.
- Two requests are what it takes to meet in a cache or in an account; two
  versions, to be stale; two failures out of two attempts, to exhaust the
  retries.
- Three runs of the key script: one inside, one between its test and its `mkdir`,
  one that starts after a kill.
- One place of the builder group: places share only the secrets, which no place
  writes. Three failures can hit the bootstrap, its trap and the host in turn.
- The weeks of the certificate are the code's own numbers rounded to weeks: 90
  days, 30 days before the end.
- Two uploads are one to overtake the other; a third image is the one before them,
  to be rolled back to or deleted. With one untagged image kept, the lifecycle
  policy acts as soon as there are two.
- The routers look at no more than four segments, and no rule rewrites a path
  into one that needs a longer look; `Longest` grows with the number of `/doc`.
- The numbers of `crates_framing` exceed the object by two where they parse, so that a
  range starts inside, at, and past the end; `TooLarge`, one above `MaxU64`, stands
  for all that do not.

Deadlock is checked except where the modelled system really stops: requests
that have all been answered (`docsrs_*`), both clients arrived
(`redirects`), both answers given (`crates_framing`), and the builder
group (`builders`), which may have nothing left to do when its bounds are used up.

### What the properties say

- **docs.rs edge.** `NoForgedIdentity`: what the origin is sent has a real secret
  and identity headers a POP wrote, whatever the copies of the stores are.
  `IdentityIsPreserved`: at rest, it is the right client, the first POP's request
  ID, one inspection. `ClientsGetHsts`: also out of a cache that a call for an
  edge POP filled, on behalf of another request.
- **static.crates.io.** `FallbackIsReached`: a client sees a server error only if
  both buckets failed its own request, or its request could not be sent to the
  bucket asked last. The latter includes the primary: the error of `send` leaves
  `main.rs:247` by `?`, and the fallback is not asked. `PurgeLeavesNothing`: a purge drops
  everything stored before it. `MissingIsForgotten`: after an upload, "missing"
  leaves the cache for good. `HeadAnnouncesGet`. `NothingBeyondTheEnd`: a range that
  starts beyond the end gets no body, unless its first byte does not parse as a u64:
  then a 206 of the cache keeps its body, as a test of `main.rs` wants it.
- **Routers.** `RedirectsEnd`: no chain of redirects, through any number of sites
  and S3, comes back. `SameFileOnBothCdns`: both CDNs lead to the same key
  of the same bucket, or to the same other site, for every URL. `PublishedIsFound`: every file is reached from each URL that
  documents, tests and comments name for it, old names included.
- **Builders.** `EverySecretIsFresh`: a builder runs with all secrets, none older than
  its start, or with none when the launcher could not list them; never with a part
  or with those of the last start. `AdmittedAfterTwoLooks`; `FleetRecovers`: every
  place ends up with a builder that runs, or with one that a rerun by hand stopped.
- **Docker.** `OutdatedIsRestarted`: no container falls behind unseen. `NewestRuns`:
  each ends up with the newest image.
- **ECS.** `UploadIsServed`: what a successful upload with a redeployment left as
  latest ends up in every task, whatever other uploads did in between.
  `PreviousIsKept`: the lifecycle policy leaves the image before the latest.
- **Release key.** `IsAVault` (the refinement), `CommandHasTheKeys`, `NoTraces`.
- **Jobs.** `RevokedLoseKeys` and `MembersGetIn` (accounts follow the team),
  `NamedIsRegistered` and `PublishedDaily` (the image that runners are started from
  exists, and is young), `NeverExpired` (no service serves an expired certificate),
  `NewestIsServed`, `EnabledIsExact`, `CleanRunSucceeds` and `SshStaysOpen`
  (firewall), `AgentIsCurrent`, `OthersAreBackedUp`, `InUseIsKept` and
  `UnusedIsDeleted`.

Several of them hold only with an exception that the statement names, because
the code has no means for that case: `MembersGetIn` leaves out users during the
creation of whose account a run died, `NewestIsServed` a binary whose run was cut
between the copy and the restart or could not stop the old server, and a server that
systemd gave up on, `AgentIsCurrent` such a run of Crater's
`update.sh` and a rollback to an image the machine still has, `InUseIsKept` a
checkout used after the listing of its home or in a home with quotes in its
names, `FleetRecovers` a rerun that failed on a host in service (`LeftByRerun`),
`UploadIsServed` an upload that failed or redeploys nothing, `PreviousIsKept` an
image an operator had gone back to, `OthersAreBackedUp` a run that ended before its
plans, `UnusedIsDeleted` homes that cannot be read, and what comes by name at or after
a directory that cannot be deleted. `OutdatedIsRestarted` and `NewestRuns` except a
container that a run left behind by ending between its pull and the restart, and
`NewestRuns` one that is down after a run of the script that failed: a login is tried
once, a pull a few times. `NamedIsRegistered` excepts an architecture whose named
image is past the retention, after days of failures: `update_ami` then deregisters it
and publishes the new one in the order in which it finds the images, and the parameter
names nothing in between, or until another day if a call in between fails.

`SameFileOnBothCdns` names three differences between the routers
(`KnownDifference`): the VCL of static.rust-lang.org matches `req.url`, query
included, where the Lambda function sees the path alone; it wants a slash after
`/doc/master`; and the Compute program finds a database dump at the end of any URL,
where CloudFront asks S3 for that path. `PublishedIsFound` leaves out one URL: the
directory of a version without its slash (`/1.36.0`) is no version to `doc-router`
and is looked for below `/stable`.

### Fairness

Liveness is checked under weak fairness of what the platform keeps doing, and of
nothing else:

- timers, cron and schedules fire (`TimerFires`, `CronFires`, `NextDay`): systemd,
  cron and EventBridge start the next run whatever became of the last one;
- a started script takes its next step, where a step includes failing (`Step`,
  `Script`, `Launcher`, `Sweep`, `StartUp`, `Update`): commands return;
- start jobs of systemd are carried out once their dependencies are settled;
- the Auto Scaling group and the autohealer replace what is gone, and the launch
  hook times out (`Group`, `StartUp`);
- a workflow's job goes on (`Upload`), and ECS carries out its newest deployment
  (`ReplaceTask`);
- a request in progress is handled (`Handle`), and an expired cache entry is not
  served again (`Expire`).

Clients, operators, uploads, pushes, publications, rotations, reboots, crashes
and failures are never fair: they may happen or not, up to the bounds. The runs
without a liveness property use the specification without fairness.

## Disagreements between the code and what it says

1. `docsrs_rotation`. "On shield POPs, preserve the ID set by the edge POP"
   (`main.rs:142` of the docs.rs program). The shield POP recognises an edge POP by
   the secret. While the secret is replaced and the two POPs have different
   copies, it takes the edge POP for a client: the request gets a new ID, and the
   origin the address of the edge POP. `NoForgedIdentity` holds all the same:
   nothing the client wrote gets through.
2. `docker_shared_image`. "Every time the timer pulls a new image the related
   container is restarted" (`ansible/roles/docker/README.md:23`). `update.sh`
   compares image IDs around the pull it makes for each container; when two
   containers have one image, the second pull changes nothing, and its container
   stays on the old image until the next push.
3. `team_login_sweep`. "Delete all keys for users that weren't on the list"
   (`main.rs:94` of `team_login`). The deletion comes after the loop over the
   members, and `assert!` ends the program in the loop: a member whose account
   `useradd` refuses for good keeps everybody's keys from being deleted.
4. `ecs_rollback`. "successfully rollback and re-deploy" (`aws-rollback.py:39`).
   `main` calls `force_redeploy()` without its argument, after the tag was moved: the
   program ends with an exception, and the tasks go on running the image that was
   to be rolled back.

## What is proved

`tlapm` checks these for every value of the constants that satisfies the named
assumptions of the modules. Each safety property below is also one that a run
checks on a small instance; the inductive invariants were checked by TLC before
they were proved.

| Theorem | Statement | Assumptions it uses |
|---|---|---|
| `DocsRsEdge_proofs.TypeCorrect` | `Spec => []TypeOK` | `ConfigsAssumption`, `BoundsAssumption`, `DistinctAssumption`: the contents of the config store are well-formed, an invented value differs from a real one |
| `DocsRsEdge_proofs.OriginSeesNoForgery` | `Spec => []NoForgedIdentity` | the same |
| `DocsRsEdge_proofs.HstsReachesClients` | `Spec => []ClientsGetHsts` | the same |
| `DocsRsEdge_proofs.RestPreservesIdentity` | `Spec => []IdentityIsPreserved` | the same |
| `Redirects_proofs.RedirectsTerminate` | `Spec => []RedirectsEnd` | `StartsAssumption`: clients start at URLs of our sites, with a path that has a segment |
| `Redirects_proofs.CdnsAgree` | `Spec => []SameFileOnBothCdns` | the same |
| `Redirects_proofs.CratesAreFound` | every version of every crate, the dumps and the version downloads are `Found` at each of their URLs, always | the same |
| `Redirects_proofs.PagesAreFound` | every page of the documentation is `Found` at each of its spellings, always | the same |
| `Redirects_proofs.PublishedAreFound` | `Spec => []PublishedIsFound` | the same, and `PublishedAssumption`: crates have names and versions that crates.io knows, and each path named for a page stands for it or leads to another of them |
| `CratesStatic_proofs.TypeCorrect` | `Spec => []TypeOK` | `KeysAssumption`, `BoundsAssumption`: what is replicated are keys, the bounds are numbers |
| `CratesStatic_proofs.ErrorsAreOwn` | `Spec => []FallbackIsReached` | the same |
| `CratesStatic_proofs.PurgesAreComplete` | `Spec => []PurgeLeavesNothing` | the same |
| `CratesFraming_proofs.AnnouncedLengthIsSent` | `Spec => []HeadAnnouncesGet` | `LengthAssumption`: an object is shorter than the largest number that parses |
| `CratesFraming_proofs.BeyondTheEndIsEmpty` | `Spec => []NothingBeyondTheEnd` | the same |
| `DocsRsBuilders_proofs.TypeCorrect` | `Spec => []TypeOK` | `SecretsAssumption`, `BoundsAssumption`: there is a secret to fetch |
| `DocsRsBuilders_proofs.BuildersGetFreshSecrets` | `Spec => []EverySecretIsFresh` | the same |
| `DocsRsBuilders_proofs.AdmissionNeedsTwoLooks` | `Spec => []AdmittedAfterTwoLooks` | the same |
| `RustKey_proofs.TypeCorrect` | `Spec => []TypeOK` | none, for any `Runs` and `Keys` |
| `RustKey_proofs.RunsExclude` | `Spec => []MutualExclusion` | none |
| `RustKey_proofs.CommandIsServed` | `Spec => []CommandHasTheKeys` | none |
| `RustKey_proofs.NothingIsLeft` | `Spec => [](NoTraces /\ KeysArePrivate)` | none |
| `RustKey_proofs.VaultIsImplemented` | `Spec => IsAVault`, that is `Vault!Spec` | none |
| `ScheduledJobs_proofs.CertificatesStayValid` | `Spec => []NeverExpired` | `SslAssumption`: fewer bad weeks in a row than remain when lego renews |
| `ScheduledJobs_proofs.OtherPlansSucceed` | `Spec => []OthersAreBackedUp` | `PlanAssumption`: a day's snapshot is kept at least, the bounds are numbers |
| `ScheduledJobs_proofs.PreviousIsThere` | `Spec => []PreviousIsKept` | `EcsAssumption`: an untagged image is kept at least, the workflows are finitely many |
| `ScheduledJobs_proofs.NamedImagesAreThere` | `Spec => []NamedIsRegistered` | `AmiAssumption`: the bounds are numbers, `None` is not |
| `ScheduledJobs_proofs.UsedDirectoriesStay` | `Spec => InUseIsKept` (an action property) | none |
| `ScheduledJobs_proofs.BehindAreRestarted` | `Spec => []OutdatedIsRestarted`, if no two containers have one image | `DockerAssumption`: there is a container, and the script visits each |
| `ScheduledJobs_proofs.TypeCorrect` | `Spec => []TypeOK` | all of the above and that the other jobs' bounds are numbers |
| `Firewall_proofs.EnabledTablesAreExact` | `Spec => []EnabledIsExact` | `FireAssumption`: the roles are finitely many |
| `Firewall_proofs.RunsStartOver` | `Spec => []CleanRunSucceeds` | the same |
| `Firewall_proofs.SshSurvivesOneFailure` | `Spec => []SshStaysOpen` | the same |

The last ten are theorems about `ScheduledJobs`, the composition that the run
checks: a lemma per job (`SslSteps`, `PlanSteps`, ...) says that a step is one of
this job or leaves its variables alone.

One theorem has a hypothesis that is not an assumption of a module:
`BehindAreRestarted` has that `ImageOf` is injective. It is the hypothesis the code
needs: `docker_shared_image` shows what happens without it.

`PublishedAssumption` is about paths, not about routers: `AreSpellings` says which path
is older for which, one step each, and not where a client ends. That the steps end at
the page, through the branches of `DocRoute` and what S3 answers, is the theorem. TLC
evaluates the assumption on every spelling of `MCRedirects`.

### docs.rs edge

`NoForgedIdentity` speaks of what has reached the origin, so it is not inductive:
nothing in it keeps a forged header from being on its way. The invariant `IInv`
adds `CallsOK`, which says for each stage of a call what its headers are worth. At
"load", an auth header that equals any secret, of whatever age, travels with
identity headers that a POP wrote; at "inspect", the auth header is a real secret
and the identity headers are clean unless this POP answers a client, in which
case `WithIdentity` is still to come; at "send" they are clean. The comparison with
the secret in `ShieldContext` can only fail in the safe direction: a POP with an
old copy takes an edge POP for a client and overwrites good values with its own.
The proof has a lemma per step of `handle` (`ShieldContextOK`, `RequestIdOK`,
`OriginAuthOK`, `IdentityOK`, `FinishOK`, `AbortOK`), one per kind of stack
operation, and one per group of actions.

`RInv` is about one request from its first call on. `ClientCall`: the call a client
made cannot have a real secret, so it is never taken for an edge POP's and its
answer gets HSTS, wherever the response came from. With the stores at rest
(`StoresAtRest`: no POP's copy differs from what was published), `RestFirst` and
`RestSecond` say what each call carries: the first names the request and its
client; if it does not send to the origin it sends to the shield, with the secret
the shield expects, and the shield keeps what it was sent and sends on to the
origin. Hence at most two calls, and `OneInspection`.

### static.crates.io

`FallbackIsReached` speaks of answered requests. `ReqOK` follows the answer back: an
answer in a request's hands that is a server error came from the host it asked, or
stands for that it could not be sent there (`lost`), and a request is at the fallback
only because the primary failed it. That needs
`EntryOK`, that a cache never holds a server error, or a hit would pass on somebody
else's. `PurgeLeavesNothing` compares epochs: an entry has all tags of its key and
the number of purges of each tag at the time it was stored, and `PurgeTag` drops
what it makes stale (`DropSteps`).

`CratesFraming` needs little of an invariant (what was got is `Edited` from one of the
two answers) and much arithmetic: `AnswersShape` says what S3 and the cache answer
for an object and a range, `EditShape` what the edits make of it.

### The routers together

The theorems hold for every path of every length, whatever its segments are, and
for any content of the buckets. They need three kinds of invariants:

- `EndsInv`: the requests made and those that remain (`Rank`) are `Longest` together at
  most. On the documentation `Rank` is `Left`, which no counter of the code shows: one
  per `/doc` in front, as long as what is below it has another, then what the old
  channel, the old name of a book, the minor version and the missing slash cost.
  `DocAnswerIsNearer` shows branch by branch that every answer lowers it; the hard
  branch is `/doc/`, where `Collapse` may uncover any other. Where S3 sends a client
  from a directory without its slash back below `/doc`, the directory has its slash
  from then on (`BelowDoc`).
- `CratesInv`: no answer changes where a path of crates.io leads to (`Destination`), which
  is defined without a CDN. `TrailInv`: on static.rust-lang.org both clients are on one
  sequence of places, as far as each has come, because both routers give one answer
  there (`ReleaseRoutersAgree`) and one program answers on doc.rust-lang.org.
- `OnItsWay`, for a page and a set of its spellings: the client is at one of them, or at
  the page. `Serves` says which paths of today stand for a page, `Older` which path is
  an older one for another. `OneBranch` tells the branches of `DocRoute` apart, so that
  none for an old or special name takes what another one is for; `PageIsNear` is the
  step. For crates, `CratesInv` is enough, since the destination of each URL is the file
  (`CrateUrlsEnd`, with `EncodeTwice`: what is encoded stays as it is).

The proof corrected the model in one place. `KnownDifference` named too few of the
URLs that end in the name of a database dump: the Compute program compares the end of
the text (`ends_with`, `compute-static/src/main.rs:97`), so that also
`/old-db-dump.zip` leads to the dump on Fastly and to a missing key on CloudFront. That
URL is among those of the run now. `SameFileOnBothCdns` got stronger in return: it is
about every URL now, also of objects that do not exist.

### docs.rs builders

`HostFresh` goes from the start of the service (what it has to fetch at least:
`wants`) over the file that the launcher writes one secret after the other to the
environment of the container; a launcher that could not list the secrets is `bare`
until the next start, and its file is empty. `HostSeen` goes from the script's first look to the
report: the number of a container is not given twice, so the second look that sees
the number noted saw the same container. The two arguments share `TypeOK` only.

### Release key

Mutual exclusion needs to know that the directory exists while a run is inside
(`HomeOfRun`), or a second `mkdir` could succeed. That the command has all keys
needs what each run has imported (`KeysOfRun`); that nothing is left needs that the
agent is empty once the trap has told it to be (`AgentOfRun`). The invariant is
the conjunction. `OwnerStep` is the lemma for all steps of the one run that is
inside: nobody else's part of the invariant speaks of what it changes.

The refinement needs one fact more, `DeathLocks`: where a run has died inside, the
directory is still there and nobody is inside, so that no later `mkdir` can succeed
and take a vault with somebody else's keys in it. `HolderMoves` turns a move of the
run inside into what it means for the holders, and `MkdirTakes`, `InsiderStep` and
`NextIsVaultStep` map every step to one of the vault's or to none.

### Jobs

- `SslInv`: since its last renewal a service has lost a week per bad week, and at that
  renewal it had more than `RenewWithin`; the hooks before the current one have
  passed on the certificate on the disk.
- `PlanInv`: a plan that the run is done with and that did not break has a snapshot
  of today, and snapshots are of whole dumps. `TodayIsKept` is the lemma about
  `restic forget`: the newest snapshot of today is among those it keeps.
- `EcsInv`: a tag that a workflow moved is on the newest image, so the image before
  it is the one pushed before; after a rollback it may be the newest. `ExpireKeepsEcs`
  counts the untagged images that are newer than this one: none.
- `AmiInv`: an invocation lists images of its own architecture only, and while its loop
  runs, the image just built is registered and either still to come or named already.
- `CleanInv`: a directory found in a home that cannot be read by now, or in use
  although it was found unused, was touched after the listing.
- `DockerInv`: while the boot's run of the script is at work no container runs, so
  the timer's run is alone to pull under a running container. It noted the old
  image before, and what it noted is no newer than what the name stands for now;
  so a container that falls behind is at "compare", with two images that differ, and a
  run that ends there puts it in `left`.
- `FireInv`: `todo` is the rest of the script (`Follows`), no rule leads to or from a
  chain that is not there (`NoDangling`), and `Table` says what the tables look like
  after n commands: `Cleaned`, without bad luck, what the clean-up has removed so
  far; `Made`, with any luck, that the chains created so far are new and empty and
  that from then on the rules are those appended so far; `SshOK`, how many failures
  it takes to shut SSH out after n commands. None of the three properties is
  inductive without the others: a chain can be created because it was deleted,
  was deleted because nothing referred to it, and the rules are exact because the
  chains were new. The script is a sequence computed from the roles, so the first
  part of the module says what its commands are (`CleanUpIs`, `EnableIs`), where the
  rules of a role come in the order of `SetToSeq`.

- `TypeInv` (`TypeCorrect`): `TypeOK` speaks of the job that runs, `TypeInv` of all
  ten, with a lemma per job (`LoginTypes`, `AmiTypes`, ...). Three types follow from no
  step alone. The firewall's `todo` holds commands because it is the rest of the
  script, and a snapshot's day is between 1 and today because a run starts on a day:
  these are `FireInv` and `PlanInv`. In the ECS module an image's number stays within
  `Numbers` because every push is one of a workflow's that has an image since
  (`EcsCounts`: `pushes` is one more than the workflows with an image, and there are
  at most as many deployments as workflows that are over).

### What stays model-checked only

- Liveness: `FleetRecovers`, `MissingIsForgotten`, `NewestRuns` and the other
  temporal properties of the jobs. TLAPS has no rule for fairness here.
- That clients arrive at all: the theorems about `Redirects` say where a client is that
  has arrived, and that it needs no more than `Longest` requests.
- The properties of `team_login`, the playground and Crater's agents beyond their
  types, which are all liveness properties.

## Assumptions of the models

- Platform: requests interleave between any two steps, and on the docs.rs edge a
  cached response may be served to any read; S3 is read-after-write consistent within a
  bucket; systemd's `Requires`/`After`, `Restart=` and start jobs behave as their
  manual says; `mkdir` is atomic.
- The caches of the edge programs drop entries at any moment after their TTL; the
  year of `STATIC_TTL` does not end within a behaviour.
- S3 websites answer for a directory with `index.html` and redirect to it where only
  the slash is missing. Segments are made of atoms none of which begins another
  that a router tells apart from it. `default_root_object` of doc.rust-lang.org turns
  `/` into `/index.html`, which `doc-router` answers alike.
- ECS may look at a tag when a deployment is made or when a task starts, at its own
  choice; moving a tag back does not make the image a newer push.
- `AmiBuilder`: an invocation ends within its day. `PlaygroundUpdate`: every
  publication changes the binary, since only then is there anything to restart
  for. `CraterAgent`: the repository keeps its images. `BackupPlans`: one database
  per plan (with two, `generate.sh:4` joins their names; no playbook has two).
  `TeamLogin`: the contents of a key file do not matter. `Firewall`: policies are
  left out, INPUT accepts by default.
- Known and not stated as a property: `limit_http_methods` of static.crates.io
  (`compute-static/src/main.rs:115`) says that other methods get "HTTP 403
  Unauthorized" in parity with CloudFront; line 123 answers 401.
- Known, and an exception of `EverySecretIsFresh`: "On every service start the launcher:
  1. Fetches the database URL, GitHub token, and Sentry DSN" (`BUILDERS.md:63` of the
  docs.rs module). `builder-launcher.sh:27` reads the list of them from `< <(jq ...)`,
  whose status `set -e` does not see: when that `jq` fails the loop has no round, and
  the container is started without a secret.

## Plan

Done in this order: the docs.rs edge program with its proof; the Docker role;
the crates.io programs and routers; the builders; the release key with its
proof; the timed jobs; the routers of the releases, composed with those of
crates.io; uploads to ECS and the rollback; the vault, as the abstract
specification of the release key script, with the proof that it is implemented; the
safety properties of the other modules, and the types of the timed jobs, as
theorems; the three properties of the routers, for paths of any length. With these,
every invariant that a run checks is a theorem.

What could follow:

1. Abstract specifications: a store with an invalidating cache, which
   `CratesStatic` implements for one object; a promise of the origin's view (a log
   of well-formed requests), which `DocsRsEdge` implements.
2. Composition: `team_login` and the disk clean-up on one dev desktop (an account
   that loses its keys keeps its home); the builders next to the pushes of their
   image, so that a fleet restarted by hand runs one version.

## Running

    tlc -workers 2 -config DocsRsSkew.cfg MCDocsRsEdge
    tlapm DocsRsEdge_proofs.tla

The module and configuration of every run are in `PROJECT.json` under `runs`; the
longest takes one to two minutes.

\* Every outcome of every hook, in each of the five ways through the runtime.
CONSTANTS
  Stages <- OneApp
  Plugins = "plugins"
  Redirects = "check"
SPECIFICATION Spec
INVARIANTS HandlerGated DecoratedOnce ReplyRight SetKept

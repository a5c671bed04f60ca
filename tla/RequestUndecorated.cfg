\* The reply to a route of the router, seen by the plugins or not.
CONSTANTS
  Stages <- OneApp
  Plugins = "plugins"
  Redirects = "check"
SPECIFICATION Spec
INVARIANT EveryReplyDecorated
